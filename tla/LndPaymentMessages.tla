------------------------- MODULE LndPaymentMessages -------------------------
(***************************************************************************)
(* The schemas of the messages of lnd, package lnrpc: invoices, payments,  *)
(* fees and forwarding, backups, macaroons and the RPC middleware.         *)
(***************************************************************************)
EXTENDS WireFields
-----------------------------------------------------------------------------
(* lnd_pb.js *)

HopHint == Message("HopHint",
    <<F(1, "string"), F(2, "uint64String"), F(3, "uint32"), F(4, "uint32"), F(5, "uint32")>>)
SetID == Message("SetID", <<F(1, "bytes")>>)
RouteHint == Message("RouteHint", <<R(1, "HopHint")>>)
BlindedPaymentPath == Message("BlindedPaymentPath",
    <<E(1, "BlindedPath"), F(2, "uint64String"), F(3, "uint32"), F(4, "uint32"),
      F(5, "uint64String"), F(6, "uint64String"), P(7, "enum")>>)
BlindedPath == Message("BlindedPath", <<F(1, "bytes"), F(2, "bytes"), R(3, "BlindedHop")>>)
BlindedHop == Message("BlindedHop", <<F(1, "bytes"), F(2, "bytes")>>)
AMPInvoiceState == Message("AMPInvoiceState",
    <<F(1, "enum"), F(2, "uint64String"), F(3, "int64String"), F(5, "int64String")>>)
Invoice == Message("Invoice",
    <<F(1, "string"), F(3, "bytes"), F(4, "bytes"), F(5, "int64String"), F(23, "int64String"),
      F(6, "bool"), F(7, "int64String"), F(8, "int64String"), F(9, "string"), F(10, "bytes"),
      F(11, "int64String"), F(12, "string"), F(13, "uint64String"), R(14, "RouteHint"),
      F(15, "bool"), F(16, "uint64String"), F(17, "uint64String"), F(18, "int64String"),
      F(19, "int64String"), F(20, "int64String"), F(21, "enum"), R(22, "InvoiceHTLC"),
      M(24, "uint32", "Feature"), F(25, "bool"), F(26, "bytes"), F(27, "bool"),
      M(28, "string", "AMPInvoiceState"), F(29, "bool"), E(30, "BlindedPathConfig")>>)
BlindedPathConfig == Message("BlindedPathConfig",
    <<E(1, "uint32"), E(2, "uint32"), E(3, "uint32"), R(4, "bytes"), P(5, "uint64String")>>)
InvoiceHTLC == Message("InvoiceHTLC",
    <<F(1, "uint64String"), F(2, "uint64String"), F(3, "uint64String"), F(4, "int32"),
      F(5, "int64String"), F(6, "int64String"), F(7, "int32"), F(8, "enum"),
      M(9, "uint64", "bytes"), F(10, "uint64String"), E(11, "AMP"), F(12, "bytes")>>)
AMP == Message("AMP",
    <<F(1, "bytes"), F(2, "bytes"), F(3, "uint32"), F(4, "bytes"), F(5, "bytes")>>)
AddInvoiceResponse == Message("AddInvoiceResponse",
    <<F(1, "bytes"), F(2, "string"), F(16, "uint64String"), F(17, "bytes")>>)
PaymentHash == Message("PaymentHash", <<F(1, "string"), F(2, "bytes")>>)
ListInvoiceRequest == Message("ListInvoiceRequest",
    <<F(1, "bool"), F(4, "uint64String"), F(5, "uint64String"), F(6, "bool"),
      F(7, "uint64String"), F(8, "uint64String")>>)
ListInvoiceResponse == Message("ListInvoiceResponse",
    <<R(1, "Invoice"), F(2, "uint64String"), F(3, "uint64String")>>)
InvoiceSubscription == Message("InvoiceSubscription",
    <<F(1, "uint64String"), F(2, "uint64String")>>)
DelCanceledInvoiceReq == Message("DelCanceledInvoiceReq", <<F(1, "string")>>)
DelCanceledInvoiceResp == Message("DelCanceledInvoiceResp", <<F(1, "string")>>)
Payment == Message("Payment",
    <<F(1, "string"), F(2, "int64String"), F(3, "int64String"), F(5, "int64String"),
      F(6, "string"), F(7, "int64String"), F(8, "int64String"), F(9, "string"), F(10, "enum"),
      F(11, "int64String"), F(12, "int64String"), F(13, "int64String"), R(14, "HTLCAttempt"),
      F(15, "uint64String"), F(16, "enum"), M(17, "uint64", "bytes")>>)
HTLCAttempt == Message("HTLCAttempt",
    <<F(7, "uint64String"), F(1, "enum"), E(2, "Route"), F(3, "int64String"),
      F(4, "int64String"), E(5, "Failure"), F(6, "bytes")>>)
ListPaymentsRequest == Message("ListPaymentsRequest",
    <<F(1, "bool"), F(2, "uint64String"), F(3, "uint64String"), F(4, "bool"), F(5, "bool"),
      F(6, "uint64String"), F(7, "uint64String")>>)
ListPaymentsResponse == Message("ListPaymentsResponse",
    <<R(1, "Payment"), F(2, "uint64String"), F(3, "uint64String"), F(4, "uint64String")>>)
DeletePaymentRequest == Message("DeletePaymentRequest", <<F(1, "bytes"), F(2, "bool")>>)
DeleteAllPaymentsRequest == Message("DeleteAllPaymentsRequest",
    <<F(1, "bool"), F(2, "bool"), F(3, "bool")>>)
DeletePaymentResponse == Message("DeletePaymentResponse", <<F(1, "string")>>)
DeleteAllPaymentsResponse == Message("DeleteAllPaymentsResponse", <<F(1, "string")>>)
AbandonChannelRequest == Message("AbandonChannelRequest",
    <<E(1, "ChannelPoint"), F(2, "bool"), F(3, "bool")>>)
AbandonChannelResponse == Message("AbandonChannelResponse", <<F(1, "string")>>)
DebugLevelRequest == Message("DebugLevelRequest", <<F(1, "bool"), F(2, "string")>>)
DebugLevelResponse == Message("DebugLevelResponse", <<F(1, "string")>>)
PayReqString == Message("PayReqString", <<F(1, "string")>>)
PayReq == Message("PayReq",
    <<F(1, "string"), F(2, "string"), F(3, "int64String"), F(4, "int64String"),
      F(5, "int64String"), F(6, "string"), F(7, "string"), F(8, "string"), F(9, "int64String"),
      R(10, "RouteHint"), F(11, "bytes"), F(12, "int64String"), M(13, "uint32", "Feature"),
      R(14, "BlindedPaymentPath")>>)
Feature == Message("Feature", <<F(2, "string"), F(3, "bool"), F(4, "bool")>>)
FeeReportRequest == Message("FeeReportRequest", <<>>)
ChannelFeeReport == Message("ChannelFeeReport",
    <<F(5, "uint64String"), F(1, "string"), F(2, "int64String"), F(3, "int64String"),
      F(4, "double"), F(6, "int32"), F(7, "int32")>>)
FeeReportResponse == Message("FeeReportResponse",
    <<R(1, "ChannelFeeReport"), F(2, "uint64String"), F(3, "uint64String"), F(4, "uint64String")>>)
InboundFee == Message("InboundFee", <<F(1, "int32"), F(2, "int32")>>)
PolicyUpdateRequest == Message("PolicyUpdateRequest",
    <<O(1, "bool", 1), O(2, "ChannelPoint", 1), F(3, "int64String"), F(4, "double"),
      F(9, "uint32"), F(5, "uint32"), F(6, "uint64String"), F(7, "uint64String"), F(8, "bool"),
      E(10, "InboundFee"), F(11, "bool")>>)
FailedUpdate == Message("FailedUpdate", <<E(1, "OutPoint"), F(2, "enum"), F(3, "string")>>)
PolicyUpdateResponse == Message("PolicyUpdateResponse", <<R(1, "FailedUpdate")>>)
ForwardingHistoryRequest == Message("ForwardingHistoryRequest",
    <<F(1, "uint64String"), F(2, "uint64String"), F(3, "uint32"), F(4, "uint32"), F(5, "bool"),
      P(6, "uint64String"), P(7, "uint64String")>>)
ForwardingEvent == Message("ForwardingEvent",
    <<F(1, "uint64String"), F(2, "uint64String"), F(4, "uint64String"), F(5, "uint64String"),
      F(6, "uint64String"), F(7, "uint64String"), F(8, "uint64String"), F(9, "uint64String"),
      F(10, "uint64String"), F(11, "uint64String"), F(12, "string"), F(13, "string"),
      E(14, "uint64"), E(15, "uint64")>>)
ForwardingHistoryResponse == Message("ForwardingHistoryResponse",
    <<R(1, "ForwardingEvent"), F(2, "uint32")>>)
ExportChannelBackupRequest == Message("ExportChannelBackupRequest", <<E(1, "ChannelPoint")>>)
ChannelBackup == Message("ChannelBackup", <<E(1, "ChannelPoint"), F(2, "bytes")>>)
MultiChanBackup == Message("MultiChanBackup", <<R(1, "ChannelPoint"), F(2, "bytes")>>)
ChanBackupExportRequest == Message("ChanBackupExportRequest", <<>>)
ChanBackupSnapshot == Message("ChanBackupSnapshot",
    <<E(1, "ChannelBackups"), E(2, "MultiChanBackup")>>)
ChannelBackups == Message("ChannelBackups", <<R(1, "ChannelBackup")>>)
RestoreChanBackupRequest == Message("RestoreChanBackupRequest",
    <<O(1, "ChannelBackups", 1), O(2, "bytes", 1)>>)
RestoreBackupResponse == Message("RestoreBackupResponse", <<F(1, "uint32")>>)
ChannelBackupSubscription == Message("ChannelBackupSubscription", <<>>)
VerifyChanBackupResponse == Message("VerifyChanBackupResponse", <<R(1, "string")>>)
MacaroonPermission == Message("MacaroonPermission", <<F(1, "string"), F(2, "string")>>)
BakeMacaroonRequest == Message("BakeMacaroonRequest",
    <<R(1, "MacaroonPermission"), F(2, "uint64String"), F(3, "bool")>>)
BakeMacaroonResponse == Message("BakeMacaroonResponse", <<F(1, "string")>>)
ListMacaroonIDsRequest == Message("ListMacaroonIDsRequest", <<>>)
ListMacaroonIDsResponse == Message("ListMacaroonIDsResponse", <<P(1, "uint64String")>>)
DeleteMacaroonIDRequest == Message("DeleteMacaroonIDRequest", <<F(1, "uint64String")>>)
DeleteMacaroonIDResponse == Message("DeleteMacaroonIDResponse", <<F(1, "bool")>>)
MacaroonPermissionList == Message("MacaroonPermissionList", <<R(1, "MacaroonPermission")>>)
ListPermissionsRequest == Message("ListPermissionsRequest", <<>>)
ListPermissionsResponse == Message("ListPermissionsResponse",
    <<M(1, "string", "MacaroonPermissionList")>>)
Failure == Message("Failure",
    <<F(1, "enum"), E(3, "ChannelUpdate"), F(4, "uint64String"), F(5, "bytes"), F(6, "uint32"),
      F(7, "uint32"), F(8, "uint32"), F(9, "uint32")>>)
ChannelUpdate == Message("ChannelUpdate",
    <<F(1, "bytes"), F(2, "bytes"), F(3, "uint64String"), F(4, "uint32"), F(10, "uint32"),
      F(5, "uint32"), F(6, "uint32"), F(7, "uint64String"), F(8, "uint32"), F(9, "uint32"),
      F(11, "uint64String"), F(12, "bytes")>>)
MacaroonId == Message("MacaroonId", <<F(1, "bytes"), F(2, "bytes"), R(3, "Op")>>)
Op == Message("Op", <<F(1, "string"), R(2, "string")>>)
CheckMacPermRequest == Message("CheckMacPermRequest",
    <<F(1, "bytes"), R(2, "MacaroonPermission"), F(3, "string"), F(4, "bool")>>)
CheckMacPermResponse == Message("CheckMacPermResponse", <<F(1, "bool")>>)
RPCMiddlewareRequest == Message("RPCMiddlewareRequest",
    <<F(1, "uint64String"), F(2, "bytes"), F(3, "string"), O(4, "StreamAuth", 1),
      O(5, "RPCMessage", 1), O(6, "RPCMessage", 1), O(8, "bool", 1), F(7, "uint64String"),
      M(9, "string", "MetadataValues")>>)
MetadataValues == Message("MetadataValues", <<R(1, "string")>>)
StreamAuth == Message("StreamAuth", <<F(1, "string")>>)
RPCMessage == Message("RPCMessage",
    <<F(1, "string"), F(2, "bool"), F(3, "string"), F(4, "bytes"), F(5, "bool")>>)
RPCMiddlewareResponse == Message("RPCMiddlewareResponse",
    <<F(1, "uint64String"), O(2, "MiddlewareRegistration", 1), O(3, "InterceptFeedback", 1)>>)
MiddlewareRegistration == Message("MiddlewareRegistration",
    <<F(1, "string"), F(2, "string"), F(3, "bool")>>)
InterceptFeedback == Message("InterceptFeedback", <<F(1, "string"), F(2, "bool"), F(3, "bytes")>>)
-----------------------------------------------------------------------------
Schemas ==
    {HopHint, SetID, RouteHint, BlindedPaymentPath, BlindedPath, BlindedHop, AMPInvoiceState,
     Invoice, BlindedPathConfig, InvoiceHTLC, AMP, AddInvoiceResponse, PaymentHash,
     ListInvoiceRequest, ListInvoiceResponse, InvoiceSubscription, DelCanceledInvoiceReq,
     DelCanceledInvoiceResp, Payment, HTLCAttempt, ListPaymentsRequest, ListPaymentsResponse,
     DeletePaymentRequest, DeleteAllPaymentsRequest, DeletePaymentResponse,
     DeleteAllPaymentsResponse, AbandonChannelRequest, AbandonChannelResponse, DebugLevelRequest,
     DebugLevelResponse, PayReqString, PayReq, Feature, FeeReportRequest, ChannelFeeReport,
     FeeReportResponse, InboundFee, PolicyUpdateRequest, FailedUpdate, PolicyUpdateResponse,
     ForwardingHistoryRequest, ForwardingEvent, ForwardingHistoryResponse,
     ExportChannelBackupRequest, ChannelBackup, MultiChanBackup, ChanBackupExportRequest,
     ChanBackupSnapshot, ChannelBackups, RestoreChanBackupRequest, RestoreBackupResponse,
     ChannelBackupSubscription, VerifyChanBackupResponse, MacaroonPermission,
     BakeMacaroonRequest, BakeMacaroonResponse, ListMacaroonIDsRequest, ListMacaroonIDsResponse,
     DeleteMacaroonIDRequest, DeleteMacaroonIDResponse, MacaroonPermissionList,
     ListPermissionsRequest, ListPermissionsResponse, Failure, ChannelUpdate, MacaroonId, Op,
     CheckMacPermRequest, CheckMacPermResponse, RPCMiddlewareRequest, MetadataValues, StreamAuth,
     RPCMessage, RPCMiddlewareResponse, MiddlewareRegistration, InterceptFeedback}
=============================================================================
