------------------------------ MODULE SymTable ------------------------------
(***************************************************************************)
(* SYMTABLE of src/symtable.rs: the settings a config file may hold, their *)
(* codes, encodings and limits.  The source has one line for every row and *)
(* names the row above it by number; here a block holds its rows, in their *)
(* order, and blocks that are alike row for row are written once.          *)
(***************************************************************************)
EXTENDS SequencesExt

\* 2^32 - 1, as the integers of TLC, which have 32 bits and a sign, hold it.
U32Max == -1

L(code, ident, enc, low, high) == \* a row with limits
  [code |-> code, ident |-> ident, enc |-> enc, dec |-> enc, low |-> low, high |-> high, rows |-> <<>>]
V(code, ident, enc) == L(code, ident, enc, 0, 0)
N(code, ident, dec) == [V(code, ident, "Nothing") EXCEPT !.dec = dec]         \* nothing to encode
F(code, ident) == [V(code, ident, "Nothing") EXCEPT !.dec = "Hexstr", !.high = 255] \* the contents of a file
B(code, ident, rows) == [N(code, ident, "Aggregate") EXCEPT !.rows = rows]    \* a block

ClassOfService ==
  <<L(1, "ClassID", "Uchar", 1, 16), L(2, "MaxRateDown", "Uint", 0, 1334880000),
    L(3, "MaxRateUp", "Uint", 0, 183900000), L(4, "PriorityUp", "Uchar", 0, 7),
    L(5, "GuaranteedUp", "Uint", 0, 183900000), L(6, "MaxBurstUp", "Ushort", 0, 65535),
    L(7, "PrivacyEnable", "Uchar", 0, 1)>>
ModemCapabilities ==
  <<L(1, "ConcatenationSupport", "Uchar", 0, 1), L(2, "ModemDocsisVersion", "Uchar", 0, 3),
    L(3, "FragmentationSupport", "Uchar", 0, 1), L(4, "PHSSupport", "Uchar", 0, 1),
    L(5, "IGMPSupport", "Uchar", 0, 1), L(6, "BaselinePrivacySupport", "Uchar", 0, 1),
    L(7, "DownstreamSAIDSupport", "Uchar", 0, 255), L(8, "UpstreamSIDSupport", "Uchar", 0, 255),
    V(9, "OptionalFilteringSupport", "Uchar"), L(10, "TransmitPreEqualizerTapsPerModulationInterval", "Uchar", 1, 4),
    L(11, "NumberofTransmitEqualizerTaps", "Uchar", 8, 64), L(12, "DCCSupport", "Uchar", 0, 1),
    L(13, "IPFiltersSupport", "Ushort", 64, 65535), L(14, "LLCFiltersSupport", "Ushort", 10, 65535),
    L(15, "ExpandedUnicastSIDSpace", "Uchar", 0, 1), L(16, "RangingHoldOffSupport", "Hexstr", 4, 4),
    L(17, "L2VPNCapability", "Uchar", 0, 1), V(18, "L2VPNeSAFEHostCapability", "Hexstr"),
    L(19, "DUTFilteringSupport", "Uchar", 0, 1), L(20, "UpstreamFrequencyRangeSupport", "Uchar", 0, 1),
    V(21, "UpstreamSymbolRateSupport", "Uchar"), L(22, "SelectableActiveCodeMode2Support", "Uchar", 0, 1),
    L(23, "CodeHoppingMode2Support", "Uchar", 0, 1), V(24, "MultipleTransmitChannelSupport", "Uchar"),
    V(25, "M512MspsUpstreamTransmitChannel", "Uchar"), V(26, "M256MspsUpstreamTransmitChannel", "Uchar"),
    V(27, "TotalSIDClusterSupport", "Uchar"), L(28, "SIDClustersPerServiceFlow", "Uchar", 2, 8),
    V(29, "MultipleReceiveChannelSupport", "Uchar"), L(30, "TotalDownstreamServiceIDSupport", "Uchar", 32, 255),
    L(31, "ResequencingDownstreamServiceID", "Uchar", 16, 255),
    L(32, "MulticastDownstreamServiceID", "Uchar", 16, 255), L(33, "MulticastDSIDForwarding", "Uchar", 0, 2),
    L(34, "FrameControlTypeForwarding", "Uchar", 0, 1), V(35, "DPVCapability", "Uchar"),
    V(36, "UnsolicitedGrantServiceSupport", "Uchar"), L(37, "MAPandUCDReceiptSupport", "Uchar", 0, 1),
    L(38, "UpstreamDropClassifierSupport", "Ushort", 64, 65535), L(39, "IPv6Support", "Uchar", 0, 1),
    L(40, "ExtendedUpstreamTransmitPower", "Uchar", 0, 244), L(41, "MPLSClassificationSupport", "Hexstr", 4, 4),
    V(42, "DONUCapabilitiesEncoding", "Hexstr"), L(44, "EnergyManagementCapabilities", "Hexstr", 4, 4),
    V(45, "CDOCSISCapabilityEncoding", "Hexstr"), L(46, "CMSTATUSACK", "Uchar", 0, 1)>>
BaselinePrivacy ==
  <<L(1, "AuthTimeout", "Uint", 1, 30), L(2, "ReAuthTimeout", "Uint", 1, 30),
    L(3, "AuthGraceTime", "Uint", 1, 6047999), L(4, "OperTimeout", "Uint", 1, 10),
    L(5, "ReKeyTimeout", "Uint", 1, 10), L(6, "TEKGraceTime", "Uint", 1, 302399),
    L(7, "AuthRejectTimeout", "Uint", 1, 600), L(8, "SAMapWaitTimeout", "Uint", 1, 10),
    L(9, "SAMapMaxRetries", "Uint", 0, 10)>>
IpPacketClassifier ==
  <<L(1, "IpTos", "Hexstr", 3, 3), L(2, "IpProto", "Ushort", 0, 257), V(3, "IpSrcAddr", "Ip"),
    V(4, "IpSrcMask", "Ip"), V(5, "IpDstAddr", "Ip"), V(6, "IpDstMask", "Ip"),
    L(7, "SrcPortStart", "Ushort", 0, 65535), L(8, "SrcPortEnd", "Ushort", 0, 65535),
    L(9, "DstPortStart", "Ushort", 0, 65535), L(10, "DstPortEnd", "Ushort", 0, 65535)>>
PcIPv6PacketClassification ==
  <<L(1, "PcIPv6TrafficClassRangeAndMask", "Hexstr", 3, 3), L(2, "PcIPv6FlowLabel", "Hexstr", 4, 4),
    L(3, "PcIPv6NextHeaderType", "Ushort", 0, 257), V(4, "PcIPv6SourceAddress", "Ip6"),
    L(5, "PcIPv6SourcePrefixLength", "Uchar", 0, 128), V(6, "PcIPv6DestAddress", "Ip6"),
    L(7, "PcIPv6DestPrefixLength", "Uchar", 0, 128)>>
STagCTagFrameClassification ==
  <<L(1, "STPID", "Hexstr", 2, 2), L(2, "SVID", "Hexstr", 2, 2), L(3, "SPCP", "Hexstr", 1, 1),
    L(4, "SDEI", "Hexstr", 1, 1), L(5, "CTPID", "Hexstr", 2, 2), L(6, "CVID", "Hexstr", 2, 2),
    L(7, "CPCP", "Hexstr", 1, 1), L(8, "CCFI", "Hexstr", 1, 1), L(9, "STCI", "Hexstr", 2, 2),
    L(10, "CTCI", "Hexstr", 2, 2)>>
IEEE8021ahPacketClassification ==
  <<L(1, "ITPID", "Hexstr", 2, 2), L(2, "ISID", "Hexstr", 3, 3), L(3, "ITCI", "Hexstr", 5, 5),
    L(4, "IPCP", "Hexstr", 1, 1), L(5, "IDEI", "Hexstr", 1, 1), L(6, "IUCA", "Hexstr", 1, 1),
    L(7, "BTPID", "Hexstr", 2, 2), L(8, "BTCI", "Hexstr", 2, 2), L(9, "BPCP", "Hexstr", 1, 1),
    L(10, "BDEI", "Hexstr", 1, 1), L(11, "BVID", "Hexstr", 2, 2), V(12, "BDA", "Ether"), V(13, "BSA", "Ether")>>
ServiceMultiplexingValueMPLSPW ==
  <<V(1, "MPLSPseudowireID", "Uint"), V(2, "MPLSPeerIpAddress", "CharIpIp6"), V(3, "MPLSPseudowireType", "Uchar"),
    V(4, "MPLSBackupPseudowireID", "Uint"), V(5, "MPLSBackupPeerIpAddress", "CharIpIp6")>>
IEEE8021ahEncapsulation ==
  <<L(1, "ITCIEncapsulation", "Hexstr", 4, 4), L(2, "BDAEncapsulation", "Hexstr", 6, 6),
    L(3, "BTCIEncapsulation", "Hexstr", 2, 2), L(4, "ITPIDEncapsulation", "Hexstr", 2, 2),
    L(5, "IPCPEncapsulation", "Hexstr", 1, 1), L(6, "IDEIEncapsulation", "Hexstr", 1, 1),
    L(7, "IUCAEncapsulation", "Hexstr", 1, 1), L(8, "ISIDEncapsulation", "Hexstr", 3, 3),
    L(9, "BTPIDEncapsulation", "Hexstr", 2, 2), L(10, "BPCPEncapsulation", "Hexstr", 1, 1),
    L(11, "BDEIEncapsulation", "Hexstr", 1, 1), L(12, "BVIDEncapsulation", "Hexstr", 2, 2)>>
NSIEncapsulation ==
  <<V(1, "ServiceMultiplexingValueOther", "Lenzero"), L(2, "NSIEncapsulationSingleQTag", "Ushort", 0, 4096),
    V(3, "NSIEncapsulationDualQTag", "DualQtag"),
    B(4, "ServiceMultiplexingValueMPLSPW", ServiceMultiplexingValueMPLSPW),
    V(5, "ServiceMultiplexingValueL2TPv3Peer", "CharIpIp6"),
    B(6, "IEEE8021ahEncapsulation", IEEE8021ahEncapsulation),
    L(8, "ServiceMultiplexingValueIEEE8021adSTPID", "Hexstr", 2, 2)>>
TPIDTranslation ==
  <<L(1, "UpstreamTPIDTranslation", "Hexstr", 2, 2), L(2, "DownstreamTPIDTranslation", "Hexstr", 2, 2),
    L(3, "UpstreamSTPIDTranslation", "Hexstr", 2, 2), L(4, "DownstreamSTPIDTranslation", "Hexstr", 2, 2),
    L(5, "UpstreamBTPIDTranslation", "Hexstr", 2, 2), L(6, "DownstreamBTPIDTranslation", "Hexstr", 2, 2),
    L(7, "UpstreamITPIDTranslation", "Hexstr", 2, 2), L(8, "DownstreamITPIDTranslation", "Hexstr", 2, 2)>>
L2CPProcessing ==
  <<L(1, "L2CPTunnelMode", "Uchar", 0, 1), V(2, "L2CPDMACAddress", "Ether"),
    V(3, "L2CPOverwrotingDMACAddress", "Ether")>>
ServiceDelimiter ==
  <<L(1, "CVIDDelimiter", "Hexstr", 2, 2), L(2, "SVIDDelimiter", "Hexstr", 2, 2),
    L(3, "ISIDDelimiter", "Hexstr", 3, 3), L(4, "BVIDDelimiter", "Hexstr", 2, 2)>>
VirtualSwitchInstanceEncoding ==
  <<V(1, "VPLSClass", "Hexstr"), L(2, "ETreeRole", "Uchar", 0, 1), L(3, "ETreeRootVID", "Hexstr", 2, 2),
    L(4, "ETreeLeafVID", "Hexstr", 2, 2)>>
BGPAttribute ==
  <<V(1, "BGPVPNID", "Uint"), L(2, "RouteDistinguisher", "Hexstr", 8, 8), V(3, "RouteTargetImport", "Hexstr"),
    V(4, "RouteTargetExport", "Hexstr"), V(5, "CEIDVEID", "Ushort")>>
MEPConfiguration ==
  <<L(1, "MDLevel", "Uchar", 0, 7), L(2, "MDName", "String", 2, 16), L(3, "MAName", "String", 2, 28),
    L(4, "MEPID", "Ushort", 1, 8191)>>
RemoteMEPConfiguration ==
  <<L(1, "RemoteMDLevel", "Uchar", 0, 7), L(2, "RemoteMDName", "String", 2, 16),
    L(3, "RemoteMAName", "String", 2, 28), L(4, "RemoteMEPID", "Ushort", 1, 8191)>>
FaultManagementConfiguration ==
  <<L(1, "ContinuityCheckMessages", "Uchar", 0, 2), L(2, "LoopbackFunction", "Uchar", 0, 1),
    L(3, "LinktraceFunction", "Uchar", 0, 1)>>
FrameDelayMeasurement ==
  <<L(1, "FrameDelayMeasurementEnable", "Uchar", 0, 1), L(2, "FrameDelayMeasurementOneWayTwoWay", "Uchar", 0, 1),
    V(3, "FrameDelayMeasurementTransmissionPeriodicity", "Ushort")>>
PerformanceManagementConfiguration ==
  <<B(1, "FrameDelayMeasurement", FrameDelayMeasurement),
    B(2, "FrameLossMeasurement", <<L(1, "FrameLossMeasurementEnable", "Uchar", 0, 1),
    V(2, "FrameLossMeasurementTransmissionPeriodicity", "Uchar")>>)>>
SOAMSubtype ==
  <<B(1, "MEPConfiguration", MEPConfiguration), B(2, "RemoteMEPConfiguration", RemoteMEPConfiguration),
    B(3, "FaultManagementConfiguration", FaultManagementConfiguration),
    B(4, "PerformanceManagementConfiguration", PerformanceManagementConfiguration)>>
L2VPNEncoding ==
  <<L(1, "VPNIdentifier", "Hexstr", 4, 255), B(2, "NSIEncapsulation", NSIEncapsulation),
    V(3, "eSAFEDHCPSnooping", "Hexstr"), V(4, "CMInterfaceMaskCMIMSubtype", "Hexstr"),
    V(5, "AttachmentGroupID", "Hexstr"), V(6, "SourceAttachmentIndividualID", "Hexstr"),
    V(7, "TargetAttachmentIndividualID", "Hexstr"), L(8, "IngressUserPriority", "Uchar", 0, 7),
    V(9, "UserPriorityRange", "CharList"), L(10, "L2VPNSADescriptorSubtype", "Hexstr", 14, 14),
    L(12, "PseudowireType", "Uchar", 4, 5), L(13, "L2VPNMode", "Uchar", 0, 1),
    B(14, "TPIDTranslation", TPIDTranslation), B(15, "L2CPProcessing", L2CPProcessing),
    L(16, "DACDisableEnableConfiguration", "Uchar", 0, 1), V(18, "PseudowireClass", "Hexstr"),
    B(19, "ServiceDelimiter", ServiceDelimiter),
    B(20, "VirtualSwitchInstanceEncoding", VirtualSwitchInstanceEncoding), B(21, "BGPAttribute", BGPAttribute),
    L(23, "PseudowireSignaling", "Uchar", 0, 2), B(24, "SOAMSubtype", SOAMSubtype),
    L(22, "VPNSGAttribute", "String", 1, 16), L(25, "L2VPNNetworkTimingProfileReference", "Ushort", 0, 65535),
    L(26, "L2VPNDSID", "Uint24", 1, 1048575), L(27, "L2VPNMultipointForwardingMode", "Uchar", 0, 1),
    B(43, "VendorSpecificL2VPNSubtype", <<L(8, "VendorIdentifier", "Hexstr", 3, 3)>>)>>
ExtendedCMTSMICConfigurationSetting ==
  <<V(1, "ExtendedCMTSMICHMACtype", "Uchar"), V(2, "ExtendedCMTSMICBitmap", "Hexstr"),
    V(3, "ExplicitExtendedCMTSMICDigest", "Hexstr")>>
SAVAuthorizationEncoding ==
  <<L(1, "SAVGroupName", "String", 1, 15), B(2, "SAVStaticPrefixRule", <<V(1, "SAVStaticPrefixAddress", "IpIp6"),
    V(2, "SAVStaticPrefixLength", "Uchar")>>)>>
CMAttributeMasks ==
  <<L(1, "CMDownstreamRequiredAttributeMask", "Hexstr", 4, 4),
    L(2, "CMDownstreamForbiddenAttributeMask", "Hexstr", 4, 4),
    L(3, "CMUpstreamRequiredAttributeMask", "Hexstr", 4, 4),
    L(4, "CMUpstreamForbiddenAttributeMask", "Hexstr", 4, 4)>>
IPMulticastJoinAuthStaticSessionRule ==
  <<L(1, "MulticastRulePriority", "Uchar", 0, 255), L(2, "AuthorizationAction", "Uchar", 0, 1),
    V(3, "SourcePrefixAddress", "IpIp6"), L(4, "SourcePrefixLength", "Uchar", 0, 128),
    V(5, "GroupPrefixAddress", "IpIp6"), L(6, "GroupPrefixLength", "Uchar", 0, 128)>>
IPMulticastJoinAuthorization ==
  <<L(1, "IPMulticastProfileName", "String", 1, 15),
    B(2, "IPMulticastJoinAuthStaticSessionRule", IPMulticastJoinAuthStaticSessionRule),
    V(3, "MaximumMulticastSessions", "Ushort")>>
DEMARCAutoConfiguration ==
  <<L(1, "DACDisableEnableConfig", "Uchar", 0, 1), V(2, "CMIMEncoding", "Hexstr"),
    L(3, "UpstreamServiceClassName", "Strzero", 2, 16), L(4, "DownstreamServiceClassName", "Strzero", 2, 16)>>
VendorSpecific ==
  <<V(1, "CMLoadBalancingPolicyID", "Uint"), V(2, "CMLoadBalancingPriority", "Uint"),
    V(3, "CMLoadBalancingGroupID", "Uint"), V(4, "CMRangingClassIDExtension", "Ushort"),
    B(5, "L2VPNEncoding", L2VPNEncoding),
    B(6, "ExtendedCMTSMICConfigurationSetting", ExtendedCMTSMICConfigurationSetting),
    B(7, "SAVAuthorizationEncoding", SAVAuthorizationEncoding), L(8, "VendorIdentifier", "Hexstr", 3, 3),
    B(9, "CMAttributeMasks", CMAttributeMasks), B(10, "IPMulticastJoinAuthorization", IPMulticastJoinAuthorization),
    L(11, "ServiceTypeIdentifier", "String", 1, 16), B(12, "DEMARCAutoConfiguration", DEMARCAutoConfiguration)>>
UsPacketClass ==
  <<L(1, "ClassifierRef", "Uchar", 1, 255), L(2, "ClassifierId", "Ushort", 1, 65535),
    L(3, "ServiceFlowRef", "Ushort", 1, 65535), L(4, "ServiceFlowId", "Uint", 1, U32Max),
    L(5, "RulePriority", "Uchar", 0, 255), L(6, "ActivationState", "Uchar", 0, 1), L(7, "DscAction", "Uchar", 0, 2),
    B(9, "IpPacketClassifier", IpPacketClassifier),
    B(10, "LLCPacketClassifier", <<V(1, "DstMacAddress", "Ethermask"), V(2, "SrcMacAddress", "Ether"),
    L(3, "EtherType", "Hexstr", 3, 3)>>), B(11, "IEEE802Classifier", <<V(1, "UserPriority", "CharList"),
    L(2, "VlanID", "Ushort", 0, 4096)>>), B(12, "PcIPv6PacketClassification", PcIPv6PacketClassification),
    V(13, "PcCMIMEncoding", "Hexstr"), B(14, "STagCTagFrameClassification", STagCTagFrameClassification),
    B(15, "IEEE8021ahPacketClassification", IEEE8021ahPacketClassification),
    B(16, "ICMPv4ICMPv6PacketClassification", <<L(1, "ICMPv4ICMPv6TypeStart", "Uchar", 0, 255),
    L(2, "ICMPv4ICMPv6TypeEnd", "Uchar", 0, 255)>>),
    B(17, "MPLSClassificationEncoding", <<L(1, "MPLSTCbits", "Hexstr", 1, 1), L(2, "MPLSLabel", "Hexstr", 3, 3)>>),
    B(43, "VendorSpecific", VendorSpecific)>>
Rows0to22 ==
  <<N(0, "/* Pad */", "Special"), L(1, "DownstreamFrequency", "Uint", 88000000, 1008000000),
    L(2, "UpstreamChannelId", "Uchar", 0, 255), L(3, "NetworkAccess", "Uchar", 0, 1),
    B(4, "ClassOfService", ClassOfService), B(5, "ModemCapabilities", ModemCapabilities), N(6, "CmMic", "Md5"),
    N(7, "CmtsMic", "Md5"), V(9, "SwUpgradeFilename", "String"), N(10, "SnmpWriteControl", "SnmpWd"),
    N(11, "SnmpMibObject", "SnmpObject"), N(11, "DigitMap", "SnmpObject"), V(12, "ModemIPAddress", "Ip"),
    V(14, "CpeMacAddress", "Ether"), B(17, "BaselinePrivacy", BaselinePrivacy), L(18, "MaxCPE", "Uchar", 1, 254),
    L(19, "TftpTimestamp", "Uint", 0, U32Max), V(20, "TftpModemAddress", "Ip"), V(21, "SwUpgradeServer", "Ip"),
    B(22, "UsPacketClass", UsPacketClass)>>
PcIPv6PacketClassification2 ==
  <<V(1, "PcIPv6TrafficClassRangeAndMask", "Hexstr"), L(2, "PcIPv6FlowLabel", "Hexstr", 4, 4),
    L(3, "PcIPv6NextHeaderType", "Ushort", 0, 257), V(4, "PcIPv6SourceAddress", "Ip6"),
    L(5, "PcIPv6SourcePrefixLength", "Uchar", 0, 128), V(6, "PcIPv6DestAddress", "Ip6"),
    L(7, "PcIPv6DestPrefixLength", "Uchar", 0, 128)>>
DsPacketClass ==
  <<L(1, "ClassifierRef", "Uchar", 1, 255), L(2, "ClassifierId", "Ushort", 1, 65535),
    L(3, "ServiceFlowRef", "Ushort", 1, 65535), L(4, "ServiceFlowId", "Uint", 1, U32Max),
    L(5, "RulePriority", "Uchar", 0, 255), L(6, "ActivationState", "Uchar", 0, 1), L(7, "DscAction", "Uchar", 0, 2),
    B(9, "IpPacketClassifier", IpPacketClassifier),
    B(10, "LLCPacketClassifier", <<V(1, "DstMacAddress", "Ethermask"), V(2, "SrcMacAddress", "Ether"),
    L(3, "EtherType", "Hexstr", 0, 3)>>), B(11, "IEEE802Classifier", <<V(1, "UserPriority", "CharList"),
    V(2, "VlanID", "Ushort")>>), B(12, "PcIPv6PacketClassification", PcIPv6PacketClassification2),
    V(13, "PcCMIMEncoding", "Hexstr"), B(14, "STagCTagFrameClassification", STagCTagFrameClassification),
    B(15, "IEEE8021ahPacketClassification", IEEE8021ahPacketClassification),
    B(16, "ICMPv4ICMPv6PacketClassification", <<L(1, "ICMPv4ICMPv6TypeStart", "Uchar", 0, 255),
    L(2, "ICMPv4ICMPv6TypeEnd", "Uchar", 0, 255)>>),
    B(17, "MPLSClassificationEncoding", <<L(1, "MPLSTCbits", "Hexstr", 1, 1), L(2, "MPLSLabel", "Hexstr", 3, 3)>>),
    B(43, "VendorSpecific", VendorSpecific)>>
Rows23to23 ==
  <<B(23, "DsPacketClass", DsPacketClass)>>
BufferControl ==
  <<L(1, "MinimumBuffer", "Uint", 0, U32Max), L(2, "TargetBuffer", "Uint", 0, U32Max),
    L(3, "MaximumBuffer", "Uint", 0, U32Max)>>
AQMEncodings ==
  <<L(1, "SFAQMDisable", "Uchar", 0, 1), L(2, "SFAQMLatencyTarget", "Uchar", 0, 255),
    L(3, "AQMAlgorithm", "Uchar", 0, 2), V(4, "ImmediateAQMMaxThreshold", "Ushort"),
    L(5, "ImmediateAQMRangeExponent", "Uchar", 0, 25), L(6, "LatencyHistogramEncodings", "UshortList", 1, 15)>>
UsServiceFlow ==
  <<L(1, "UsServiceFlowRef", "Ushort", 1, 65535), L(2, "UsServiceFlowId", "Uint", 1, U32Max),
    V(3, "ServiceIdentifier", "Ushort"), L(4, "ServiceClassName", "Strzero", 2, 16),
    L(6, "QosParamSetType", "Uchar", 0, 255), L(7, "TrafficPriority", "Uchar", 0, 7),
    V(8, "MaxRateSustained", "Uint"), V(9, "MaxTrafficBurst", "Uint"), V(10, "MinReservedRate", "Uint"),
    L(11, "MinResPacketSize", "Ushort", 0, 65535), L(12, "ActQosParamsTimeout", "Ushort", 0, 65535),
    L(13, "AdmQosParamsTimeout", "Ushort", 0, 65535), L(14, "MaxConcatenatedBurst", "Ushort", 0, 65535),
    L(15, "SchedulingType", "Uchar", 0, 6), L(16, "RequestOrTxPolicy", "Hexstr", 4, 4),
    V(17, "NominalPollInterval", "Uint"), V(18, "ToleratedPollJitter", "Uint"),
    L(19, "UnsolicitedGrantSize", "Ushort", 0, 65535), V(20, "NominalGrantInterval", "Uint"),
    V(21, "ToleratedGrantJitter", "Uint"), L(22, "GrantsPerInterval", "Uchar", 0, 127),
    L(23, "IpTosOverwrite", "Hexstr", 2, 2), L(26, "MultipliertoNumberofBytesRequested", "Uchar", 1, 16),
    V(27, "UpstreamPeakTrafficRate", "Uint"), L(31, "ServiceFlowRequiredAttributeMask", "Hexstr", 4, 4),
    L(32, "ServiceFlowForbiddenAttributeMask", "Hexstr", 4, 4),
    L(33, "ServiceFlowAttributeAggregationRuleMask", "Hexstr", 4, 4), V(34, "ApplicationIdentifier", "Uint"),
    B(35, "BufferControl", BufferControl), L(36, "UpstreamAggregateServiceFlowReference", "Ushort", 1, 65535),
    L(37, "UpstreamMESPReference", "Ushort", 1, 65535), L(39, "SFtoIATCProfileNameReference", "Strzero", 2, 16),
    B(40, "AQMEncodings", AQMEncodings), L(41, "DataRateUnitSetting", "Uchar", 0, 3),
    B(43, "VendorSpecific", VendorSpecific), V(44, "GuaranteedGrantInterval", "Ushort"),
    V(45, "GuaranteedGrantRate", "Uint"), V(46, "GuaranteedRequestInterval", "Ushort"),
    L(48, "AbsoluteQueueDepthRequestEnable", "Uchar", 0, 1), L(49, "PGSActivityDetectionDisable", "Uchar", 0, 1)>>
DsServiceFlow ==
  <<L(1, "DsServiceFlowRef", "Ushort", 1, 65535), L(2, "DsServiceFlowId", "Uint", 1, U32Max),
    L(4, "ServiceClassName", "Strzero", 2, 16), L(6, "QosParamSetType", "Uchar", 0, 255),
    L(7, "TrafficPriority", "Uchar", 0, 7), L(8, "MaxRateSustained", "Uint", 0, U32Max),
    L(9, "MaxTrafficBurst", "Uint", 0, U32Max), L(10, "MinReservedRate", "Uint", 0, U32Max),
    L(11, "MinResPacketSize", "Ushort", 0, 65535), L(12, "ActQosParamsTimeout", "Ushort", 0, 65535),
    L(13, "AdmQosParamsTimeout", "Ushort", 0, 65535), V(14, "MaxDsLatency", "Uint"),
    L(17, "DsResequencing", "Uchar", 0, 1), L(23, "IpTosOverwrite", "Hexstr", 2, 2),
    V(27, "DownstreamPeakTrafficRate", "Uint"), L(31, "ServiceFlowRequiredAttributeMask", "Hexstr", 4, 4),
    L(32, "ServiceFlowForbiddenAttributeMask", "Hexstr", 4, 4),
    L(33, "ServiceFlowAttributeAggregationRuleMask", "Hexstr", 4, 4), V(34, "ApplicationIdentifier", "Uint"),
    B(35, "BufferControl", BufferControl), L(36, "DownstreamAggregateServiceFlowReference", "Ushort", 1, 65535),
    L(37, "DownstreamMESPReference", "Ushort", 1, 65535), L(39, "SFtoIATCProfileNameReference", "Strzero", 2, 16),
    B(40, "AQMEncodings", AQMEncodings), L(41, "DataRateUnitSetting", "Uchar", 0, 3),
    B(43, "VendorSpecific", VendorSpecific)>>
Rows24to25 ==
  <<B(24, "UsServiceFlow", UsServiceFlow), B(25, "DsServiceFlow", DsServiceFlow)>>
PHS ==
  <<L(1, "PHSClassifierRef", "Uchar", 1, 255), L(2, "PHSClassifierId", "Ushort", 1, 65535),
    L(3, "PHSServiceFlowRef", "Ushort", 1, 65535), L(4, "PHSServiceFlowId", "Uint", 1, U32Max),
    L(5, "PHSDSCAction", "Uchar", 0, 3), L(7, "PHSField", "Hexstr", 1, 255), L(8, "PHSIndex", "Uchar", 1, 255),
    L(9, "PHSMask", "Hexstr", 1, 255), L(10, "PHSSize", "Uchar", 1, 255), L(11, "PHSVerify", "Uchar", 0, 1),
    L(13, "PHSDBCAction", "Uchar", 0, 1), B(43, "VendorSpecific", VendorSpecific)>>
Rows26to29 ==
  <<B(26, "PHS", PHS), V(28, "MaxClassifiers", "Ushort"), L(29, "GlobalPrivacyEnable", "Uchar", 0, 1)>>
SnmpV3TrapReceiver ==
  <<V(1, "SnmpV3TrapRxIP", "Ip"), V(2, "SnmpV3TrapRxPort", "Ushort"), L(3, "SnmpV3TrapRxType", "Ushort", 1, 5),
    L(4, "SnmpV3TrapRxTimeout", "Ushort", 0, 65535), L(5, "SnmpV3TrapRxRetries", "Ushort", 0, 65535),
    L(6, "SnmpV3TrapRxFilterOID", "Oid", 1, 5), L(7, "SnmpV3TrapRxSecurityName", "String", 1, 16),
    V(8, "SnmpV3TrapRxIP6", "Ip6")>>
DsChannelList ==
  <<B(1, "SingleDsChannel", <<L(1, "SingleDsTimeout", "Ushort", 0, 65535),
    L(2, "SingleDsFrequency", "Uint", 0, U32Max), L(3, "SingleDsChannelType", "Uchar", 0, 255)>>),
    B(2, "DsFreqRange", <<L(1, "DsFreqRangeTimeout", "Ushort", 0, 65535),
    L(2, "DsFreqRangeStart", "Uint", 0, U32Max), L(3, "DsFreqRangeEnd", "Uint", 0, U32Max),
    L(4, "DsFreqRangeStepSize", "Uint", 0, U32Max), L(5, "DsFreqRangeChannelType", "Uchar", 0, 255)>>),
    L(3, "DefaultScanTimeout", "Ushort", 0, 65535)>>
VendorSpecific2 ==
  <<V(1, "CMLoadBalancingPolicyID", "Uint"), V(2, "CMLoadBalancingPriority", "Uint"),
    V(3, "CMLoadBalancingGroupID", "Uint"), V(4, "CMRangingClassIDExtension", "Ushort"),
    B(5, "L2VPNEncoding", L2VPNEncoding),
    B(6, "ExtendedCMTSMICConfiguration", <<V(1, "ExtendedCMTSMICHMACDigestType", "Uchar"),
    V(2, "ExtendedCMTSMICHMACBitmap", "Hexstr"), V(3, "ExtendedCMTSMICHMACDigest", "Hexstr")>>),
    B(7, "SAVAuthorizationEncoding", SAVAuthorizationEncoding), L(8, "VendorIdentifier", "Hexstr", 3, 3),
    B(9, "CMAttributeMasks", CMAttributeMasks), B(10, "IPMulticastJoinAuthorization", IPMulticastJoinAuthorization),
    L(11, "ServiceTypeIdentifier", "String", 1, 16), B(12, "DEMARCAutoConfiguration", DEMARCAutoConfiguration)>>
Rows32to45 ==
  <<L(32, "MfgCVCData", "Hexstr", 0, 255), F(32, "ManufacturerCVC"), L(33, "CoSignerCVCData", "Hexstr", 0, 255),
    F(33, "CoSignerCVC"), B(34, "SnmpV3Kickstart", <<L(1, "SnmpV3SecurityName", "String", 1, 16),
    L(2, "SnmpV3MgrPublicNumber", "Hexstr", 1, 514)>>), L(35, "SubMgmtControl", "Hexstr", 3, 3),
    V(36, "SubscriberManagementCPEIPTable", "IpList"), L(37, "SubMgmtFilters", "UshortList", 4, 10),
    B(38, "SnmpV3TrapReceiver", SnmpV3TrapReceiver), L(39, "DocsisTwoEnable", "Uchar", 0, 1),
    L(40, "EnableTestModes", "Uchar", 0, 1), B(41, "DsChannelList", DsChannelList),
    V(42, "MulticastMACAddress", "Ether"), B(43, "VendorSpecific", VendorSpecific2),
    B(45, "DUTFiltering", <<L(1, "DUTControl", "Uchar", 0, 1), V(2, "DUTCMIM", "Hexstr")>>)>>
SNMPv1v2cCoexistenceConfig ==
  <<V(1, "SNMPv1v2cCommunityName", "String"),
    B(2, "SNMPv1v2cTransportAddressAccess", <<V(1, "SNMPv1v2cTransportAddress", "IpIp6Port"),
    V(2, "SNMPv1v2cTransportAddressMask", "IpIp6Port")>>), L(3, "SNMPv1v2cAccessViewType", "Uchar", 1, 2),
    V(4, "SNMPv1v2cAccessViewName", "String")>>
IPv4PacketClassification ==
  <<L(1, "IPv4Tos", "Hexstr", 3, 3), L(2, "IPProtocol", "Ushort", 0, 257), V(3, "IPv4SourceAddress", "Ip"),
    V(4, "IPv4SourceMask", "Ip"), V(5, "IPv4DestinationAddress", "Ip"), V(6, "IPv4DestinationMask", "Ip"),
    V(7, "SourcePortStart", "Ushort"), V(8, "SourcePortEnd", "Ushort"), V(9, "DestinationPortStart", "Ushort"),
    V(10, "DestinationPortEnd", "Ushort")>>
IPv6PacketClassification ==
  <<L(1, "IPv6TrafficClassRangeandMask", "Hexstr", 3, 3), L(2, "IPv6FlowLabel", "Hexstr", 4, 4),
    L(3, "IPv6NextHeaderType", "Ushort", 0, 257), V(4, "IPv6SourceAddress", "Ip6"),
    L(5, "IPv6SourcePrefixLength", "Uchar", 0, 128), V(6, "IPv6DestinationAddress", "Ip6"),
    L(7, "IPv6DestinationPrefixLength", "Uchar", 0, 128)>>
UpstreamDropPacketClassification ==
  <<L(1, "ClassifierReference", "Uchar", 1, 255), L(2, "ClassifierIdentifier", "Ushort", 1, 65535),
    V(5, "RulePriority", "Uchar"), L(7, "DynamicServiceChangeAction", "Uchar", 0, 2),
    B(9, "IPv4PacketClassification", IPv4PacketClassification),
    B(10, "EthernetLLCPacketClassification", <<V(1, "DestinationMACAddress", "Ethermask"),
    V(2, "SourceMACAddress", "Ether"), L(3, "EthertypeDSAPMacType", "Hexstr", 3, 3)>>),
    B(11, "IEEE8021PQPacketClassification", <<V(1, "UserPriority", "CharList"), V(2, "VlanID", "Ushort")>>),
    B(12, "IPv6PacketClassification", IPv6PacketClassification), V(13, "CMInterfaceMaskEncoding", "Hexstr"),
    B(14, "STagCTagFrameClassification", STagCTagFrameClassification),
    B(15, "IEEE8021ahPacketClassification", IEEE8021ahPacketClassification),
    B(16, "ICMPv4ICMPv6PacketClassification", <<L(1, "ICMPv4ICMPv6TypeStart", "Uchar", 0, 255),
    L(2, "ICMPv4ICMPv6TypeEnd", "Uchar", 0, 255)>>),
    B(17, "MPLSClassificationEncoding", <<L(1, "MPLSTCbits", "Hexstr", 1, 1), L(2, "MPLSLabel", "Hexstr", 3, 3)>>),
    B(43, "VendorSpecific", VendorSpecific)>>
Rows53to69 ==
  <<B(53, "SNMPv1v2cCoexistenceConfig", SNMPv1v2cCoexistenceConfig),
    B(54, "SNMPv3AccessViewConfiguration", <<V(1, "SNMPv3AccessViewName", "String"),
    V(2, "SNMPv3AccessViewSubtree", "Oid"), L(3, "SNMPv3AccessViewMask", "Hexstr", 1, 2),
    L(4, "SNMPv3AccessViewType", "Uchar", 1, 2)>>), L(55, "SNMPCPEAccessControl", "Uchar", 0, 1),
    B(56, "ChannelAssignmentConfig", <<L(1, "CaTransmit", "Uchar", 0, 255),
    L(2, "CaReceive", "Uint", 88000000, 860000000)>>), V(58, "SwUpgradeServer6", "Ip6"),
    V(59, "TFTPProvisionedModemIPv6Address", "Ip6"),
    B(60, "UpstreamDropPacketClassification", UpstreamDropPacketClassification),
    V(61, "SubMgmtCPEIPv6PrefixList", "Ip6PrefixList"), V(62, "UpstreamDropClassifierGroupID", "CharList"),
    V(63, "SubMgmtControl6", "Ushort"),
    B(64, "CMTSStaticMulticastSessionEncodings", <<V(1, "CMTSStaticMulticastSessionGroup", "IpIp6"),
    V(2, "CMTSStaticMulticastSessionSource", "IpIp6"), V(3, "CMTSStaticMulticastSessionCMIM", "Hexstr")>>),
    B(65, "L2VPNMACAgingEncoding", <<L(1, "L2VPNMACAgingMode", "Uchar", 0, 1)>>),
    V(66, "ManagementEventControl", "Uint"), V(67, "SubscriberManagementCPEIPv6Table", "Ip6List"),
    V(68, "DefaultUpstreamTargetBuffer", "Ushort"),
    B(69, "MACAddressLearningControlEncoding", <<L(1, "MACAddressLearningControl", "Uchar", 0, 1),
    L(2, "MACAddressLearningHoldoffTimer", "Uchar", 0, 10)>>)>>
ServiceFlowMatchingCriteria ==
  <<L(1, "MatchingbyApplicationId", "Uint", 0, 1), L(2, "MatchingbyServiceClassName", "Strzero", 2, 16),
    L(3, "MatchingbyTrafficPriorityRange", "CharList", 2, 2)>>
LowLatencyAggregateSFEncodings ==
  <<L(1, "LowLatencyServiceFlowReference", "Ushort", 1, 65535), L(3, "ClassicSFSCN", "Strzero", 2, 16),
    L(4, "LowLatencySFSCN", "Strzero", 2, 16), V(5, "AQMCouplingFactor", "Uchar"),
    L(6, "SchedulingWeight", "Uchar", 1, 255), L(7, "QueueProtectionEnable", "Uchar", 0, 1),
    V(8, "QPLatencyThreshold", "Ushort"), V(9, "QPQueuingScoreThreshold", "Ushort"),
    V(10, "QPDrainRateExponent", "Uchar")>>
UpstreamAggregateServiceFlow ==
  <<L(1, "UpstreamServiceFlowReference", "Ushort", 1, 65535), L(4, "ASFQoSProfileName", "Strzero", 2, 16),
    L(7, "TrafficPriority", "Uchar", 0, 7), V(8, "MaxRateSustained", "Uint"), V(9, "MaxTrafficBurst", "Uint"),
    V(10, "MinReservedRate", "Uint"), L(11, "MinResPacketSize", "Ushort", 0, 65535),
    V(27, "UpstreamPeakTrafficRate", "Uint"), L(37, "UpstreamMESPReference", "Ushort", 1, 65535),
    B(38, "ServiceFlowMatchingCriteria", ServiceFlowMatchingCriteria), L(41, "DataRateUnitSetting", "Uchar", 0, 3),
    B(42, "LowLatencyAggregateSFEncodings", LowLatencyAggregateSFEncodings)>>
DownstreamAggregateServiceFlow ==
  <<L(1, "DownstreamServiceFlowReference", "Ushort", 1, 65535), L(4, "ASFQoSProfileName", "Strzero", 2, 16),
    L(7, "TrafficPriority", "Uchar", 0, 7), V(8, "MaxRateSustained", "Uint"), V(9, "MaxTrafficBurst", "Uint"),
    V(10, "MinReservedRate", "Uint"), L(11, "MinResPacketSize", "Ushort", 0, 65535),
    V(27, "DownstreamPeakTrafficRate", "Uint"), L(37, "DownstreamMESPReference", "Ushort", 1, 65535),
    B(38, "ServiceFlowMatchingCriteria", ServiceFlowMatchingCriteria), L(41, "DataRateUnitSetting", "Uchar", 0, 3),
    B(42, "LowLatencyAggregateSFEncodings", LowLatencyAggregateSFEncodings)>>
Rows70to71 ==
  <<B(70, "UpstreamAggregateServiceFlow", UpstreamAggregateServiceFlow),
    B(71, "DownstreamAggregateServiceFlow", DownstreamAggregateServiceFlow)>>
MESPBandwidthProfile ==
  <<V(1, "CIR", "Uint"), V(2, "CBR", "Uint"), V(3, "EIR", "Uint"), V(4, "EBS", "Uint"),
    L(5, "CouplingFlag", "Uchar", 0, 1), B(6, "ColorMode", <<L(1, "ColorIdentificationField", "Uchar", 0, 9),
    L(2, "ColorIdentificationFieldValue", "Hexstr", 1, 1)>>),
    B(7, "ColorMarking", <<L(1, "ColorMarkingField", "Uchar", 0, 5),
    L(2, "ColorMarkingFieldValue", "Hexstr", 1, 1)>>)>>
MetroEthernetServiceProfile ==
  <<L(1, "MESPReference", "Uchar", 1, 255), B(2, "MESPBandwidthProfile", MESPBandwidthProfile),
    L(3, "MESPName", "Strzero", 2, 254)>>
DownstreamActivityDetectionParameters ==
  <<V(1, "DownstreamEntryBitrateThreshold", "Uint"), L(2, "DownstreamEntryTimeThreshold", "Ushort", 1, 65535),
    V(3, "DownstreamExitBitrateThreshold", "Uint"), L(4, "DownstreamExitTimeThreshold", "Ushort", 1, 65535)>>
UpstreamActivityDetectionParameters ==
  <<V(1, "UpstreamEntryBitrateThreshold", "Uint"), L(2, "UpstreamEntryTimeThreshold", "Ushort", 1, 65535),
    V(3, "UpstreamExitBitrateThreshold", "Uint"), L(4, "UpstreamExitTimeThreshold", "Ushort", 1, 65535)>>
EnergyManagement1x1Mode ==
  <<B(1, "DownstreamActivityDetectionParameters", DownstreamActivityDetectionParameters),
    B(2, "UpstreamActivityDetectionParameters", UpstreamActivityDetectionParameters)>>
EnergyManagementParameter ==
  <<L(1, "EnergyManagementFeatureControl", "Uint", 0, 1), B(2, "EnergyManagement1x1Mode", EnergyManagement1x1Mode),
    V(3, "EnergyManagementCyclePeriod", "Ushort"), B(4, "EnergyManagementDLSMode", EnergyManagement1x1Mode)>>
UNIControlEncodings ==
  <<V(1, "ContextCMIM", "Hexstr"), L(2, "UNIAdminStatus", "Uchar", 0, 1),
    L(3, "UNIAutoNegotiationStatus", "Uchar", 0, 1), L(4, "UNIOperatingSpeed", "Uchar", 0, 6),
    L(5, "UNIDuplex", "Uchar", 0, 2), L(6, "EEEStatus", "Uchar", 0, 1), V(7, "MaximumFrameSize", "Ushort"),
    L(8, "PowerOverEthernetStatus", "Uchar", 0, 1), L(9, "MediaType", "Uchar", 0, 1)>>
Rows72to79 ==
  <<B(72, "MetroEthernetServiceProfile", MetroEthernetServiceProfile),
    B(73, "NetworkTimingProfile", <<L(1, "NetworkTimingProfileReference", "Ushort", 1, 65536),
    L(2, "NetworkTimingProfileName", "Strzero", 2, 16)>>),
    B(74, "EnergyManagementParameter", EnergyManagementParameter),
    L(75, "EnergyManagement1x1ModeIndicator", "Uchar", 0, 2), L(76, "CMUpstreamAQMDisable", "Uchar", 0, 1),
    B(79, "UNIControlEncodings", UNIControlEncodings)>>
EnhancedHQoSIntraASFSchedulingEncoding ==
  <<L(1, "ConstituentSFReference", "Ushort", 1, 65535), L(3, "ConstituentSFSCN", "Strzero", 2, 16),
    L(4, "ConstituentSFPriority", "Uchar", 0, 7), V(5, "ConstituentSFWeight", "Uchar")>>
UpstreamEHQoSASF ==
  <<L(1, "ServiceFlowReference", "Ushort", 1, 65535), L(7, "TrafficPriority", "Uchar", 0, 7),
    V(8, "MaxSustainedRate", "Uint"), V(9, "MaxTrafficBurst", "Uint"), V(10, "MinReservedRate", "Uint"),
    L(11, "MinResPacketSize", "Ushort", 0, 65535),
    B(47, "EnhancedHQoSIntraASFSchedulingEncoding", EnhancedHQoSIntraASFSchedulingEncoding)>>
TR69ManagementServer ==
  <<L(1, "EnableCWMP", "Uchar", 0, 1), V(2, "URL", "String"), V(3, "Username", "String"), V(4, "Password", "String"),
    V(5, "ConnectionRequestUsername", "String"), V(6, "ConnectionRequestPassword", "String"),
    L(7, "ACSOverride", "Uchar", 0, 1)>>
eRouter ==
  <<L(1, "InitializationMode", "Uchar", 0, 3), B(2, "TR69ManagementServer", TR69ManagementServer),
    L(3, "InitializationModeOverride", "Uchar", 0, 1), L(10, "RATransmissionInterval", "Ushort", 3, 1800),
    N(11, "SnmpMibObject", "SnmpObject"), L(42, "TopologyModeEncoding", "Uchar", 1, 2),
    B(43, "VendorSpecific", <<L(8, "VendorIdentifier", "Hexstr", 3, 3)>>),
    B(53, "SNMPv1v2cCoexistenceConfig", SNMPv1v2cCoexistenceConfig),
    B(54, "SNMPv3AccessViewConfiguration", <<V(1, "SNMPv3AccessViewName", "String"),
    V(2, "SNMPv3AccessViewSubtree", "Oid"), L(3, "SNMPv3AccessViewMask", "Hexstr", 2, 2),
    L(4, "SNMPv3AccessViewType", "Uchar", 1, 2)>>)>>
Rows81to255 ==
  <<L(81, "ManufacturerCVCChain", "Hexstr", 0, 255), F(81, "ManufacturerCVCChainFile"),
    L(82, "CoSignerCVCChain", "Hexstr", 0, 255), F(82, "CoSignerCVCChainFile"),
    L(83, "DTPModeConfiguration", "Uchar", 0, 2),
    B(84, "DiplexerBandEdge", <<L(1, "DiplexerUpstreamUpperBandEdge", "Uchar", 0, 4),
    L(2, "DiplexerDownstreamLowerBandEdge", "Uchar", 0, 1),
    L(3, "DiplexerDownstreamUpperBandEdge", "Uchar", 0, 2)>>), B(88, "QoSFrameworkforDOCSISEncodings", <<>>),
    L(91, "LowLatencyDisable", "Uchar", 0, 2), L(92, "DistributedHQoSEnable", "Uchar", 0, 2),
    B(93, "UpstreamEHQoSASF", UpstreamEHQoSASF), B(94, "DownstreamEHQoSASF", UpstreamEHQoSASF),
    B(96, "AdvancedDiplexerBandEdge", <<V(1, "AdvDiplexerUpstreamUpperBandEdge", "Ushort"),
    V(2, "AdvDiplexerDownstreamLowerBandEdge", "Ushort"), V(3, "AdvDiplexerDownstreamUpperBandEdge", "Ushort")>>),
    L(97, "AdvancedBandPlanSupport", "Uchar", 0, 1),
    B(101, "DOCSISSyncConfigurations", <<L(1, "PTPMasterClockEnable", "Uchar", 1, 2),
    L(2, "PTPProfileConfiguration", "Uchar", 0, 3), L(3, "PTPMaxNumberofClockSlavesConfiguration", "Uchar", 0, 255),
    L(4, "SyncEClockEnable", "Uchar", 1, 2)>>),
    B(102, "PTPAddressConfigurations", <<V(1, "PTPSourceIPAddressConfiguration", "IpIp6"),
    V(2, "CMTSPTPIPAddressConfiguration", "IpIp6"), V(3, "PTPDestMulticastMACAddressConfiguration", "Ether")>>),
    B(202, "eRouter", eRouter), B(217, "EstbSettings", <<L(1, "IpModeControl", "Uchar", 0, 2),
    B(53, "Snmpv1v2Settings", <<L(1, "Snmpv1v2CommunityName", "String", 1, 32)>>)>>), N(0, "GenericTLV", "Special"),
    L(254, "MtaConfigDelimiter", "Uchar", 1, 255), N(255, "/*EndOfDataMkr*/", "Special")>>

TopLevel == Rows0to22 \o Rows23to23 \o Rows24to25 \o Rows26to29 \o Rows32to45
              \o Rows53to69 \o Rows70to71 \o Rows72to79 \o Rows81to255

-----------------------------------------------------------------------------
(* The table as the source has it: rows in one list, each with its own     *)
(* number and its parent's, 0 for the top.                                 *)

RECURSIVE Flat(_, _, _)
Flat(rows, id, pid) == \* the rows of block pid, the first one being row id
  IF rows = <<>> THEN <<>>
  ELSE LET r     == Head(rows)
           below == Flat(r.rows, id + 1, id)
       IN <<[id |-> id, parent_id |-> pid, ident |-> r.ident, code |-> r.code, enc |-> r.enc,
             dec |-> r.dec, low |-> r.low, high |-> r.high]>>
            \o below \o Flat(Tail(rows), id + 1 + Len(below), pid)

SYMTABLE == Flat(TopLevel, 1, 0)
=============================================================================
