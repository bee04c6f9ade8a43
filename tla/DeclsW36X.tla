----------------------------- MODULE DeclsW36X -----------------------------
(*****************************************************************************)
(* What the headers of the generated command API of the NORA-W36X promise:   *)
(* per function the AT command it is documented to send, the types of its    *)
(* parameters and results and what its return value means; the response      *)
(* types; the types of the callbacks.                                        *)
(*****************************************************************************)
EXTENDS ApiForms

\* u_cx_types.h: the enumerations and their largest values.
Enums1 ==
  [uGeneralGreetingMode_t |-> 1,
   uInterfaceId_t |-> 2,
   uSysExtendedErrors_t |-> 1,
   uSysEchoOn_t |-> 1,
   uBtMode_t |-> 3,
   uBtDataType_t |-> 1,
   uBtDiscoveryType_t |-> 3,
   uBtDiscoveryMode_t |-> 1,
   uBtOutputEvents_t |-> 1,
   uBtDiscoveryState_t |-> 1,
   uBtConnectToDirectedAdvertisements_t |-> 1,
   uBtPropId_t |-> 9,
   uBtLegacyAdv_t |-> 1,
   uBtDirectedAdv_t |-> 1,
   uBtAdvType_t |-> 2,
   uBtIoCap_t |-> 4,
   uBtSecurityMode_t |-> 4,
   uBtPairingMode_t |-> 1]

Enums2 ==
  [uBtConfirm_t |-> 1,
   uBtCharId_t |-> 3,
   uGattClientConfig_t |-> 3,
   uGattClientReliable_t |-> 1,
   uGattClientFlag_t |-> 2,
   uGattServerReadSecurity_t |-> 3,
   uGattServerWriteSecurity_t |-> 3,
   uSpsServiceOption_t |-> 1,
   uReadMode_t |-> 2,
   uWifiTlsVersion_t |-> 3,
   uWifiSecurityMode_t |-> 3,
   uWifiWpaThreshold_t |-> 1,
   uWifiIpMode_t |-> 1,
   uWifiNetStatusId_t |-> 5]

Enums3 ==
  [uWifiRegDomain_t |-> 10,
   uWifiScanMode_t |-> 1,
   uWifiStatusId_t |-> 4,
   uWifiChannel_t |-> 48,
   uWifiWpaVersion_t |-> 0,
   uWifiRoaming_t |-> 1,
   uWifiRoamingAggressive_t |-> 1,
   uWifiRoamingChannels_t |-> 1,
   uSocketProtocol_t |-> 17,
   uSocketPrefIpVer_t |-> 1]

Enums4 ==
  [uSocketStatus_t |-> 2,
   uSocketOption_t |-> 6,
   uSocketGroupAction_t |-> 1,
   uMqttQos_t |-> 2,
   uMqttRetain_t |-> 1,
   uMqttSubscribeAction_t |-> 1,
   uEnabled_t |-> 1,
   uMdnsProtocol_t |-> 1,
   uNtpClientStatus_t |-> 2,
   uNtpReachable_t |-> 1,
   uSecCertType_t |-> 2,
   uSecCertDetailId_t |-> 3,
   uSecExtension_t |-> 1,
   uPowerWakeupMode_t |-> 0,
   uDiagIperfAction_t |-> 2,
   uDiagProtocolType_t |-> 2,
   uDiagRole_t |-> 2,
   uDiagBidirectional_t |-> 1]

Enums5 ==
  [uBtBondStatus_t |-> 4,
   uGattServerOptions_t |-> 2,
   uDiagPingResponse_t |-> 1]

Enums == Enums1 @@ Enums2 @@ Enums3 @@ Enums4 @@ Enums5

\* u_cx_types.h: the callbacks of the handle and the parameters they take.
CallbackTypes ==
  [STARTUP |-> <<>>,
   UEBTC |-> <<"int", "bt">>,
   UEBTDC |-> <<"int">>,
   UEBTB |-> <<"bt", "uBtBondStatus_t">>,
   UEBTUC |-> <<"bt", "int">>,
   UEBTUPD |-> <<"bt", "int">>,
   UEBTUPE |-> <<"bt">>,
   UEBTPHYU |-> <<"int", "int", "int", "int">>,
   UEBTBGD |-> <<"bt", "int", "str", "uBtDataType_t", "bytes">>,
   UEBTGCN |-> <<"int", "int", "bytes">>,
   UEBTGCI |-> <<"int", "int", "bytes">>,
   UEBTGCW |-> <<"int", "int", "bytes", "uGattServerOptions_t">>,
   UEBTGRR |-> <<"int", "int">>,
   UEBTGIC |-> <<"int", "int">>,
   UESPSC |-> <<"int">>,
   UESPSDC |-> <<"int">>,
   UESPSDS |-> <<"int", "bytes">>,
   UESPSDB |-> <<"int">>,
   UESPSDA |-> <<"int", "int">>,
   UEWLU |-> <<"int", "mac", "int">>,
   UEWLD |-> <<"int", "int">>,
   UEWSNU |-> <<>>,
   UEWSND |-> <<>>,
   UEWSRSI |-> <<>>,
   UEWSRSF |-> <<>>,
   UEWSRSC |-> <<"int", "mac", "int">>,
   UEWAPNU |-> <<>>,
   UEWAPND |-> <<>>,
   UEWAPU |-> <<>>,
   UEWAPD |-> <<>>,
   UEWAPSA |-> <<"mac">>,
   UEWAPSDA |-> <<"mac">>,
   UESOC |-> <<"int">>,
   UESODA |-> <<"int", "int">>,
   UESODS |-> <<"int", "bytes">>,
   UESODSF |-> <<"int", "ip", "int", "bytes">>,
   UESODB |-> <<"int">>,
   UESODBF |-> <<"int", "ip", "int">>,
   UESOCL |-> <<"int">>,
   UESOIC |-> <<"int", "ip", "int">>,
   UEMQC |-> <<"int">>,
   UEMQDC |-> <<"int", "int">>,
   UEMQDA |-> <<"int", "int">>,
   UEMQDD |-> <<"int", "int">>,
   UEMQPC |-> <<"int", "int", "int">>,
   UEMQSC |-> <<"int", "uMqttSubscribeAction_t">>,
   UEHTCDC |-> <<"int">>,
   UEHTCRS |-> <<"int", "int", "str">>,
   UEMDU |-> <<>>,
   UEMDD |-> <<>>,
   UEDGPC |-> <<"int", "int", "int", "int">>,
   UEDGP |-> <<"uDiagPingResponse_t", "int">>,
   UEDGI |-> <<"str">>]

\* u_cx_bluetooth.h
BluetoothTypes ==
  [uCxBtBgDiscoveryGet_t |-> {<<"int">>, <<"int", "int", "int", "int", "int">>},
   uCxBtDiscoveryDefault_t |-> {<<"bt", "int", "str", "int", "bytes">>},
   uCxBtDiscovery_t |-> {<<"bt", "int", "str", "int", "bytes">>},
   uCxBtGetDiscoveryDataFilter_t |-> {<<"int", "bytes">>},
   uCxBtListDiscoveryDataFilters_t |-> {<<"int", "int", "bytes">>},
   uCxBtListConnections_t |-> {<<"int", "bt">>},
   uCxBtListConnectionStatus_t |-> {<<"int", "int">>},
   uCxBtGetAdvertiseInformation_t |-> {<<"int", "int", "ints">>},
   uCxBtGetLegacyAdvertiseDataAndType_t |-> {<<"bytes", "int">>},
   uCxBtGetLegacyAdvertisementConfig_t |-> {<<"int", "int">>},
   uCxBtListDeviceInfoServiceChars_t |-> {<<"int", "str">>},
   uCxBtGetPhy_t |-> {<<"int", "int">>}]

Bluetooth1 == {
  Status("BluetoothSetMode", "+UBTM=", <<"uBtMode_t">>, <<>>),
  Status("BluetoothGetMode", "+UBTM?", <<>>, <<"uBtMode_t">>),
  Status("BluetoothConnect", "+UBTC=", <<"bt">>, <<>>),
  Status("BluetoothDisconnect", "+UBTDC=", <<"int">>, <<>>),
  Begun("BluetoothGetLocalNameBegin", "+UBTLN?", <<>>, <<"str">>),
  Status("BluetoothSetLocalName", "+UBTLN=", <<"str">>, <<>>),
  Listed("BluetoothDiscoveryDefault", "+UBTD", <<>>),
  NextEntry("BluetoothDiscoveryDefault", <<"uCxBtDiscoveryDefault_t">>),
  Listed("BluetoothDiscovery1", "+UBTD=", <<"uBtDiscoveryType_t">>),
  NextEntry("BluetoothDiscovery1", <<"uCxBtDiscovery_t">>),
  Listed("BluetoothDiscovery2", "+UBTD=", <<"uBtDiscoveryType_t", "uBtDiscoveryMode_t">>)}

Bluetooth2 == {
  NextEntry("BluetoothDiscovery2", <<"uCxBtDiscovery_t">>),
  Listed("BluetoothDiscovery3", "+UBTD=", <<"uBtDiscoveryType_t", "uBtDiscoveryMode_t",
      "int">>),
  NextEntry("BluetoothDiscovery3", <<"uCxBtDiscovery_t">>),
  Status("BluetoothBgDiscoveryDefaultStart", "+UBTBGD", <<>>, <<>>),
  Status("BluetoothBgDiscoveryStart1", "+UBTBGD=", <<"uBtDiscoveryType_t">>, <<>>),
  Status("BluetoothBgDiscoveryStart2", "+UBTBGD=", <<"uBtDiscoveryType_t",
      "uBtDiscoveryMode_t">>, <<>>),
  Status("BluetoothBgDiscoveryStart3", "+UBTBGD=", <<"uBtDiscoveryType_t",
      "uBtDiscoveryMode_t", "uBtOutputEvents_t">>, <<>>),
  Status("BluetoothBgDiscoveryGet", "+UBTBGD?", <<>>, <<"uCxBtBgDiscoveryGet_t">>),
  Status("BluetoothBgDiscoveryStop", "+UBTBGDS", <<>>, <<>>),
  Status("BluetoothSetDiscoveryDataFilter", "+UBTDFD=", <<"int", "int", "bytes">>, <<>>),
  Begun("BluetoothGetDiscoveryDataFilterBegin", "+UBTDFD=", <<"int">>,
      <<"uCxBtGetDiscoveryDataFilter_t">>)}

Bluetooth3 == {
  Listed("BluetoothListDiscoveryDataFilters", "+UBTDFD?", <<>>),
  NextEntry("BluetoothListDiscoveryDataFilters", <<"uCxBtListDiscoveryDataFilters_t">>),
  Status("BluetoothGetRssi", "+UBTRSS=", <<"int">>, <<"int">>),
  Listed("BluetoothListConnections", "+UBTCL", <<>>),
  NextEntry("BluetoothListConnections", <<"uCxBtListConnections_t">>),
  Listed("BluetoothListConnectionStatus", "+UBTCST=", <<"int">>),
  NextEntry("BluetoothListConnectionStatus", <<"uCxBtListConnectionStatus_t">>),
  Status("BluetoothGetConnectionStatus", "+UBTCST=", <<"int", "uBtPropId_t">>, <<"int">>),
  Status("BluetoothGetAdvertiseInformation", "+UBTA?", <<>>,
      <<"uCxBtGetAdvertiseInformation_t">>),
  Status("BluetoothSetLegacyAdvertiseDataAndType1", "+UBTADL=", <<"bytes">>, <<>>),
  Status("BluetoothSetLegacyAdvertiseDataAndType2", "+UBTADL=", <<"bytes", "uBtAdvType_t">>,
      <<>>)}

Bluetooth4 == {
  Begun("BluetoothGetLegacyAdvertiseDataAndTypeBegin", "+UBTADL?", <<>>,
      <<"uCxBtGetLegacyAdvertiseDataAndType_t">>),
  Status("BluetoothClearLegacyAdvertiseData", "+UBTADLC", <<>>, <<>>),
  Status("BluetoothSetScanResponseData", "+UBTASD=", <<"bytes">>, <<>>),
  Begun("BluetoothGetScanResponseDataBegin", "+UBTASD?", <<>>, <<"bytes">>),
  Status("BluetoothClearScanResponseData", "+UBTASDC", <<>>, <<>>),
  Status("BluetoothLegacyAdvertisementStart", "+UBTAL", <<>>, <<>>),
  Status("BluetoothLegacyAdvertisementStop", "+UBTALD", <<>>, <<>>),
  Status("BluetoothDirectedAdvertisementStart1", "+UBTAD=", <<"bt">>, <<>>),
  Status("BluetoothDirectedAdvertisementStart2", "+UBTAD=", <<"bt", "int">>, <<>>),
  Status("BluetoothDirectedAdvertisementStop", "+UBTADD", <<>>, <<>>)}

Bluetooth5 == {
  Status("BluetoothSetConnectionIntervalMin", "+UBTCS0=", <<"int">>, <<>>),
  Status("BluetoothGetConnectionIntervalMin", "+UBTCS0?", <<>>, <<"int">>),
  Status("BluetoothSetConnectionIntervalMax", "+UBTCS1=", <<"int">>, <<>>),
  Status("BluetoothGetConnectionIntervalMax", "+UBTCS1?", <<>>, <<"int">>),
  Status("BluetoothSetConnectionPeripheralLatency", "+UBTCS2=", <<"int">>, <<>>),
  Status("BluetoothGetConnectionPeripheralLatency", "+UBTCS2?", <<>>, <<"int">>),
  Status("BluetoothSetConnectionLinklossTimeout", "+UBTCS3=", <<"int">>, <<>>),
  Status("BluetoothGetConnectionLinklossTimeout", "+UBTCS3?", <<>>, <<"int">>),
  Status("BluetoothSetPreferredTxPhy", "+UBTCS4=", <<"int">>, <<>>)}

Bluetooth6 == {
  Status("BluetoothGetPreferredTxPhy", "+UBTCS4?", <<>>, <<"int">>),
  Status("BluetoothSetPreferredRxPhy", "+UBTCS5=", <<"int">>, <<>>),
  Status("BluetoothGetPreferredRxPhy", "+UBTCS5?", <<>>, <<"int">>),
  Status("BluetoothSetLegacyAdvertisementConfig", "+UBTALS=", <<"int", "int">>, <<>>),
  Status("BluetoothGetLegacyAdvertisementConfig", "+UBTALS?", <<>>,
      <<"uCxBtGetLegacyAdvertisementConfig_t">>),
  Status("BluetoothSetScanInterval", "+UBTSS0=", <<"int">>, <<>>),
  Status("BluetoothGetScanInterval", "+UBTSS0?", <<>>, <<"int">>),
  Status("BluetoothSetScanWindow", "+UBTSS1=", <<"int">>, <<>>),
  Status("BluetoothGetScanWindow", "+UBTSS1?", <<>>, <<"int">>)}

Bluetooth7 == {
  Status("BluetoothSetConnectToDirectedAdv", "+UBTSS2=", <<"int">>, <<>>),
  Status("BluetoothGetConnectToDirectedAdv", "+UBTSS2?", <<>>, <<"int">>),
  Status("BluetoothSetIoCapabilities", "+UBTIOC=", <<"uBtIoCap_t">>, <<>>),
  Status("BluetoothGetIoCapabilities", "+UBTIOC?", <<>>, <<"uBtIoCap_t">>),
  Status("BluetoothSetSecurityMode", "+UBTBSM=", <<"uBtSecurityMode_t">>, <<>>),
  Status("BluetoothGetSecurityMode", "+UBTBSM?", <<>>, <<"uBtSecurityMode_t">>),
  Status("BluetoothSetPairingMode", "+UBTPM=", <<"uBtPairingMode_t">>, <<>>),
  Status("BluetoothGetPairingMode", "+UBTPM?", <<>>, <<"uBtPairingMode_t">>),
  Status("BluetoothUserConfirmation", "+UBTUC=", <<"bt", "uBtConfirm_t">>, <<>>),
  Status("BluetoothUserPasskeyEntry2", "+UBTUPE=", <<"bt", "uBtConfirm_t">>, <<>>),
  Status("BluetoothUserPasskeyEntry3", "+UBTUPE=", <<"bt", "uBtConfirm_t", "int">>, <<>>)}

Bluetooth8 == {
  Status("BluetoothBond", "+UBTB=", <<"bt">>, <<>>),
  Status("BluetoothUnbond", "+UBTUB=", <<"bt">>, <<>>),
  Status("BluetoothUnbondAll", "+UBTUB", <<>>, <<>>),
  Listed("BluetoothListBondedDevices", "+UBTBDL", <<>>),
  NextEntry("BluetoothListBondedDevices", <<"bt">>),
  Status("BluetoothSetDeviceInfoServiceChar", "+UBTDIS=", <<"uBtCharId_t", "str">>, <<>>),
  Begun("BluetoothGetDeviceInfoServiceCharBegin", "+UBTDIS=", <<"uBtCharId_t">>, <<"str">>),
  Listed("BluetoothListDeviceInfoServiceChars", "+UBTDIS?", <<>>),
  NextEntry("BluetoothListDeviceInfoServiceChars", <<"uCxBtListDeviceInfoServiceChars_t">>),
  Status("BluetoothRequestPhy", "+UBTPHYR=", <<"int", "int", "int">>, <<>>),
  Status("BluetoothGetPhy", "+UBTPHYR=", <<"int">>, <<"uCxBtGetPhy_t">>)}

Bluetooth9 == {
  Status("BluetoothSetMaxOutputPower", "+UBTMOP=", <<"int">>, <<>>),
  Status("BluetoothGetMaxOutputPower", "+UBTMOP?", <<>>, <<"int">>),
  Status("BluetoothClearMaxOutputPower", "+UBTMOPC", <<>>, <<>>),
  Callback("BluetoothRegisterConnect", "UEBTC"),
  Callback("BluetoothRegisterDisconnect", "UEBTDC"),
  Callback("BluetoothRegisterBondStatus", "UEBTB"),
  Callback("BluetoothRegisterUserConfirmation", "UEBTUC"),
  Callback("BluetoothRegisterPasskeyEntry", "UEBTUPD"),
  Callback("BluetoothRegisterPasskeyRequest", "UEBTUPE"),
  Callback("BluetoothRegisterPhyUpdate", "UEBTPHYU"),
  Callback("BluetoothRegisterBackgroundDiscovery", "UEBTBGD")}

\* u_cx_diagnostics.h
Diagnostics1 == {
  Status("DiagnosticsPing1", "+UDGP=", <<"str">>, <<>>),
  Status("DiagnosticsPing2", "+UDGP=", <<"str", "int">>, <<>>),
  Status("DiagnosticsPingStop", "+UDGSP", <<>>, <<>>),
  Status("DiagnosticsIperf2", "+UDGI=", <<"uDiagIperfAction_t", "uDiagProtocolType_t">>, <<>>),
  Status("DiagnosticsIperf5", "+UDGI=", <<"uDiagIperfAction_t", "uDiagProtocolType_t",
      "uDiagRole_t", "int", "int">>, <<>>),
  Status("DiagnosticsIperf7", "+UDGI=", <<"uDiagIperfAction_t", "uDiagProtocolType_t",
      "uDiagRole_t", "int", "int", "int", "ip">>, <<>>),
  Status("DiagnosticsIperf8", "+UDGI=", <<"uDiagIperfAction_t", "uDiagProtocolType_t",
      "uDiagRole_t", "int", "int", "int", "ip", "int">>, <<>>),
  Status("DiagnosticsIperf9", "+UDGI=", <<"uDiagIperfAction_t", "uDiagProtocolType_t",
      "uDiagRole_t", "int", "int", "int", "ip", "int", "int">>, <<>>)}

Diagnostics2 == {
  Status("DiagnosticsIperf10", "+UDGI=", <<"uDiagIperfAction_t", "uDiagProtocolType_t",
      "uDiagRole_t", "int", "int", "int", "ip", "int", "int", "uDiagBidirectional_t">>, <<>>),
  Callback("DiagnosticsRegisterPingComplete", "UEDGPC"),
  Callback("DiagnosticsRegisterPingResponse", "UEDGP"),
  Callback("DiagnosticsRegisterIperfOutput", "UEDGI")}

\* u_cx_gatt_client.h
GattClientTypes ==
  [uCxGattClientDiscoverPrimaryServices_t |-> {<<"int", "int", "bytes">>},
   uCxGattClientDiscoverPrimaryServicesByUuid_t |-> {<<"int", "int">>},
   uCxGattClientDiscoverServiceChars_t |-> {<<"int", "bytes", "int", "bytes">>},
   uCxGattClientDiscoverCharDescriptors_t |-> {<<"int", "int", "bytes">>},
   uCxGattClientReadByUuid_t |-> {<<"int", "bytes">>}]

GattClient1 == {
  Listed("GattClientDiscoverPrimaryServices", "+UBTGPSD=", <<"int">>),
  NextEntry("GattClientDiscoverPrimaryServices", <<"uCxGattClientDiscoverPrimaryServices_t">>),
  Listed("GattClientDiscoverPrimaryServicesByUuid", "+UBTGPSDU=", <<"int", "bytes">>),
  NextEntry("GattClientDiscoverPrimaryServicesByUuid",
      <<"uCxGattClientDiscoverPrimaryServicesByUuid_t">>),
  Listed("GattClientDiscoverServiceChars", "+UBTGSCD=", <<"int", "int", "int">>),
  NextEntry("GattClientDiscoverServiceChars", <<"uCxGattClientDiscoverServiceChars_t">>),
  Listed("GattClientDiscoverCharDescriptors", "+UBTGCDD=", <<"int", "int", "int">>),
  NextEntry("GattClientDiscoverCharDescriptors", <<"uCxGattClientDiscoverCharDescriptors_t">>),
  Begun("GattClientReadBegin", "+UBTGR=", <<"int", "int">>, <<"bytes">>),
  Begun("GattClientReadByUuidBegin", "+UBTGRU=", <<"int", "int", "int", "bytes">>,
      <<"uCxGattClientReadByUuid_t">>)}

GattClient2 == {
  Status("GattClientWrite", "+UBTGW=", <<"int", "int", "bytes">>, <<>>),
  Status("GattClientConfigWrite", "+UBTGCCW=", <<"int", "int", "uGattClientConfig_t">>, <<>>),
  Status("GattClientWriteNoRsp", "+UBTGWNR=", <<"int", "int", "bytes">>, <<>>),
  Status("GattClientWriteLong", "+UBTGWL=", <<"int", "int", "bytes", "uGattClientReliable_t",
      "uGattClientFlag_t", "int">>, <<>>),
  Callback("GattClientRegisterNotification", "UEBTGCN"),
  Callback("GattClientRegisterIndication", "UEBTGCI")}

\* u_cx_gatt_server.h
GattServerTypes ==
  [uCxGattServerCharDefine_t |-> {<<"int", "int">>},
   uCxGattServerHostCharDefine_t |-> {<<"int", "int">>}]

GattServer1 == {
  Status("GattServerServiceDefine", "+UBTGS=", <<"bytes">>, <<"int">>),
  Status("GattServerCharDefine5", "+UBTGC=", <<"bytes", "bytes", "uGattServerReadSecurity_t",
      "uGattServerWriteSecurity_t", "bytes">>, <<"uCxGattServerCharDefine_t">>),
  Status("GattServerCharDefine6", "+UBTGC=", <<"bytes", "bytes", "uGattServerReadSecurity_t",
      "uGattServerWriteSecurity_t", "bytes", "int">>, <<"uCxGattServerCharDefine_t">>),
  Status("GattServerHostCharDefine", "+UBTGHCC=", <<"bytes", "bytes",
      "uGattServerReadSecurity_t", "uGattServerWriteSecurity_t">>,
      <<"uCxGattServerHostCharDefine_t">>),
  Status("GattServerDescriptorDefine4", "+UBTGD=", <<"bytes", "uGattServerReadSecurity_t",
      "uGattServerWriteSecurity_t", "bytes">>, <<"int">>),
  Status("GattServerDescriptorDefine5", "+UBTGD=", <<"bytes", "uGattServerReadSecurity_t",
      "uGattServerWriteSecurity_t", "bytes", "int">>, <<"int">>)}

GattServer2 == {
  Status("GattServerServiceActivate", "+UBTGSA", <<>>, <<>>),
  Status("GattServerReadReqResponse", "+UBTGRRR=", <<"int", "bytes">>, <<>>),
  Status("GattServerSendNotification", "+UBTGNS=", <<"int", "int", "bytes">>, <<>>),
  Status("GattServerSendIndication", "+UBTGIS=", <<"int", "int", "bytes">>, <<>>),
  Status("GattServerSetAttrValue", "+UBTGAV=", <<"int", "bytes">>, <<>>),
  Status("GattServerReadReqError", "+UBTGRRRE=", <<"int", "bytes">>, <<>>),
  Status("GattServerWriteReqError", "+UBTGWRE=", <<"int", "bytes">>, <<>>),
  Status("GattServerWriteReqResponse", "+UBTGWRR=", <<"int">>, <<>>),
  Status("GattServerSendServiceChangedInd", "+UBTGSCI=", <<"int", "int", "int">>, <<>>),
  Callback("GattServerRegisterNotification", "UEBTGCW"),
  Callback("GattServerRegisterReadAttribute", "UEBTGRR")}

GattServer3 == {
  Callback("GattServerRegisterIndicationAck", "UEBTGIC")}

\* u_cx_general.h
GeneralTypes ==
  [uCxGeneralGetIdentInfo_t |-> {<<"str", "str">>},
   uCxGeneralGetGreetingText_t |-> {<<"int", "str">>}]

General1 == {
  Status("GeneralAttention", "", <<>>, <<>>),
  Begun("GeneralGetManufacturerIdentificationBegin", "+GMI", <<>>, <<"str">>),
  Begun("GeneralGetDeviceModelIdentificationBegin", "+GMM", <<>>, <<"str">>),
  Begun("GeneralGetSoftwareVersionBegin", "+GMR", <<>>, <<"str">>),
  Begun("GeneralGetSerialNumberBegin", "+GSN", <<>>, <<"str">>),
  Begun("GeneralGetIdentInfoBegin", "I9", <<>>, <<"uCxGeneralGetIdentInfo_t">>),
  Begun("GeneralGetTypeCodeBegin", "I0", <<>>, <<"str">>),
  Status("GeneralSetGreetingText1", "+CSGT=", <<"uGeneralGreetingMode_t">>, <<>>),
  Status("GeneralSetGreetingText2", "+CSGT=", <<"uGeneralGreetingMode_t", "str">>, <<>>),
  Begun("GeneralGetGreetingTextBegin", "+CSGT?", <<>>, <<"uCxGeneralGetGreetingText_t">>)}

General2 == {
  Callback("GeneralRegisterStartup", "STARTUP")}

\* u_cx_http.h
HttpTypes ==
  [uCxHttpGetTLS_t |-> {<<"int", "int", "str", "str", "str">>},
   uCxHttpGetHeader_t |-> {<<"int", "int", "bytes">>},
   uCxHttpGetRequestPath_t |-> {<<"int", "str">>},
   uCxHttpGetGetRequestHeader_t |-> {<<"int", "str">>},
   uCxHttpGetDeleteRequestHeader_t |-> {<<"int", "str">>},
   uCxHttpGetPostRequestHeader_t |-> {<<"int", "str">>},
   uCxHttpGetPutRequestHeader_t |-> {<<"int", "str">>}]

Http1 == {
  Status("HttpSetConnectionParams2", "+UHTCCP=", <<"int", "str">>, <<>>),
  Status("HttpSetConnectionParams3", "+UHTCCP=", <<"int", "str", "int">>, <<>>),
  Status("HttpSetTLS2", "+UHTCTLS=", <<"int", "uWifiTlsVersion_t">>, <<>>),
  Status("HttpSetTLS3", "+UHTCTLS=", <<"int", "uWifiTlsVersion_t", "str">>, <<>>),
  Status("HttpSetTLS5", "+UHTCTLS=", <<"int", "uWifiTlsVersion_t", "str", "str", "str">>, <<>>),
  Begun("HttpGetTLSBegin", "+UHTCTLS=", <<"int">>, <<"uCxHttpGetTLS_t">>),
  Status("HttpDisconnect", "+UHTCDC=", <<"int">>, <<>>),
  Begun("HttpGetHeader1Begin", "+UHTCGH=", <<"int">>, <<"uCxHttpGetHeader_t">>),
  Begun("HttpGetHeader2Begin", "+UHTCGH=", <<"int", "int">>, <<"uCxHttpGetHeader_t">>),
  Amount("HttpGetBody", "+UHTCGBB=", <<"int", "int">>, <<"buffer", "int">>)}

Http2 == {
  Status("HttpAddHeaderField", "+UHTCRHAF=", <<"int", "str", "str">>, <<>>),
  Status("HttpSetCustomHeader", "+UHTCRHCS=", <<"int", "str">>, <<>>),
  Status("HttpClearHeaderCustom", "+UHTCRHCC=", <<"int">>, <<>>),
  Status("HttpSetRequestPath", "+UHTCRP=", <<"int", "str">>, <<>>),
  Begun("HttpGetRequestPathBegin", "+UHTCRP=", <<"int">>, <<"uCxHttpGetRequestPath_t">>),
  Status("HttpGetRequest", "+UHTCRG=", <<"int">>, <<>>),
  Begun("HttpGetGetRequestHeaderBegin", "+UHTCRGH=", <<"int">>,
      <<"uCxHttpGetGetRequestHeader_t">>),
  Status("HttpDeleteRequest1", "+UHTCRD=", <<"int">>, <<>>),
  Status("HttpDeleteRequest2", "+UHTCRD=", <<"int", "bstr">>, <<>>),
  Begun("HttpGetDeleteRequestHeaderBegin", "+UHTCRDH=", <<"int">>,
      <<"uCxHttpGetDeleteRequestHeader_t">>)}

Http3 == {
  Amount("HttpPostRequest", "+UHTCRPOB=", <<"int", "bytes">>, <<>>),
  Begun("HttpGetPostRequestHeaderBegin", "+UHTCRPOH=", <<"int">>,
      <<"uCxHttpGetPostRequestHeader_t">>),
  Amount("HttpPutRequest", "+UHTCRPUB=", <<"int", "bytes">>, <<>>),
  Begun("HttpGetPutRequestHeaderBegin", "+UHTCRPUH=", <<"int">>,
      <<"uCxHttpGetPutRequestHeader_t">>),
  Callback("HttpRegisterDisconnect", "UEHTCDC"),
  Callback("HttpRegisterRequestStatus", "UEHTCRS")}

\* u_cx_mdns.h
MdnsTypes ==
  [uCxMdnsServiceList_t |-> {<<"int", "str", "int", "int", "str">>},
   uCxMdnsTxtRecordList_t |-> {<<"int", "str", "str">>}]

Mdns1 == {
  Status("MdnsSetEnabled", "+UMDE=", <<"uEnabled_t">>, <<>>),
  Status("MdnsGetEnabled", "+UMDE?", <<>>, <<"uEnabled_t">>),
  Status("MdnsSetHostname", "+UMDHN=", <<"str">>, <<>>),
  Begun("MdnsGetHostnameBegin", "+UMDHN?", <<>>, <<"str">>),
  Status("MdnsServiceAdd3", "+UMDSA=", <<"str", "uMdnsProtocol_t", "int">>, <<"int">>),
  Status("MdnsServiceAdd4", "+UMDSA=", <<"str", "uMdnsProtocol_t", "int", "str">>, <<"int">>),
  Status("MdnsServiceRemove", "+UMDSR=", <<"int">>, <<>>),
  Listed("MdnsServiceList", "+UMDSL?", <<>>),
  NextEntry("MdnsServiceList", <<"uCxMdnsServiceList_t">>),
  Status("MdnsTxtRecordAdd", "+UMDTRA=", <<"int", "str", "str">>, <<>>)}

Mdns2 == {
  Status("MdnsTxtRecordRemove", "+UMDTRR=", <<"int", "str">>, <<>>),
  Listed("MdnsTxtRecordList", "+UMDTRL=", <<"int">>),
  NextEntry("MdnsTxtRecordList", <<"uCxMdnsTxtRecordList_t">>),
  Status("MdnsTxtRecordClear", "+UMDTRC=", <<"int">>, <<>>),
  Callback("MdnsRegisterMdnsUp", "UEMDU"),
  Callback("MdnsRegisterMdnsDown", "UEMDD")}

\* u_cx_mqtt.h
MqttTypes ==
  [uCxMqttGetTLS_t |-> {<<"int", "str", "str", "str">>, <<"int">>},
   uCxMqttGetConnectionParams_t |-> {<<"str", "int", "str", "str">>},
   uCxMqttGetLastWillAndTestament_t |-> {<<"str", "str", "int", "int">>}]

Mqtt1 == {
  Status("MqttSetConnectionParams3", "+UMQCP=", <<"int", "str", "int">>, <<>>),
  Status("MqttSetConnectionParams4", "+UMQCP=", <<"int", "str", "int", "str">>, <<>>),
  Status("MqttSetConnectionParams5", "+UMQCP=", <<"int", "str", "int", "str", "str">>, <<>>),
  Status("MqttSetConnectionParams6", "+UMQCP=", <<"int", "str", "int", "str", "str", "str">>,
      <<>>),
  Begun("MqttGetConnectionParamsBegin", "+UMQCP=", <<"int">>,
      <<"uCxMqttGetConnectionParams_t">>),
  Status("MqttConnect", "+UMQC=", <<"int">>, <<>>),
  Status("MqttSetKeepAlive", "+UMQKA=", <<"int", "int">>, <<>>),
  Status("MqttGetKeepAlive", "+UMQKA=", <<"int">>, <<"int">>)}

Mqtt2 == {
  Status("MqttSetLastWillAndTestament3", "+UMQLWT=", <<"int", "str", "str">>, <<>>),
  Status("MqttSetLastWillAndTestament4", "+UMQLWT=", <<"int", "str", "str", "uMqttQos_t">>,
      <<>>),
  Status("MqttSetLastWillAndTestament5", "+UMQLWT=", <<"int", "str", "str", "uMqttQos_t",
      "uMqttRetain_t">>, <<>>),
  Begun("MqttGetLastWillAndTestamentBegin", "+UMQLWT=", <<"int">>,
      <<"uCxMqttGetLastWillAndTestament_t">>),
  Status("MqttSetTLS2", "+UMQTLS=", <<"int", "uWifiTlsVersion_t">>, <<>>),
  Status("MqttSetTLS3", "+UMQTLS=", <<"int", "uWifiTlsVersion_t", "str">>, <<>>),
  Status("MqttSetTLS5", "+UMQTLS=", <<"int", "uWifiTlsVersion_t", "str", "str", "str">>, <<>>),
  Begun("MqttGetTLSBegin", "+UMQTLS=", <<"int">>, <<"uCxMqttGetTLS_t">>),
  Status("MqttDisconnect", "+UMQDC=", <<"int">>, <<>>)}

Mqtt3 == {
  Amount("MqttPublish", "+UMQPB=", <<"int", "uMqttQos_t", "uMqttRetain_t", "str", "bytes">>,
      <<>>),
  Status("MqttSubscribe3", "+UMQS=", <<"int", "uMqttSubscribeAction_t", "str">>, <<>>),
  Status("MqttSubscribe4", "+UMQS=", <<"int", "uMqttSubscribeAction_t", "str", "uMqttQos_t">>,
      <<>>),
  ReadBegun("MqttReadBegin", "+UMQRB=", <<"int">>, <<"buffer", "str">>),
  Callback("MqttRegisterConnect", "UEMQC"),
  Callback("MqttRegisterDisconnect", "UEMQDC"),
  Callback("MqttRegisterDataAvailable", "UEMQDA"),
  Callback("MqttRegisterDataDropped", "UEMQDD"),
  Callback("MqttRegisterPublishCompleted", "UEMQPC"),
  Callback("MqttRegisterSubscribeCompleted", "UEMQSC")}

\* u_cx_network_time.h
NetworkTimeTypes ==
  [uCxNtpGetNtpServer_t |-> {<<"int", "str", "ip", "int">>}]

NetworkTime == {
  Status("NetworkTimeSetClientEnabled", "+UNTE=", <<"uNtpClientStatus_t">>, <<>>),
  Status("NetworkTimeGetClientEnabled", "+UNTE?", <<>>, <<"uNtpClientStatus_t">>),
  Status("NetworkTimeSetNtpServer", "+UNTSC=", <<"int", "str">>, <<>>),
  Begun("NetworkTimeGetNtpServerBegin", "+UNTSC?", <<>>, <<"uCxNtpGetNtpServer_t">>)}

\* u_cx_power.h
Power == {
  Status("PowerDeepSleepWithGpioWakeup", "+UPMDS", <<>>, <<>>),
  Status("PowerDeepSleep", "+UPMDS=", <<"uPowerWakeupMode_t">>, <<>>),
  Status("PowerSetPowerSaveLevel", "+UPMPSL=", <<"int">>, <<>>),
  Status("PowerGetPowerSaveLevel", "+UPMPSL?", <<>>, <<"int">>),
  Status("PowerSetPowerSaveTimeout", "+UPMPSTO=", <<"int">>, <<>>)}

\* u_cx_security.h
SecurityTypes ==
  [uCxSecReadAllCertificatesDetails_t |-> {<<"int", "bytes">>, <<"int", "int">>},
   uCxSecReadCertificatesDetails_t |-> {<<"int", "bytes">>, <<"int", "int">>},
   uCxSecListCertificates_t |-> {<<"int", "str">>},
   uCxSecListTlsExtensions_t |-> {<<"int", "int">>}]

Security1 == {
  Status("SecurityCertificateRemove", "+USECR=", <<"uSecCertType_t", "str">>, <<>>),
  Status("SecurityCertificateRemoveAll", "+USECR", <<>>, <<>>),
  Status("SecurityCertificateUpload", "+USECUB=", <<"uSecCertType_t", "str", "bytes">>, <<>>),
  Status("SecurityCertificateUploadPW", "+USECUB=", <<"uSecCertType_t", "str", "str",
      "bytes">>, <<>>),
  Listed("SecurityListCertificates", "+USECL?", <<>>),
  NextEntry("SecurityListCertificates", <<"uCxSecListCertificates_t">>),
  Begun("SecurityReadAllCertificatesDetailsBegin", "+USECD=", <<"str">>,
      <<"uCxSecReadAllCertificatesDetails_t">>),
  Begun("SecurityReadCertificatesDetailsBegin", "+USECD=", <<"str", "uSecCertDetailId_t">>,
      <<"uCxSecReadCertificatesDetails_t">>),
  Listed("SecurityListTlsExtensions", "+USETE?", <<>>),
  NextEntry("SecurityListTlsExtensions", <<"uCxSecListTlsExtensions_t">>)}

Security2 == {
  Status("SecuritySetTlsServerNameIndication", "+USETE0=", <<"uEnabled_t">>, <<>>),
  Status("SecurityGetTlsServerNameIndication", "+USETE0?", <<>>, <<"uEnabled_t">>),
  Status("SecuritySetTlsHandshakeFrag", "+USETE1=", <<"uEnabled_t">>, <<>>),
  Status("SecurityGetTlsHandshakeFrag", "+USETE1?", <<>>, <<"uEnabled_t">>)}

\* u_cx_socket.h
SocketTypes ==
  [uCxSocketGetTLS_t |-> {<<"int", "int", "str", "str", "str">>},
   uCxSocketReceiveFrom_t |-> {<<"ip", "int">>},
   uCxSocketGetPeerAddress_t |-> {<<"ip", "int">>},
   uCxSocketListStatus_t |-> {<<"int", "int", "int">>},
   uCxSocketGetStatus_t |-> {<<"int", "int">>}]

Socket1 == {
  Status("SocketCreate1", "+USOCR=", <<"uSocketProtocol_t">>, <<"int">>),
  Status("SocketCreate2", "+USOCR=", <<"uSocketProtocol_t", "uSocketPrefIpVer_t">>, <<"int">>),
  Status("SocketSetTLS2", "+USOTLS=", <<"int", "uWifiTlsVersion_t">>, <<>>),
  Status("SocketSetTLS3", "+USOTLS=", <<"int", "uWifiTlsVersion_t", "str">>, <<>>),
  Status("SocketSetTLS5", "+USOTLS=", <<"int", "uWifiTlsVersion_t", "str", "str", "str">>,
      <<>>),
  Begun("SocketGetTLSBegin", "+USOTLS=", <<"int">>, <<"uCxSocketGetTLS_t">>),
  Status("SocketConnect", "+USOC=", <<"int", "str", "int">>, <<>>),
  Status("SocketSetReadMode", "+USORM=", <<"uReadMode_t">>, <<>>),
  Status("SocketGetReadMode", "+USORM?", <<>>, <<"uReadMode_t">>),
  Amount("SocketWrite", "+USOWB=", <<"int", "bytes">>, <<>>)}

Socket2 == {
  Status("SocketClose", "+USOCL=", <<"int">>, <<>>),
  Amount("SocketRead", "+USORB=", <<"int", "int">>, <<"buffer">>),
  Status("SocketGetLastError", "+USOE", <<>>, <<"int">>),
  Status("SocketBind", "+USOB=", <<"int", "int">>, <<>>),
  Status("SocketListen1", "+USOL=", <<"int">>, <<>>),
  Status("SocketListen2", "+USOL=", <<"int", "int">>, <<>>),
  Amount("SocketReceiveFrom", "+USORFB=", <<"int", "int">>, <<"buffer",
      "uCxSocketReceiveFrom_t">>),
  Amount("SocketSendTo", "+USOSTB=", <<"int", "ip", "int", "bytes">>, <<>>),
  Status("SocketGetPeerAddress", "+USOPA=", <<"int">>, <<"uCxSocketGetPeerAddress_t">>),
  Listed("SocketListStatus", "+USOST?", <<>>)}

Socket3 == {
  NextEntry("SocketListStatus", <<"uCxSocketListStatus_t">>),
  Status("SocketGetStatus", "+USOST=", <<"int">>, <<"uCxSocketGetStatus_t">>),
  Status("SocketSetOption", "+USOO=", <<"int", "uSocketOption_t", "int">>, <<>>),
  Status("SocketGetOption", "+USOO=", <<"int", "uSocketOption_t">>, <<"int">>),
  Status("SocketGetHostByName", "+USOH=", <<"str">>, <<"ip">>),
  Status("SocketMulticastGroup", "+USOMG=", <<"int", "uSocketGroupAction_t", "ip">>, <<>>),
  Callback("SocketRegisterConnect", "UESOC"),
  Callback("SocketRegisterDataAvailable", "UESODA"),
  Callback("SocketRegisterClosed", "UESOCL"),
  Callback("SocketRegisterIncomingConnection", "UESOIC")}

\* u_cx_sps.h
Sps == {
  Status("SpsConnect1", "+USPSC=", <<"int">>, <<>>),
  Status("SpsConnect2", "+USPSC=", <<"int", "int">>, <<>>),
  Status("SpsSetServiceEnable", "+USPS=", <<"uSpsServiceOption_t">>, <<>>),
  Status("SpsGetServiceEnable", "+USPS?", <<>>, <<"uSpsServiceOption_t">>),
  Amount("SpsWrite", "+USPSWB=", <<"int", "bytes">>, <<>>),
  Status("SpsSetDataMode", "+USPSRM=", <<"uReadMode_t">>, <<>>),
  Status("SpsGetDataMode", "+USPSRM?", <<>>, <<"uReadMode_t">>),
  Amount("SpsRead", "+USPSRB=", <<"int", "int">>, <<"buffer">>),
  Callback("SpsRegisterConnect", "UESPSC"),
  Callback("SpsRegisterDisconnect", "UESPSDC"),
  Callback("SpsRegisterDataAvailable", "UESPSDA")}

\* u_cx_system.h
SystemTypes ==
  [uCxSysGetUartSettings_t |-> {<<"int", "int">>},
   uCxSysGetEscSequenceSettings_t |-> {<<"int", "int", "int">>}]

System1 == {
  Status("SystemReboot", "+CPWROFF", <<>>, <<>>),
  Status("SystemStartSerialFirmwareUpdate1", "+USYFWUS=", <<"int">>, <<>>),
  Status("SystemStartSerialFirmwareUpdate2", "+USYFWUS=", <<"int", "int">>, <<>>),
  Status("SystemStartSerialFirmwareUpdateDefault", "+USYFWUS", <<>>, <<>>),
  Status("SystemStartBootLoader1", "+USYBL=", <<"int">>, <<>>),
  Status("SystemStartBootLoader2", "+USYBL=", <<"int", "int">>, <<>>),
  Status("SystemStartBootLoaderDefault", "+USYBL", <<>>, <<>>),
  Status("SystemStoreConfiguration", "&W", <<>>, <<>>),
  Status("SystemGetLocalAddress", "+USYLA=", <<"uInterfaceId_t">>, <<"mac">>),
  Status("SystemSetLocalAddress", "+USYLA=", <<"uInterfaceId_t", "mac">>, <<>>),
  Status("SystemFactoryReset", "+USYFR", <<>>, <<>>)}

System2 == {
  Status("SystemDefaultSettings", "+USYDS", <<>>, <<>>),
  Status("SystemSetUartSettings1", "+USYUS=", <<"int">>, <<>>),
  Status("SystemSetUartSettings2", "+USYUS=", <<"int", "int">>, <<>>),
  Status("SystemSetUartSettings3", "+USYUS=", <<"int", "int", "int">>, <<>>),
  Status("SystemGetUartSettings", "+USYUS?", <<>>, <<"uCxSysGetUartSettings_t">>),
  Status("SystemGetLastErrorCode", "+USYEC?", <<>>, <<"int">>),
  Status("SystemSetExtendedError", "+USYEE=", <<"uSysExtendedErrors_t">>, <<>>),
  Status("SystemGetExtendedError", "+USYEE?", <<>>, <<"uSysExtendedErrors_t">>),
  Status("SystemSetUnixTime", "+USYTU=", <<"bytes">>, <<>>)}

System3 == {
  Begun("SystemGetUnixTimeBegin", "+USYTU?", <<>>, <<"bytes">>),
  Status("SystemSetEchoOff", "E0", <<>>, <<>>),
  Status("SystemSetEchoOn", "E1", <<>>, <<>>),
  Status("SystemGetEcho", "E?", <<>>, <<"uSysEchoOn_t">>),
  Status("SystemSetEscSequenceChar", "S2=", <<"int">>, <<>>),
  Status("SystemGetEscSequenceChar", "S2?", <<>>, <<"int">>),
  Status("SystemSetLineTermChar", "S3=", <<"int">>, <<>>),
  Status("SystemGetLineTermChar", "S3?", <<>>, <<"int">>),
  Status("SystemSetRspFormatChar", "S4=", <<"int">>, <<>>),
  Status("SystemGetRspFormatChar", "S4?", <<>>, <<"int">>)}

System4 == {
  Status("SystemSetBackspaceChar", "S5=", <<"int">>, <<>>),
  Status("SystemGetBackspaceChar", "S5?", <<>>, <<"int">>),
  Status("SystemSetEscSequenceSettings", "+UTMES=", <<"int", "int", "int">>, <<>>),
  Status("SystemGetEscSequenceSettings", "+UTMES?", <<>>, <<"uCxSysGetEscSequenceSettings_t">>)}

\* u_cx_wifi.h
WifiTypes1 ==
  [uCxWifiStationGetSecurity_t |-> {<<"int", "int">>, <<"int">>, <<"int", "str", "str", "str",
       "str">>, <<"int", "int", "str", "str", "str", "str">>, <<"int", "str", "str">>,
       <<"int", "int", "str", "str">>},
   uCxWifiStationGetIpConfig_t |-> {<<"int">>, <<"int", "ip", "ip", "ip", "ip", "ip">>},
   uCxWifiStationStatus_t |-> {<<"int", "str">>, <<"int", "mac">>, <<"int", "int">>},
   uCxWifiApGetSecurity_t |-> {<<"int", "int">>, <<"int">>},
   uCxWifiAccessPointGetIpConfigStatic_t |-> {<<"int", "ip", "ip", "ip", "ip", "ip">>},
   uCxWifiStationListNetworkStatus_t |-> {<<"int", "ip">>}]

WifiTypes2 ==
  [uCxWifiStationScanDefault_t |-> {<<"mac", "str", "int", "int", "int", "int", "int">>},
   uCxWifiStationScan_t |-> {<<"mac", "str", "int", "int", "int", "int", "int">>},
   uCxWifiApGetConnectionParams_t |-> {<<"str", "int">>},
   uCxWifiApListNetworkStatus_t |-> {<<"int", "ip">>}]

Wifi1 == {
  Status("WifiSetHostname", "+UWHN=", <<"str">>, <<>>),
  Begun("WifiGetHostnameBegin", "+UWHN?", <<>>, <<"str">>),
  Status("WifiStationSetSecurityEnterprise5", "+UWSSE=", <<"int", "uWifiTlsVersion_t", "str",
      "str", "str">>, <<>>),
  Status("WifiStationSetSecurityEnterprise6", "+UWSSE=", <<"int", "uWifiTlsVersion_t", "str",
      "str", "str", "str">>, <<>>),
  Begun("WifiStationGetSecurityBegin", "+UWSS=", <<"int">>, <<"uCxWifiStationGetSecurity_t">>),
  Status("WifiStationSetSecurityPeap4", "+UWSSP=", <<"int", "uWifiTlsVersion_t", "str",
      "str">>, <<>>),
  Status("WifiStationSetSecurityPeap5", "+UWSSP=", <<"int", "uWifiTlsVersion_t", "str", "str",
      "str">>, <<>>),
  Status("WifiStationSetSecurityWpa", "+UWSSW=", <<"int", "str", "uWifiWpaThreshold_t">>, <<>>)}

Wifi2 == {
  Status("WifiStationSetSecurityOpen", "+UWSSO=", <<"int">>, <<>>),
  Status("WifiStationSetConnectionParams", "+UWSCP=", <<"int", "str">>, <<>>),
  Begun("WifiStationGetConnectionParamsBegin", "+UWSCP=", <<"int">>, <<"str">>),
  Status("WifiStationSetIpConfigStatic4", "+UWSIPS=", <<"int", "ip", "ip", "ip">>, <<>>),
  Status("WifiStationSetIpConfigStatic5", "+UWSIPS=", <<"int", "ip", "ip", "ip", "ip">>, <<>>),
  Status("WifiStationSetIpConfigStatic6", "+UWSIPS=", <<"int", "ip", "ip", "ip", "ip", "ip">>,
      <<>>),
  Status("WifiStationSetIpConfigDhcp", "+UWSIPD=", <<"int">>, <<>>),
  Status("WifiStationGetIpConfig", "+UWSIP=", <<"int">>, <<"uCxWifiStationGetIpConfig_t">>),
  Status("WifiAccessPointSetIpConfigStatic3", "+UWAPIPS=", <<"ip", "ip", "ip">>, <<>>)}

Wifi3 == {
  Status("WifiAccessPointSetIpConfigStatic4", "+UWAPIPS=", <<"ip", "ip", "ip", "ip">>, <<>>),
  Status("WifiAccessPointSetIpConfigStatic5", "+UWAPIPS=", <<"ip", "ip", "ip", "ip", "ip">>,
      <<>>),
  Status("WifiAccessPointGetIpConfigStatic", "+UWAPIP?", <<>>,
      <<"uCxWifiAccessPointGetIpConfigStatic_t">>),
  Status("WifiStationConnect", "+UWSC=", <<"int">>, <<>>),
  Status("WifiStationDisconnect", "+UWSDC", <<>>, <<>>),
  Status("WifiStationGetNetworkStatus", "+UWSNST=", <<"uWifiNetStatusId_t">>, <<"ip">>),
  Listed("WifiStationListNetworkStatus", "+UWSNST?", <<>>),
  NextEntry("WifiStationListNetworkStatus", <<"uCxWifiStationListNetworkStatus_t">>),
  Status("WifiSetRegulatoryDomain", "+UWRD=", <<"uWifiRegDomain_t">>, <<>>),
  Status("WifiGetRegulatoryDomain", "+UWRD?", <<>>, <<"uWifiRegDomain_t">>)}

Wifi4 == {
  Status("WifiSetChannelList", "+UWCL=", <<"ints">>, <<>>),
  Status("WifiGetChannelList", "+UWCL?", <<>>, <<"ints">>),
  Status("WifiGetActiveChannels", "+UWAC?", <<>>, <<"ints">>),
  Status("WifiClearMaxOutputPower", "+UWMOPC", <<>>, <<>>),
  Listed("WifiStationScanDefault", "+UWSSC", <<>>),
  NextEntry("WifiStationScanDefault", <<"uCxWifiStationScanDefault_t">>),
  Listed("WifiStationScan1", "+UWSSC=", <<"uWifiScanMode_t">>),
  NextEntry("WifiStationScan1", <<"uCxWifiStationScan_t">>),
  Listed("WifiStationScan2", "+UWSSC=", <<"uWifiScanMode_t", "str">>),
  NextEntry("WifiStationScan2", <<"uCxWifiStationScan_t">>),
  Begun("WifiStationStatusBegin", "+UWSST=", <<"uWifiStatusId_t">>,
      <<"uCxWifiStationStatus_t">>)}

Wifi5 == {
  Status("WifiApActivate", "+UWAPA", <<>>, <<>>),
  Status("WifiApDeactivate", "+UWAPD", <<>>, <<>>),
  Status("WifiApSetConnectionParams1", "+UWAPCP=", <<"str">>, <<>>),
  Status("WifiApSetConnectionParams2", "+UWAPCP=", <<"str", "uWifiChannel_t">>, <<>>),
  Begun("WifiApGetConnectionParamsBegin", "+UWAPCP?", <<>>,
      <<"uCxWifiApGetConnectionParams_t">>),
  Status("WifiApSetSecurityWpa1", "+UWAPSW=", <<"str">>, <<>>),
  Status("WifiApSetSecurityWpa2", "+UWAPSW=", <<"str", "uWifiWpaVersion_t">>, <<>>),
  Status("WifiApSetSecurityOpen", "+UWAPSO", <<>>, <<>>),
  Status("WifiApGetSecurity", "+UWAPS?", <<>>, <<"uCxWifiApGetSecurity_t">>),
  Listed("WifiApListStations", "+UWAPCS?", <<>>)}

Wifi6 == {
  NextEntry("WifiApListStations", <<"mac">>),
  Status("WifiApGetNetworkStatus", "+UWAPNST=", <<"uWifiNetStatusId_t">>, <<"ip">>),
  Listed("WifiApListNetworkStatus", "+UWAPNST?", <<>>),
  NextEntry("WifiApListNetworkStatus", <<"uCxWifiApListNetworkStatus_t">>),
  Status("WifiSetWifiRoaming", "+UWSROE=", <<"uWifiRoaming_t">>, <<>>),
  Status("WifiGetWifiRoaming", "+UWSROE?", <<>>, <<"uWifiRoaming_t">>),
  Status("WifiStationSetRoamingBGScanThreshold", "+UWSROS0=", <<"int">>, <<>>),
  Status("WifiStationGetRoamingBGScanThreshold", "+UWSROS0?", <<>>, <<"int">>),
  Status("WifiStationSetRoamingSwitchLimit", "+UWSROS1=", <<"int">>, <<>>),
  Status("WifiStationGetRoamingSwitchLimit", "+UWSROS1?", <<>>, <<"int">>),
  Status("WifiStationSetRoamingScanInterval", "+UWSROS2=", <<"int">>, <<>>)}

Wifi7 == {
  Status("WifiStationGetRoamingScanInterval", "+UWSROS2?", <<>>, <<"int">>),
  Status("WifiStationSetAggressiveRoaming", "+UWSROS3=", <<"uWifiRoamingAggressive_t">>, <<>>),
  Status("WifiStationGetAggressiveRoaming", "+UWSROS3?", <<>>, <<"uWifiRoamingAggressive_t">>),
  Status("WifiStationSetRoamingDelayMs", "+UWSROS4=", <<"int">>, <<>>),
  Status("WifiStationGetRoamingDelayMs", "+UWSROS4?", <<>>, <<"int">>),
  Status("WifiStationSetRoamingAllChannels", "+UWSROS5=", <<"uWifiRoamingChannels_t">>, <<>>),
  Status("WifiStationGetRoamingAllChannels", "+UWSROS5?", <<>>, <<"uWifiRoamingChannels_t">>),
  Callback("WifiRegisterLinkUp", "UEWLU"),
  Callback("WifiRegisterLinkDown", "UEWLD"),
  Callback("WifiRegisterStationNetworkUp", "UEWSNU"),
  Callback("WifiRegisterStationNetworkDown", "UEWSND"),
  Callback("WifiRegisterStationRoamingSwitchInitiated", "UEWSRSI")}

Wifi8 == {
  Callback("WifiRegisterStationRoamingSwitchFailed", "UEWSRSF"),
  Callback("WifiRegisterStationRoamingSwitchCompleted", "UEWSRSC"),
  Callback("WifiRegisterApNetworkUp", "UEWAPNU"),
  Callback("WifiRegisterApNetworkDown", "UEWAPND"),
  Callback("WifiRegisterApUp", "UEWAPU"),
  Callback("WifiRegisterApDown", "UEWAPD"),
  Callback("WifiRegisterApStationAssociated", "UEWAPSA"),
  Callback("WifiRegisterApStationDisassociated", "UEWAPSDA")}

Structs == BluetoothTypes @@ GattClientTypes @@ GattServerTypes @@ GeneralTypes @@
  HttpTypes @@ MdnsTypes @@ MqttTypes @@ NetworkTimeTypes @@ SecurityTypes @@
  SocketTypes @@ SystemTypes @@ WifiTypes1 @@ WifiTypes2

Decls == UNION {Bluetooth1, Bluetooth2, Bluetooth3, Bluetooth4, Bluetooth5, Bluetooth6,
    Bluetooth7, Bluetooth8, Bluetooth9, Diagnostics1, Diagnostics2, GattClient1, GattClient2,
    GattServer1, GattServer2, GattServer3, General1, General2, Http1, Http2, Http3, Mdns1,
    Mdns2, Mqtt1, Mqtt2, Mqtt3, NetworkTime, Power, Security1, Security2, Socket1, Socket2,
    Socket3, Sps, System1, System2, System3, System4, Wifi1, Wifi2, Wifi3, Wifi4, Wifi5,
    Wifi6, Wifi7, Wifi8}

=============================================================================
