----------------------------- MODULE DeclsB26X -----------------------------
(*****************************************************************************)
(* What the headers of the generated command API of the NORA-B26X promise:   *)
(* per function the AT command it is documented to send, the types of its    *)
(* parameters and results and what its return value means; the response      *)
(* types; the types of the callbacks.                                        *)
(*****************************************************************************)
EXTENDS ApiForms

\* u_cx_types.h: the enumerations and their largest values.
Enums1 ==
  [uGeneralGreetingMode_t |-> 1,
   uInterfaceId_t |-> 0,
   uSysExtendedErrors_t |-> 1,
   uSysEchoOn_t |-> 1,
   uBtMode_t |-> 3,
   uBtDataType_t |-> 2,
   uBtDiscoveryType_t |-> 3,
   uBtDiscoveryMode_t |-> 1,
   uBtOutputEvents_t |-> 1,
   uBtDiscoveryState_t |-> 1,
   uBtConnectToDirectedAdvertisements_t |-> 1,
   uBtPropId_t |-> 9,
   uBtLegacyAdv_t |-> 1,
   uBtDirectedAdv_t |-> 1,
   uBtAdvType_t |-> 2,
   uBtExtAdvType_t |-> 1,
   uBtIoCap_t |-> 4,
   uBtSecurityMode_t |-> 4,
   uBtPairingMode_t |-> 1]

Enums2 ==
  [uBtConfirm_t |-> 1,
   uBtCharId_t |-> 3,
   uBtChannelSoundingMode_t |-> 1,
   uGattClientConfig_t |-> 3,
   uGattClientReliable_t |-> 1,
   uGattClientFlag_t |-> 2,
   uGattServerReadSecurity_t |-> 3,
   uGattServerWriteSecurity_t |-> 3,
   uSpsServiceOption_t |-> 1,
   uReadMode_t |-> 2,
   uPowerWakeupMode_t |-> 2,
   uBtBondStatus_t |-> 4,
   uBtChannelSoundingEvent_t |-> 3,
   uBtHciStatus_t |-> 31,
   uGattServerOptions_t |-> 2]

Enums == Enums1 @@ Enums2

\* u_cx_types.h: the callbacks of the handle and the parameters they take.
CallbackTypes ==
  [STARTUP |-> <<>>,
   UEBTC |-> <<"int", "bt">>,
   UEBTDC |-> <<"int">>,
   UEBTB |-> <<"bt", "uBtBondStatus_t">>,
   UEBTUC |-> <<"bt", "int">>,
   UEBTUPD |-> <<"bt", "int">>,
   UEBTUPE |-> <<"bt">>,
   UEBTPHYU |-> <<"int", "int", "int", "int">>,
   UEBTBGD |-> <<"bt", "int", "str", "uBtDataType_t", "bytes">>,
   UEBTCSS |-> <<"int", "uBtChannelSoundingEvent_t", "uBtHciStatus_t">>,
   UEBTGCN |-> <<"int", "int", "bytes">>,
   UEBTGCI |-> <<"int", "int", "bytes">>,
   UEBTGCW |-> <<"int", "int", "bytes", "uGattServerOptions_t">>,
   UEBTGRR |-> <<"int", "int">>,
   UEBTGIC |-> <<"int", "int">>,
   UESPSC |-> <<"int">>,
   UESPSDC |-> <<"int">>,
   UESPSDS |-> <<"int", "bytes">>,
   UESPSDB |-> <<"int">>,
   UESPSDA |-> <<"int", "int">>]

\* u_cx_bluetooth.h
BluetoothTypes ==
  [uCxBtBgDiscoveryGet_t |-> {<<"int">>, <<"int", "int", "int", "int", "int">>},
   uCxBtDiscoveryDefault_t |-> {<<"bt", "int", "str", "int", "bytes">>},
   uCxBtDiscovery_t |-> {<<"bt", "int", "str", "int", "bytes">>},
   uCxBtGetDiscoveryDataFilter_t |-> {<<"int", "bytes">>},
   uCxBtListDiscoveryDataFilters_t |-> {<<"int", "int", "bytes">>},
   uCxBtListConnections_t |-> {<<"int", "bt">>},
   uCxBtListConnectionStatus_t |-> {<<"int", "int">>},
   uCxBtGetAdvertiseInformation_t |-> {<<"int", "int", "ints">>},
   uCxBtGetLegacyAdvertiseDataAndType_t |-> {<<"bytes", "int">>},
   uCxBtGetExtendedAdvertiseData_t |-> {<<"int", "bytes", "int">>},
   uCxBtGetExtendedAdvertisementConfig_t |-> {<<"int", "int", "int">>},
   uCxBtGetLegacyAdvertisementConfig_t |-> {<<"int", "int">>},
   uCxBtListDeviceInfoServiceChars_t |-> {<<"int", "str">>},
   uCxBtGetPhy_t |-> {<<"int", "int">>}]

Bluetooth1 == {
  Status("BluetoothSetMode", "+UBTM=", <<"uBtMode_t">>, <<>>),
  Status("BluetoothGetMode", "+UBTM?", <<>>, <<"uBtMode_t">>),
  Status("BluetoothConnect", "+UBTC=", <<"bt">>, <<>>),
  Status("BluetoothDisconnect", "+UBTDC=", <<"int">>, <<>>),
  Begun("BluetoothGetLocalNameBegin", "+UBTLN?", <<>>, <<"str">>),
  Status("BluetoothSetLocalName", "+UBTLN=", <<"str">>, <<>>),
  Listed("BluetoothDiscoveryDefault", "+UBTD", <<>>),
  NextEntry("BluetoothDiscoveryDefault", <<"uCxBtDiscoveryDefault_t">>),
  Listed("BluetoothDiscovery1", "+UBTD=", <<"uBtDiscoveryType_t">>),
  NextEntry("BluetoothDiscovery1", <<"uCxBtDiscovery_t">>),
  Listed("BluetoothDiscovery2", "+UBTD=", <<"uBtDiscoveryType_t", "uBtDiscoveryMode_t">>)}

Bluetooth2 == {
  NextEntry("BluetoothDiscovery2", <<"uCxBtDiscovery_t">>),
  Listed("BluetoothDiscovery3", "+UBTD=", <<"uBtDiscoveryType_t", "uBtDiscoveryMode_t",
      "int">>),
  NextEntry("BluetoothDiscovery3", <<"uCxBtDiscovery_t">>),
  Status("BluetoothBgDiscoveryDefaultStart", "+UBTBGD", <<>>, <<>>),
  Status("BluetoothBgDiscoveryStart1", "+UBTBGD=", <<"uBtDiscoveryType_t">>, <<>>),
  Status("BluetoothBgDiscoveryStart2", "+UBTBGD=", <<"uBtDiscoveryType_t",
      "uBtDiscoveryMode_t">>, <<>>),
  Status("BluetoothBgDiscoveryStart3", "+UBTBGD=", <<"uBtDiscoveryType_t",
      "uBtDiscoveryMode_t", "uBtOutputEvents_t">>, <<>>),
  Status("BluetoothBgDiscoveryGet", "+UBTBGD?", <<>>, <<"uCxBtBgDiscoveryGet_t">>),
  Status("BluetoothBgDiscoveryStop", "+UBTBGDS", <<>>, <<>>),
  Status("BluetoothSetDiscoveryDataFilter", "+UBTDFD=", <<"int", "int", "bytes">>, <<>>),
  Begun("BluetoothGetDiscoveryDataFilterBegin", "+UBTDFD=", <<"int">>,
      <<"uCxBtGetDiscoveryDataFilter_t">>)}

Bluetooth3 == {
  Listed("BluetoothListDiscoveryDataFilters", "+UBTDFD?", <<>>),
  NextEntry("BluetoothListDiscoveryDataFilters", <<"uCxBtListDiscoveryDataFilters_t">>),
  Status("BluetoothGetRssi", "+UBTRSS=", <<"int">>, <<"int">>),
  Listed("BluetoothListConnections", "+UBTCL", <<>>),
  NextEntry("BluetoothListConnections", <<"uCxBtListConnections_t">>),
  Listed("BluetoothListConnectionStatus", "+UBTCST=", <<"int">>),
  NextEntry("BluetoothListConnectionStatus", <<"uCxBtListConnectionStatus_t">>),
  Status("BluetoothGetConnectionStatus", "+UBTCST=", <<"int", "uBtPropId_t">>, <<"int">>),
  Status("BluetoothGetAdvertiseInformation", "+UBTA?", <<>>,
      <<"uCxBtGetAdvertiseInformation_t">>),
  Status("BluetoothSetLegacyAdvertiseDataAndType1", "+UBTADL=", <<"bytes">>, <<>>),
  Status("BluetoothSetLegacyAdvertiseDataAndType2", "+UBTADL=", <<"bytes", "uBtAdvType_t">>,
      <<>>)}

Bluetooth4 == {
  Begun("BluetoothGetLegacyAdvertiseDataAndTypeBegin", "+UBTADL?", <<>>,
      <<"uCxBtGetLegacyAdvertiseDataAndType_t">>),
  Status("BluetoothClearLegacyAdvertiseData", "+UBTADLC", <<>>, <<>>),
  Status("BluetoothSetExtendedAdvertiseData2", "+UBTADE=", <<"int", "bytes">>, <<>>),
  Status("BluetoothSetExtendedAdvertiseData3", "+UBTADE=", <<"int", "bytes",
      "uBtExtAdvType_t">>, <<>>),
  Begun("BluetoothGetExtendedAdvertiseDataBegin", "+UBTADE=", <<"int">>,
      <<"uCxBtGetExtendedAdvertiseData_t">>),
  Status("BluetoothClearExtendedAdvertiseData", "+UBTADEC=", <<"int">>, <<>>),
  Status("BluetoothSetExtendedAdvertisementConfig", "+UBTAES=", <<"int", "int", "int">>, <<>>),
  Status("BluetoothGetExtendedAdvertisementConfig", "+UBTAES=", <<"int">>,
      <<"uCxBtGetExtendedAdvertisementConfig_t">>),
  Status("BluetoothExtendedAdvertisementStart", "+UBTAE=", <<"ints">>, <<>>),
  Status("BluetoothExtendedAdvertisementStopAll", "+UBTAED", <<>>, <<>>)}

Bluetooth5 == {
  Status("BluetoothExtendedAdvertisementStop", "+UBTAED=", <<"int">>, <<>>),
  Status("BluetoothSetScanResponseData", "+UBTASD=", <<"bytes">>, <<>>),
  Begun("BluetoothGetScanResponseDataBegin", "+UBTASD?", <<>>, <<"bytes">>),
  Status("BluetoothClearScanResponseData", "+UBTASDC", <<>>, <<>>),
  Status("BluetoothLegacyAdvertisementStart", "+UBTAL", <<>>, <<>>),
  Status("BluetoothLegacyAdvertisementStartWithMaxConnection", "+UBTAL=", <<"int">>, <<>>),
  Status("BluetoothLegacyAdvertisementStop", "+UBTALD", <<>>, <<>>),
  Status("BluetoothDirectedAdvertisementStart1", "+UBTAD=", <<"bt">>, <<>>),
  Status("BluetoothDirectedAdvertisementStart2", "+UBTAD=", <<"bt", "int">>, <<>>),
  Status("BluetoothDirectedAdvertisementStop", "+UBTADD", <<>>, <<>>)}

Bluetooth6 == {
  Status("BluetoothSetConnectionIntervalMin", "+UBTCS0=", <<"int">>, <<>>),
  Status("BluetoothGetConnectionIntervalMin", "+UBTCS0?", <<>>, <<"int">>),
  Status("BluetoothSetConnectionIntervalMax", "+UBTCS1=", <<"int">>, <<>>),
  Status("BluetoothGetConnectionIntervalMax", "+UBTCS1?", <<>>, <<"int">>),
  Status("BluetoothSetConnectionPeripheralLatency", "+UBTCS2=", <<"int">>, <<>>),
  Status("BluetoothGetConnectionPeripheralLatency", "+UBTCS2?", <<>>, <<"int">>),
  Status("BluetoothSetConnectionLinklossTimeout", "+UBTCS3=", <<"int">>, <<>>),
  Status("BluetoothGetConnectionLinklossTimeout", "+UBTCS3?", <<>>, <<"int">>),
  Status("BluetoothSetPreferredTxPhy", "+UBTCS4=", <<"int">>, <<>>)}

Bluetooth7 == {
  Status("BluetoothGetPreferredTxPhy", "+UBTCS4?", <<>>, <<"int">>),
  Status("BluetoothSetPreferredRxPhy", "+UBTCS5=", <<"int">>, <<>>),
  Status("BluetoothGetPreferredRxPhy", "+UBTCS5?", <<>>, <<"int">>),
  Status("BluetoothSetLegacyAdvertisementConfig", "+UBTALS=", <<"int", "int">>, <<>>),
  Status("BluetoothGetLegacyAdvertisementConfig", "+UBTALS?", <<>>,
      <<"uCxBtGetLegacyAdvertisementConfig_t">>),
  Status("BluetoothSetScanInterval", "+UBTSS0=", <<"int">>, <<>>),
  Status("BluetoothGetScanInterval", "+UBTSS0?", <<>>, <<"int">>),
  Status("BluetoothSetScanWindow", "+UBTSS1=", <<"int">>, <<>>),
  Status("BluetoothGetScanWindow", "+UBTSS1?", <<>>, <<"int">>)}

Bluetooth8 == {
  Status("BluetoothSetConnectToDirectedAdv", "+UBTSS2=", <<"int">>, <<>>),
  Status("BluetoothGetConnectToDirectedAdv", "+UBTSS2?", <<>>, <<"int">>),
  Status("BluetoothSetIoCapabilities", "+UBTIOC=", <<"uBtIoCap_t">>, <<>>),
  Status("BluetoothGetIoCapabilities", "+UBTIOC?", <<>>, <<"uBtIoCap_t">>),
  Status("BluetoothSetSecurityMode", "+UBTBSM=", <<"uBtSecurityMode_t">>, <<>>),
  Status("BluetoothGetSecurityMode", "+UBTBSM?", <<>>, <<"uBtSecurityMode_t">>),
  Status("BluetoothSetPairingMode", "+UBTPM=", <<"uBtPairingMode_t">>, <<>>),
  Status("BluetoothGetPairingMode", "+UBTPM?", <<>>, <<"uBtPairingMode_t">>),
  Status("BluetoothUserConfirmation", "+UBTUC=", <<"bt", "uBtConfirm_t">>, <<>>),
  Status("BluetoothUserPasskeyEntry2", "+UBTUPE=", <<"bt", "uBtConfirm_t">>, <<>>),
  Status("BluetoothUserPasskeyEntry3", "+UBTUPE=", <<"bt", "uBtConfirm_t", "int">>, <<>>)}

Bluetooth9 == {
  Status("BluetoothBond", "+UBTB=", <<"bt">>, <<>>),
  Status("BluetoothUnbond", "+UBTUB=", <<"bt">>, <<>>),
  Status("BluetoothUnbondAll", "+UBTUB", <<>>, <<>>),
  Listed("BluetoothListBondedDevices", "+UBTBDL", <<>>),
  NextEntry("BluetoothListBondedDevices", <<"bt">>),
  Status("BluetoothSetDeviceInfoServiceChar", "+UBTDIS=", <<"uBtCharId_t", "str">>, <<>>),
  Begun("BluetoothGetDeviceInfoServiceCharBegin", "+UBTDIS=", <<"uBtCharId_t">>, <<"str">>),
  Listed("BluetoothListDeviceInfoServiceChars", "+UBTDIS?", <<>>),
  NextEntry("BluetoothListDeviceInfoServiceChars", <<"uCxBtListDeviceInfoServiceChars_t">>),
  Status("BluetoothRequestPhy", "+UBTPHYR=", <<"int", "int", "int">>, <<>>)}

Bluetooth10 == {
  Status("BluetoothGetPhy", "+UBTPHYR=", <<"int">>, <<"uCxBtGetPhy_t">>),
  Status("BluetoothSetMaxOutputPower", "+UBTMOP=", <<"int">>, <<>>),
  Status("BluetoothGetMaxOutputPower", "+UBTMOP?", <<>>, <<"int">>),
  Status("BluetoothClearMaxOutputPower", "+UBTMOPC", <<>>, <<>>),
  Callback("BluetoothRegisterConnect", "UEBTC"),
  Callback("BluetoothRegisterDisconnect", "UEBTDC"),
  Callback("BluetoothRegisterBondStatus", "UEBTB"),
  Callback("BluetoothRegisterUserConfirmation", "UEBTUC"),
  Callback("BluetoothRegisterPasskeyEntry", "UEBTUPD"),
  Callback("BluetoothRegisterPasskeyRequest", "UEBTUPE"),
  Callback("BluetoothRegisterPhyUpdate", "UEBTPHYU"),
  Callback("BluetoothRegisterBackgroundDiscovery", "UEBTBGD")}

\* u_cx_channel_sounding.h
ChannelSounding == {
  Status("ChannelSoundingSetChannelSoundingMode", "+UBTCSM=", <<"uBtChannelSoundingMode_t">>,
      <<>>),
  Status("ChannelSoundingGetChannelSoundingMode", "+UBTCSM?", <<>>,
      <<"uBtChannelSoundingMode_t">>),
  Callback("ChannelSoundingRegisterCsStatus", "UEBTCSS")}

\* u_cx_gatt_client.h
GattClientTypes ==
  [uCxGattClientDiscoverPrimaryServices_t |-> {<<"int", "int", "bytes">>},
   uCxGattClientDiscoverPrimaryServicesByUuid_t |-> {<<"int", "int">>},
   uCxGattClientDiscoverServiceChars_t |-> {<<"int", "bytes", "int", "bytes">>},
   uCxGattClientDiscoverCharDescriptors_t |-> {<<"int", "int", "bytes">>},
   uCxGattClientReadByUuid_t |-> {<<"int", "bytes">>}]

GattClient1 == {
  Listed("GattClientDiscoverPrimaryServices", "+UBTGPSD=", <<"int">>),
  NextEntry("GattClientDiscoverPrimaryServices", <<"uCxGattClientDiscoverPrimaryServices_t">>),
  Listed("GattClientDiscoverPrimaryServicesByUuid", "+UBTGPSDU=", <<"int", "bytes">>),
  NextEntry("GattClientDiscoverPrimaryServicesByUuid",
      <<"uCxGattClientDiscoverPrimaryServicesByUuid_t">>),
  Listed("GattClientDiscoverServiceChars", "+UBTGSCD=", <<"int", "int", "int">>),
  NextEntry("GattClientDiscoverServiceChars", <<"uCxGattClientDiscoverServiceChars_t">>),
  Listed("GattClientDiscoverCharDescriptors", "+UBTGCDD=", <<"int", "int", "int">>),
  NextEntry("GattClientDiscoverCharDescriptors", <<"uCxGattClientDiscoverCharDescriptors_t">>),
  Begun("GattClientReadBegin", "+UBTGR=", <<"int", "int">>, <<"bytes">>),
  Begun("GattClientReadByUuidBegin", "+UBTGRU=", <<"int", "int", "int", "bytes">>,
      <<"uCxGattClientReadByUuid_t">>)}

GattClient2 == {
  Status("GattClientWrite", "+UBTGW=", <<"int", "int", "bytes">>, <<>>),
  Status("GattClientConfigWrite", "+UBTGCCW=", <<"int", "int", "uGattClientConfig_t">>, <<>>),
  Status("GattClientWriteNoRsp", "+UBTGWNR=", <<"int", "int", "bytes">>, <<>>),
  Status("GattClientWriteLong", "+UBTGWL=", <<"int", "int", "bytes", "uGattClientReliable_t",
      "uGattClientFlag_t", "int">>, <<>>),
  Callback("GattClientRegisterNotification", "UEBTGCN"),
  Callback("GattClientRegisterIndication", "UEBTGCI")}

\* u_cx_gatt_server.h
GattServerTypes ==
  [uCxGattServerCharDefine_t |-> {<<"int", "int">>},
   uCxGattServerHostCharDefine_t |-> {<<"int", "int">>}]

GattServer1 == {
  Status("GattServerServiceDefine", "+UBTGS=", <<"bytes">>, <<"int">>),
  Status("GattServerCharDefine5", "+UBTGC=", <<"bytes", "bytes", "uGattServerReadSecurity_t",
      "uGattServerWriteSecurity_t", "bytes">>, <<"uCxGattServerCharDefine_t">>),
  Status("GattServerCharDefine6", "+UBTGC=", <<"bytes", "bytes", "uGattServerReadSecurity_t",
      "uGattServerWriteSecurity_t", "bytes", "int">>, <<"uCxGattServerCharDefine_t">>),
  Status("GattServerHostCharDefine", "+UBTGHCC=", <<"bytes", "bytes",
      "uGattServerReadSecurity_t", "uGattServerWriteSecurity_t">>,
      <<"uCxGattServerHostCharDefine_t">>),
  Status("GattServerDescriptorDefine4", "+UBTGD=", <<"bytes", "uGattServerReadSecurity_t",
      "uGattServerWriteSecurity_t", "bytes">>, <<"int">>),
  Status("GattServerDescriptorDefine5", "+UBTGD=", <<"bytes", "uGattServerReadSecurity_t",
      "uGattServerWriteSecurity_t", "bytes", "int">>, <<"int">>)}

GattServer2 == {
  Status("GattServerServiceActivate", "+UBTGSA", <<>>, <<>>),
  Status("GattServerReadReqResponse", "+UBTGRRR=", <<"int", "bytes">>, <<>>),
  Status("GattServerSendNotification", "+UBTGNS=", <<"int", "int", "bytes">>, <<>>),
  Status("GattServerSendIndication", "+UBTGIS=", <<"int", "int", "bytes">>, <<>>),
  Status("GattServerSetAttrValue", "+UBTGAV=", <<"int", "bytes">>, <<>>),
  Status("GattServerReadReqError", "+UBTGRRRE=", <<"int", "bytes">>, <<>>),
  Status("GattServerWriteReqError", "+UBTGWRE=", <<"int", "bytes">>, <<>>),
  Status("GattServerWriteReqResponse", "+UBTGWRR=", <<"int">>, <<>>),
  Callback("GattServerRegisterNotification", "UEBTGCW"),
  Callback("GattServerRegisterReadAttribute", "UEBTGRR"),
  Callback("GattServerRegisterIndicationAck", "UEBTGIC")}

\* u_cx_general.h
GeneralTypes ==
  [uCxGeneralGetIdentInfo_t |-> {<<"str", "str">>},
   uCxGeneralGetGreetingText_t |-> {<<"int", "str">>}]

General1 == {
  Status("GeneralAttention", "", <<>>, <<>>),
  Begun("GeneralGetManufacturerIdentificationBegin", "+GMI", <<>>, <<"str">>),
  Begun("GeneralGetDeviceModelIdentificationBegin", "+GMM", <<>>, <<"str">>),
  Begun("GeneralGetSoftwareVersionBegin", "+GMR", <<>>, <<"str">>),
  Begun("GeneralGetSerialNumberBegin", "+GSN", <<>>, <<"str">>),
  Begun("GeneralGetIdentInfoBegin", "I9", <<>>, <<"uCxGeneralGetIdentInfo_t">>),
  Begun("GeneralGetTypeCodeBegin", "I0", <<>>, <<"str">>),
  Status("GeneralSetGreetingText1", "+CSGT=", <<"uGeneralGreetingMode_t">>, <<>>),
  Status("GeneralSetGreetingText2", "+CSGT=", <<"uGeneralGreetingMode_t", "str">>, <<>>),
  Begun("GeneralGetGreetingTextBegin", "+CSGT?", <<>>, <<"uCxGeneralGetGreetingText_t">>)}

General2 == {
  Callback("GeneralRegisterStartup", "STARTUP")}

\* u_cx_power.h
Power == {
  Status("PowerDeepSleepWithGpioWakeup", "+UPMDS", <<>>, <<>>),
  Status("PowerDeepSleep", "+UPMDS=", <<"uPowerWakeupMode_t">>, <<>>),
  Status("PowerSleep", "+UPMS", <<>>, <<>>)}

\* u_cx_sps.h
Sps == {
  Status("SpsConnect1", "+USPSC=", <<"int">>, <<>>),
  Status("SpsConnect2", "+USPSC=", <<"int", "int">>, <<>>),
  Status("SpsSetServiceEnable", "+USPS=", <<"uSpsServiceOption_t">>, <<>>),
  Status("SpsGetServiceEnable", "+USPS?", <<>>, <<"uSpsServiceOption_t">>),
  Amount("SpsWrite", "+USPSWB=", <<"int", "bytes">>, <<>>),
  Status("SpsSetDataMode", "+USPSRM=", <<"uReadMode_t">>, <<>>),
  Status("SpsGetDataMode", "+USPSRM?", <<>>, <<"uReadMode_t">>),
  Amount("SpsRead", "+USPSRB=", <<"int", "int">>, <<"buffer">>),
  Callback("SpsRegisterConnect", "UESPSC"),
  Callback("SpsRegisterDisconnect", "UESPSDC"),
  Callback("SpsRegisterDataAvailable", "UESPSDA")}

\* u_cx_system.h
SystemTypes ==
  [uCxSysGetUartSettings_t |-> {<<"int", "int">>},
   uCxSysGetEscSequenceSettings_t |-> {<<"int", "int", "int">>}]

System1 == {
  Status("SystemReboot", "+CPWROFF", <<>>, <<>>),
  Status("SystemStartSerialFirmwareUpdate1", "+USYFWUS=", <<"int">>, <<>>),
  Status("SystemStartSerialFirmwareUpdate2", "+USYFWUS=", <<"int", "int">>, <<>>),
  Status("SystemStartSerialFirmwareUpdateDefault", "+USYFWUS", <<>>, <<>>),
  Status("SystemStartBootLoader1", "+USYBL=", <<"int">>, <<>>),
  Status("SystemStartBootLoader2", "+USYBL=", <<"int", "int">>, <<>>),
  Status("SystemStartBootLoaderDefault", "+USYBL", <<>>, <<>>),
  Status("SystemStoreConfiguration", "&W", <<>>, <<>>),
  Status("SystemGetLocalAddress", "+USYLA=", <<"uInterfaceId_t">>, <<"mac">>),
  Status("SystemSetLocalAddress", "+USYLA=", <<"uInterfaceId_t", "mac">>, <<>>),
  Status("SystemFactoryReset", "+USYFR", <<>>, <<>>)}

System2 == {
  Status("SystemDefaultSettings", "+USYDS", <<>>, <<>>),
  Status("SystemSetUartSettings1", "+USYUS=", <<"int">>, <<>>),
  Status("SystemSetUartSettings2", "+USYUS=", <<"int", "int">>, <<>>),
  Status("SystemSetUartSettings3", "+USYUS=", <<"int", "int", "int">>, <<>>),
  Status("SystemGetUartSettings", "+USYUS?", <<>>, <<"uCxSysGetUartSettings_t">>),
  Status("SystemGetLastErrorCode", "+USYEC?", <<>>, <<"int">>),
  Status("SystemSetExtendedError", "+USYEE=", <<"uSysExtendedErrors_t">>, <<>>),
  Status("SystemGetExtendedError", "+USYEE?", <<>>, <<"uSysExtendedErrors_t">>),
  Status("SystemSetEchoOff", "E0", <<>>, <<>>)}

System3 == {
  Status("SystemSetEchoOn", "E1", <<>>, <<>>),
  Status("SystemGetEcho", "E?", <<>>, <<"uSysEchoOn_t">>),
  Status("SystemSetEscSequenceChar", "S2=", <<"int">>, <<>>),
  Status("SystemGetEscSequenceChar", "S2?", <<>>, <<"int">>),
  Status("SystemSetLineTermChar", "S3=", <<"int">>, <<>>),
  Status("SystemGetLineTermChar", "S3?", <<>>, <<"int">>),
  Status("SystemSetRspFormatChar", "S4=", <<"int">>, <<>>),
  Status("SystemGetRspFormatChar", "S4?", <<>>, <<"int">>),
  Status("SystemSetBackspaceChar", "S5=", <<"int">>, <<>>),
  Status("SystemGetBackspaceChar", "S5?", <<>>, <<"int">>)}

System4 == {
  Status("SystemSetEscSequenceSettings", "+UTMES=", <<"int", "int", "int">>, <<>>),
  Status("SystemGetEscSequenceSettings", "+UTMES?", <<>>, <<"uCxSysGetEscSequenceSettings_t">>),
  Status("SystemGetChipDieTemp", "+USCT?", <<>>, <<"int">>)}

Structs == BluetoothTypes @@ GattClientTypes @@ GattServerTypes @@ GeneralTypes @@
  SystemTypes

Decls == UNION {Bluetooth1, Bluetooth2, Bluetooth3, Bluetooth4, Bluetooth5, Bluetooth6,
    Bluetooth7, Bluetooth8, Bluetooth9, Bluetooth10, ChannelSounding, GattClient1,
    GattClient2, GattServer1, GattServer2, General1, General2, Power, Sps, System1, System2,
    System3, System4}

=============================================================================
