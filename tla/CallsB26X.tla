----------------------------- MODULE CallsB26X -----------------------------
(*****************************************************************************)
(* The functions of the generated command API of the NORA-B26X as its .c     *)
(* files have them: the client calls that a function makes, the AT command,  *)
(* the format of its parameters, the response prefix and the format that the *)
(* response is parsed with.  uCx is left out of the names, and Begin and     *)
(* GetNext where a list has both; AT is left out of the commands.            *)
(*****************************************************************************)
EXTENDS ApiForms

\* u_cx_bluetooth.c
Bluetooth1 == {
  Exec("BluetoothSetMode", "+UBTM=", <<"d">>),
  Query("BluetoothGetMode", "+UBTM?", <<>>, "+UBTM:", <<"d">>),
  Exec("BluetoothConnect", "+UBTC=", <<"b">>),
  Exec("BluetoothDisconnect", "+UBTDC=", <<"d">>),
  Begin("BluetoothGetLocalNameBegin", "+UBTLN?", <<>>, "+UBTLN:", <<"s">>),
  Exec("BluetoothSetLocalName", "+UBTLN=", <<"s">>),
  List("BluetoothDiscoveryDefault", "+UBTD", <<>>),
  GetNext("BluetoothDiscoveryDefault", "+UBTD:", <<"b", "d", "s", "d", "h">>),
  List("BluetoothDiscovery1", "+UBTD=", <<"d">>),
  GetNext("BluetoothDiscovery1", "+UBTD:", <<"b", "d", "s", "d", "h">>),
  List("BluetoothDiscovery2", "+UBTD=", <<"d", "d">>),
  GetNext("BluetoothDiscovery2", "+UBTD:", <<"b", "d", "s", "d", "h">>),
  List("BluetoothDiscovery3", "+UBTD=", <<"d", "d", "d">>),
  GetNext("BluetoothDiscovery3", "+UBTD:", <<"b", "d", "s", "d", "h">>),
  Exec("BluetoothBgDiscoveryDefaultStart", "+UBTBGD", <<>>),
  Exec("BluetoothBgDiscoveryStart1", "+UBTBGD=", <<"d">>),
  Exec("BluetoothBgDiscoveryStart2", "+UBTBGD=", <<"d", "d">>),
  Exec("BluetoothBgDiscoveryStart3", "+UBTBGD=", <<"d", "d", "d">>)}

Bluetooth2 == {
  VariantQuery("BluetoothBgDiscoveryGet", "+UBTBGD?", <<>>, "+UBTBGD:", <<"d">>, {Case({0},
      <<"d">>), Case({1}, <<"d", "d", "d", "d", "d">>)}),
  Exec("BluetoothBgDiscoveryStop", "+UBTBGDS", <<>>),
  Exec("BluetoothSetDiscoveryDataFilter", "+UBTDFD=", <<"d", "d", "h">>),
  Begin("BluetoothGetDiscoveryDataFilterBegin", "+UBTDFD=", <<"d">>, "+UBTDFD:", <<"-", "d",
      "h">>),
  List("BluetoothListDiscoveryDataFilters", "+UBTDFD?", <<>>),
  GetNext("BluetoothListDiscoveryDataFilters", "+UBTDFD:", <<"d", "d", "h">>),
  Query("BluetoothGetRssi", "+UBTRSS=", <<"d">>, "+UBTRSS:", <<"d">>),
  List("BluetoothListConnections", "+UBTCL", <<>>),
  GetNext("BluetoothListConnections", "+UBTCL:", <<"d", "b">>),
  List("BluetoothListConnectionStatus", "+UBTCST=", <<"d">>),
  GetNext("BluetoothListConnectionStatus", "+UBTCST:", <<"d", "d">>),
  Query("BluetoothGetConnectionStatus", "+UBTCST=", <<"d", "d">>, "+UBTCST:", <<"-", "d">>),
  Query("BluetoothGetAdvertiseInformation", "+UBTA?", <<>>, "+UBTA:", <<"d", "d", "l">>)}

Bluetooth3 == {
  Exec("BluetoothSetLegacyAdvertiseDataAndType1", "+UBTADL=", <<"h">>),
  Exec("BluetoothSetLegacyAdvertiseDataAndType2", "+UBTADL=", <<"h", "d">>),
  Begin("BluetoothGetLegacyAdvertiseDataAndTypeBegin", "+UBTADL?", <<>>, "+UBTADL:", <<"h",
      "d">>),
  Exec("BluetoothClearLegacyAdvertiseData", "+UBTADLC", <<>>),
  Exec("BluetoothSetExtendedAdvertiseData2", "+UBTADE=", <<"d", "h">>),
  Exec("BluetoothSetExtendedAdvertiseData3", "+UBTADE=", <<"d", "h", "d">>),
  Begin("BluetoothGetExtendedAdvertiseDataBegin", "+UBTADE=", <<"d">>, "+UBTADE:", <<"d", "h",
      "d">>),
  Exec("BluetoothClearExtendedAdvertiseData", "+UBTADEC=", <<"d">>),
  Exec("BluetoothSetExtendedAdvertisementConfig", "+UBTAES=", <<"d", "d", "d">>),
  Query("BluetoothGetExtendedAdvertisementConfig", "+UBTAES=", <<"d">>, "+UBTAES:", <<"d",
      "d", "d">>),
  Exec("BluetoothExtendedAdvertisementStart", "+UBTAE=", <<"l">>),
  Exec("BluetoothExtendedAdvertisementStopAll", "+UBTAED", <<>>),
  Exec("BluetoothExtendedAdvertisementStop", "+UBTAED=", <<"d">>),
  Exec("BluetoothSetScanResponseData", "+UBTASD=", <<"h">>),
  Begin("BluetoothGetScanResponseDataBegin", "+UBTASD?", <<>>, "+UBTASD:", <<"h">>),
  Exec("BluetoothClearScanResponseData", "+UBTASDC", <<>>),
  Exec("BluetoothLegacyAdvertisementStart", "+UBTAL", <<>>),
  Exec("BluetoothLegacyAdvertisementStartWithMaxConnection", "+UBTAL=", <<"d">>),
  Exec("BluetoothLegacyAdvertisementStop", "+UBTALD", <<>>),
  Exec("BluetoothDirectedAdvertisementStart1", "+UBTAD=", <<"b">>),
  Exec("BluetoothDirectedAdvertisementStart2", "+UBTAD=", <<"b", "d">>),
  Exec("BluetoothDirectedAdvertisementStop", "+UBTADD", <<>>)}

Bluetooth4 == {
  Exec("BluetoothSetConnectionIntervalMin", "+UBTCS0=", <<"d">>),
  Query("BluetoothGetConnectionIntervalMin", "+UBTCS0?", <<>>, "+UBTCS0:", <<"d">>),
  Exec("BluetoothSetConnectionIntervalMax", "+UBTCS1=", <<"d">>),
  Query("BluetoothGetConnectionIntervalMax", "+UBTCS1?", <<>>, "+UBTCS1:", <<"d">>),
  Exec("BluetoothSetConnectionPeripheralLatency", "+UBTCS2=", <<"d">>),
  Query("BluetoothGetConnectionPeripheralLatency", "+UBTCS2?", <<>>, "+UBTCS2:", <<"d">>),
  Exec("BluetoothSetConnectionLinklossTimeout", "+UBTCS3=", <<"d">>),
  Query("BluetoothGetConnectionLinklossTimeout", "+UBTCS3?", <<>>, "+UBTCS3:", <<"d">>),
  Exec("BluetoothSetPreferredTxPhy", "+UBTCS4=", <<"d">>),
  Query("BluetoothGetPreferredTxPhy", "+UBTCS4?", <<>>, "+UBTCS4:", <<"d">>),
  Exec("BluetoothSetPreferredRxPhy", "+UBTCS5=", <<"d">>),
  Query("BluetoothGetPreferredRxPhy", "+UBTCS5?", <<>>, "+UBTCS5:", <<"d">>),
  Exec("BluetoothSetLegacyAdvertisementConfig", "+UBTALS=", <<"d", "d">>)}

Bluetooth5 == {
  Query("BluetoothGetLegacyAdvertisementConfig", "+UBTALS?", <<>>, "+UBTALS:", <<"d", "d">>),
  Exec("BluetoothSetScanInterval", "+UBTSS0=", <<"d">>),
  Query("BluetoothGetScanInterval", "+UBTSS0?", <<>>, "+UBTSS0:", <<"d">>),
  Exec("BluetoothSetScanWindow", "+UBTSS1=", <<"d">>),
  Query("BluetoothGetScanWindow", "+UBTSS1?", <<>>, "+UBTSS1:", <<"d">>),
  Exec("BluetoothSetConnectToDirectedAdv", "+UBTSS2=", <<"d">>),
  Query("BluetoothGetConnectToDirectedAdv", "+UBTSS2?", <<>>, "+UBTSS2:", <<"d">>),
  Exec("BluetoothSetIoCapabilities", "+UBTIOC=", <<"d">>),
  Query("BluetoothGetIoCapabilities", "+UBTIOC?", <<>>, "+UBTIOC:", <<"d">>),
  Exec("BluetoothSetSecurityMode", "+UBTBSM=", <<"d">>),
  Query("BluetoothGetSecurityMode", "+UBTBSM?", <<>>, "+UBTBSM:", <<"d">>),
  Exec("BluetoothSetPairingMode", "+UBTPM=", <<"d">>),
  Query("BluetoothGetPairingMode", "+UBTPM?", <<>>, "+UBTPM:", <<"d">>)}

Bluetooth6 == {
  Exec("BluetoothUserConfirmation", "+UBTUC=", <<"b", "d">>),
  Exec("BluetoothUserPasskeyEntry2", "+UBTUPE=", <<"b", "d">>),
  Exec("BluetoothUserPasskeyEntry3", "+UBTUPE=", <<"b", "d", "d">>),
  Exec("BluetoothBond", "+UBTB=", <<"b">>),
  Exec("BluetoothUnbond", "+UBTUB=", <<"b">>),
  Exec("BluetoothUnbondAll", "+UBTUB", <<>>),
  List("BluetoothListBondedDevices", "+UBTBDL", <<>>),
  GetNext("BluetoothListBondedDevices", "+UBTBDL:", <<"b">>),
  Exec("BluetoothSetDeviceInfoServiceChar", "+UBTDIS=", <<"d", "s">>),
  Begin("BluetoothGetDeviceInfoServiceCharBegin", "+UBTDIS=", <<"d">>, "+UBTDIS:", <<"-",
      "s">>),
  List("BluetoothListDeviceInfoServiceChars", "+UBTDIS?", <<>>),
  GetNext("BluetoothListDeviceInfoServiceChars", "+UBTDIS:", <<"d", "s">>),
  Exec("BluetoothRequestPhy", "+UBTPHYR=", <<"d", "d", "d">>),
  Query("BluetoothGetPhy", "+UBTPHYR=", <<"d">>, "+UBTPHYR:", <<"-", "d", "d">>),
  Exec("BluetoothSetMaxOutputPower", "+UBTMOP=", <<"d">>),
  Query("BluetoothGetMaxOutputPower", "+UBTMOP?", <<>>, "+UBTMOP:", <<"d">>),
  Exec("BluetoothClearMaxOutputPower", "+UBTMOPC", <<>>),
  Register("BluetoothRegisterConnect", "UEBTC"),
  Register("BluetoothRegisterDisconnect", "UEBTDC"),
  Register("BluetoothRegisterBondStatus", "UEBTB"),
  Register("BluetoothRegisterUserConfirmation", "UEBTUC")}

Bluetooth7 == {
  Register("BluetoothRegisterPasskeyEntry", "UEBTUPD"),
  Register("BluetoothRegisterPasskeyRequest", "UEBTUPE"),
  Register("BluetoothRegisterPhyUpdate", "UEBTPHYU"),
  Register("BluetoothRegisterBackgroundDiscovery", "UEBTBGD")}

\* u_cx_channel_sounding.c
ChannelSounding == {
  Exec("ChannelSoundingSetChannelSoundingMode", "+UBTCSM=", <<"d">>),
  Query("ChannelSoundingGetChannelSoundingMode", "+UBTCSM?", <<>>, "+UBTCSM:", <<"d">>),
  Register("ChannelSoundingRegisterCsStatus", "UEBTCSS")}

\* u_cx_gatt_client.c
GattClient == {
  List("GattClientDiscoverPrimaryServices", "+UBTGPSD=", <<"d">>),
  GetNext("GattClientDiscoverPrimaryServices", "+UBTGPSD:", <<"-", "d", "d", "h">>),
  List("GattClientDiscoverPrimaryServicesByUuid", "+UBTGPSDU=", <<"d", "h">>),
  GetNext("GattClientDiscoverPrimaryServicesByUuid", "+UBTGPSDU:", <<"-", "d", "d">>),
  List("GattClientDiscoverServiceChars", "+UBTGSCD=", <<"d", "d", "d">>),
  GetNext("GattClientDiscoverServiceChars", "+UBTGSCD:", <<"-", "d", "h", "d", "h">>),
  List("GattClientDiscoverCharDescriptors", "+UBTGCDD=", <<"d", "d", "d">>),
  GetNext("GattClientDiscoverCharDescriptors", "+UBTGCDD:", <<"-", "d", "d", "h">>),
  Begin("GattClientReadBegin", "+UBTGR=", <<"d", "d">>, "+UBTGR:", <<"-", "-", "h">>),
  Begin("GattClientReadByUuidBegin", "+UBTGRU=", <<"d", "d", "d", "h">>, "+UBTGRU:", <<"-",
      "d", "h">>),
  Exec("GattClientWrite", "+UBTGW=", <<"d", "d", "h">>),
  Exec("GattClientConfigWrite", "+UBTGCCW=", <<"d", "d", "d">>),
  Exec("GattClientWriteNoRsp", "+UBTGWNR=", <<"d", "d", "h">>),
  Exec("GattClientWriteLong", "+UBTGWL=", <<"d", "d", "h", "d", "d", "d">>),
  Register("GattClientRegisterNotification", "UEBTGCN"),
  Register("GattClientRegisterIndication", "UEBTGCI")}

\* u_cx_gatt_server.c
GattServer1 == {
  Query("GattServerServiceDefine", "+UBTGS=", <<"h">>, "+UBTGS:", <<"d">>),
  Query("GattServerCharDefine5", "+UBTGC=", <<"h", "h", "d", "d", "h">>, "+UBTGC:", <<"d",
      "d">>),
  Query("GattServerCharDefine6", "+UBTGC=", <<"h", "h", "d", "d", "h", "d">>, "+UBTGC:",
      <<"d", "d">>),
  Query("GattServerHostCharDefine", "+UBTGHCC=", <<"h", "h", "d", "d">>, "+UBTGHCC:", <<"d",
      "d">>),
  Query("GattServerDescriptorDefine4", "+UBTGD=", <<"h", "d", "d", "h">>, "+UBTGD:", <<"d">>),
  Query("GattServerDescriptorDefine5", "+UBTGD=", <<"h", "d", "d", "h", "d">>, "+UBTGD:",
      <<"d">>),
  Exec("GattServerServiceActivate", "+UBTGSA", <<>>),
  Exec("GattServerReadReqResponse", "+UBTGRRR=", <<"d", "h">>),
  Exec("GattServerSendNotification", "+UBTGNS=", <<"d", "d", "h">>),
  Exec("GattServerSendIndication", "+UBTGIS=", <<"d", "d", "h">>),
  Exec("GattServerSetAttrValue", "+UBTGAV=", <<"d", "h">>),
  Exec("GattServerReadReqError", "+UBTGRRRE=", <<"d", "h">>),
  Exec("GattServerWriteReqError", "+UBTGWRE=", <<"d", "h">>),
  Exec("GattServerWriteReqResponse", "+UBTGWRR=", <<"d">>),
  Register("GattServerRegisterNotification", "UEBTGCW")}

GattServer2 == {
  Register("GattServerRegisterReadAttribute", "UEBTGRR"),
  Register("GattServerRegisterIndicationAck", "UEBTGIC")}

\* u_cx_general.c
General == {
  Exec("GeneralAttention", "", <<>>),
  Begin("GeneralGetManufacturerIdentificationBegin", "+GMI", <<>>, "", <<"s">>),
  Begin("GeneralGetDeviceModelIdentificationBegin", "+GMM", <<>>, "", <<"s">>),
  Begin("GeneralGetSoftwareVersionBegin", "+GMR", <<>>, "", <<"s">>),
  Begin("GeneralGetSerialNumberBegin", "+GSN", <<>>, "", <<"s">>),
  Begin("GeneralGetIdentInfoBegin", "I9", <<>>, "", <<"s", "s">>),
  Begin("GeneralGetTypeCodeBegin", "I0", <<>>, "", <<"s">>),
  Exec("GeneralSetGreetingText1", "+CSGT=", <<"d">>),
  Exec("GeneralSetGreetingText2", "+CSGT=", <<"d", "s">>),
  Begin("GeneralGetGreetingTextBegin", "+CSGT?", <<>>, "+CSGT:", <<"d", "s">>),
  Register("GeneralRegisterStartup", "STARTUP")}

\* u_cx_power.c
Power == {
  Exec("PowerDeepSleepWithGpioWakeup", "+UPMDS", <<>>),
  Exec("PowerDeepSleep", "+UPMDS=", <<"d">>),
  Exec("PowerSleep", "+UPMS", <<>>)}

\* u_cx_sps.c
Sps == {
  Exec("SpsConnect1", "+USPSC=", <<"d">>),
  Exec("SpsConnect2", "+USPSC=", <<"d", "d">>),
  Exec("SpsSetServiceEnable", "+USPS=", <<"d">>),
  Query("SpsGetServiceEnable", "+USPS?", <<>>, "+USPS:", <<"d">>),
  Value("SpsWrite", "+USPSWB=", <<"d", "B">>, "+USPSWB:", <<"-", "d">>),
  Exec("SpsSetDataMode", "+USPSRM=", <<"d">>),
  Query("SpsGetDataMode", "+USPSRM?", <<>>, "+USPSRM:", <<"d">>),
  Read("SpsRead", "+USPSRB=", <<"d", "d">>, "+USPSRB:", <<"-">>),
  Register("SpsRegisterConnect", "UESPSC"),
  Register("SpsRegisterDisconnect", "UESPSDC"),
  Register("SpsRegisterDataAvailable", "UESPSDA")}

\* u_cx_system.c
System1 == {
  Exec("SystemReboot", "+CPWROFF", <<>>),
  Exec("SystemStartSerialFirmwareUpdate1", "+USYFWUS=", <<"d">>),
  Exec("SystemStartSerialFirmwareUpdate2", "+USYFWUS=", <<"d", "d">>),
  Exec("SystemStartSerialFirmwareUpdateDefault", "+USYFWUS", <<>>),
  Exec("SystemStartBootLoader1", "+USYBL=", <<"d">>),
  Exec("SystemStartBootLoader2", "+USYBL=", <<"d", "d">>),
  Exec("SystemStartBootLoaderDefault", "+USYBL", <<>>),
  Exec("SystemStoreConfiguration", "&W", <<>>),
  Query("SystemGetLocalAddress", "+USYLA=", <<"d">>, "+USYLA:", <<"m">>),
  Exec("SystemSetLocalAddress", "+USYLA=", <<"d", "m">>),
  Exec("SystemFactoryReset", "+USYFR", <<>>),
  Exec("SystemDefaultSettings", "+USYDS", <<>>),
  Exec("SystemSetUartSettings1", "+USYUS=", <<"d">>),
  Exec("SystemSetUartSettings2", "+USYUS=", <<"d", "d">>),
  Exec("SystemSetUartSettings3", "+USYUS=", <<"d", "d", "d">>),
  Query("SystemGetUartSettings", "+USYUS?", <<>>, "+USYUS:", <<"d", "d">>),
  Query("SystemGetLastErrorCode", "+USYEC?", <<>>, "+USYEC:", <<"d">>),
  Exec("SystemSetExtendedError", "+USYEE=", <<"d">>)}

System2 == {
  Query("SystemGetExtendedError", "+USYEE?", <<>>, "+USYEE:", <<"d">>),
  Exec("SystemSetEchoOff", "E0", <<>>),
  Exec("SystemSetEchoOn", "E1", <<>>),
  Query("SystemGetEcho", "E?", <<>>, "", <<"d">>),
  Exec("SystemSetEscSequenceChar", "S2=", <<"d">>),
  Query("SystemGetEscSequenceChar", "S2?", <<>>, "", <<"d">>),
  Exec("SystemSetLineTermChar", "S3=", <<"d">>),
  Query("SystemGetLineTermChar", "S3?", <<>>, "", <<"d">>),
  Exec("SystemSetRspFormatChar", "S4=", <<"d">>),
  Query("SystemGetRspFormatChar", "S4?", <<>>, "", <<"d">>),
  Exec("SystemSetBackspaceChar", "S5=", <<"d">>),
  Query("SystemGetBackspaceChar", "S5?", <<>>, "", <<"d">>),
  Exec("SystemSetEscSequenceSettings", "+UTMES=", <<"d", "d", "d">>)}

System3 == {
  Query("SystemGetEscSequenceSettings", "+UTMES?", <<>>, "+UTMES:", <<"d", "d", "d">>),
  Query("SystemGetChipDieTemp", "+USCT?", <<>>, "+USCT:", <<"d">>)}

Calls == UNION {Bluetooth1, Bluetooth2, Bluetooth3, Bluetooth4, Bluetooth5, Bluetooth6,
    Bluetooth7, ChannelSounding, GattClient, GattServer1, GattServer2, General, Power, Sps,
    System1, System2, System3}

\* u_cx_urc.c: what parses a URC, and the callback it ends in.
Urcs1 == {
  Urc("STARTUP", <<>>, "STARTUP"),
  Urc("UEBTC", <<"d", "b">>, "UEBTC"),
  Urc("UEBTDC", <<"d">>, "UEBTDC"),
  Urc("UEBTB", <<"b", "d">>, "UEBTB"),
  Urc("UEBTUC", <<"b", "d">>, "UEBTUC"),
  Urc("UEBTUPD", <<"b", "d">>, "UEBTUPD"),
  Urc("UEBTUPE", <<"b">>, "UEBTUPE"),
  Urc("UEBTPHYU", <<"d", "d", "d", "d">>, "UEBTPHYU"),
  Urc("UEBTBGD", <<"b", "d", "s", "d", "h">>, "UEBTBGD"),
  Urc("UEBTCSS", <<"d", "d", "d">>, "UEBTCSS"),
  Urc("UEBTGCN", <<"d", "d", "h">>, "UEBTGCN"),
  Urc("UEBTGCI", <<"d", "d", "h">>, "UEBTGCI")}

Urcs2 == {
  Urc("UEBTGCW", <<"d", "d", "h", "d">>, "UEBTGCW"),
  Urc("UEBTGRR", <<"d", "d">>, "UEBTGRR"),
  Urc("UEBTGIC", <<"d", "d">>, "UEBTGIC"),
  Urc("UESPSC", <<"d">>, "UESPSC"),
  Urc("UESPSDC", <<"d">>, "UESPSDC"),
  Urc("UESPSDS", <<"d", "$">>, "UESPSDS"),
  Urc("UESPSDB", <<"d">>, "UESPSDB"),
  Urc("UESPSDA", <<"d", "d">>, "UESPSDA")}

Urcs == Urcs1 \union Urcs2

\* uCxUrcParse(): which parser the name of a URC leads to.
UrcParser ==
  [STARTUP |-> "STARTUP", UEBTC |-> "UEBTC", UEBTDC |-> "UEBTDC", UEBTB |-> "UEBTB",
    UEBTUC |-> "UEBTUC", UEBTUPD |-> "UEBTUPD", UEBTUPE |-> "UEBTUPE",
    UEBTPHYU |-> "UEBTPHYU", UEBTBGD |-> "UEBTBGD", UEBTCSS |-> "UEBTCSS",
    UEBTGCN |-> "UEBTGCN", UEBTGCI |-> "UEBTGCI", UEBTGCW |-> "UEBTGCW",
    UEBTGRR |-> "UEBTGRR", UEBTGIC |-> "UEBTGIC", UESPSC |-> "UESPSC", UESPSDC |-> "UESPSDC",
    UESPSDS |-> "UESPSDS", UESPSDB |-> "UESPSDB", UESPSDA |-> "UESPSDA"]

=============================================================================
