----------------------------- MODULE CallsW36X -----------------------------
(*****************************************************************************)
(* The functions of the generated command API of the NORA-W36X as its .c     *)
(* files have them: the client calls that a function makes, the AT command,  *)
(* the format of its parameters, the response prefix and the format that the *)
(* response is parsed with.  uCx is left out of the names, and Begin and     *)
(* GetNext where a list has both; AT is left out of the commands.            *)
(*****************************************************************************)
EXTENDS ApiForms

\* u_cx_bluetooth.c
Bluetooth1 == {
  Exec("BluetoothSetMode", "+UBTM=", <<"d">>),
  Query("BluetoothGetMode", "+UBTM?", <<>>, "+UBTM:", <<"d">>),
  Exec("BluetoothConnect", "+UBTC=", <<"b">>),
  Exec("BluetoothDisconnect", "+UBTDC=", <<"d">>),
  Begin("BluetoothGetLocalNameBegin", "+UBTLN?", <<>>, "+UBTLN:", <<"s">>),
  Exec("BluetoothSetLocalName", "+UBTLN=", <<"s">>),
  List("BluetoothDiscoveryDefault", "+UBTD", <<>>),
  GetNext("BluetoothDiscoveryDefault", "+UBTD:", <<"b", "d", "s", "d", "h">>),
  List("BluetoothDiscovery1", "+UBTD=", <<"d">>),
  GetNext("BluetoothDiscovery1", "+UBTD:", <<"b", "d", "s", "d", "h">>),
  List("BluetoothDiscovery2", "+UBTD=", <<"d", "d">>),
  GetNext("BluetoothDiscovery2", "+UBTD:", <<"b", "d", "s", "d", "h">>),
  List("BluetoothDiscovery3", "+UBTD=", <<"d", "d", "d">>),
  GetNext("BluetoothDiscovery3", "+UBTD:", <<"b", "d", "s", "d", "h">>),
  Exec("BluetoothBgDiscoveryDefaultStart", "+UBTBGD", <<>>),
  Exec("BluetoothBgDiscoveryStart1", "+UBTBGD=", <<"d">>),
  Exec("BluetoothBgDiscoveryStart2", "+UBTBGD=", <<"d", "d">>),
  Exec("BluetoothBgDiscoveryStart3", "+UBTBGD=", <<"d", "d", "d">>)}

Bluetooth2 == {
  VariantQuery("BluetoothBgDiscoveryGet", "+UBTBGD?", <<>>, "+UBTBGD:", <<"d">>, {Case({0},
      <<"d">>), Case({1}, <<"d", "d", "d", "d", "d">>)}),
  Exec("BluetoothBgDiscoveryStop", "+UBTBGDS", <<>>),
  Exec("BluetoothSetDiscoveryDataFilter", "+UBTDFD=", <<"d", "d", "h">>),
  Begin("BluetoothGetDiscoveryDataFilterBegin", "+UBTDFD=", <<"d">>, "+UBTDFD:", <<"-", "d",
      "h">>),
  List("BluetoothListDiscoveryDataFilters", "+UBTDFD?", <<>>),
  GetNext("BluetoothListDiscoveryDataFilters", "+UBTDFD:", <<"d", "d", "h">>),
  Query("BluetoothGetRssi", "+UBTRSS=", <<"d">>, "+UBTRSS:", <<"d">>),
  List("BluetoothListConnections", "+UBTCL", <<>>),
  GetNext("BluetoothListConnections", "+UBTCL:", <<"d", "b">>),
  List("BluetoothListConnectionStatus", "+UBTCST=", <<"d">>),
  GetNext("BluetoothListConnectionStatus", "+UBTCST:", <<"d", "d">>),
  Query("BluetoothGetConnectionStatus", "+UBTCST=", <<"d", "d">>, "+UBTCST:", <<"-", "d">>),
  Query("BluetoothGetAdvertiseInformation", "+UBTA?", <<>>, "+UBTA:", <<"d", "d", "l">>)}

Bluetooth3 == {
  Exec("BluetoothSetLegacyAdvertiseDataAndType1", "+UBTADL=", <<"h">>),
  Exec("BluetoothSetLegacyAdvertiseDataAndType2", "+UBTADL=", <<"h", "d">>),
  Begin("BluetoothGetLegacyAdvertiseDataAndTypeBegin", "+UBTADL?", <<>>, "+UBTADL:", <<"h",
      "d">>),
  Exec("BluetoothClearLegacyAdvertiseData", "+UBTADLC", <<>>),
  Exec("BluetoothSetScanResponseData", "+UBTASD=", <<"h">>),
  Begin("BluetoothGetScanResponseDataBegin", "+UBTASD?", <<>>, "+UBTASD:", <<"h">>),
  Exec("BluetoothClearScanResponseData", "+UBTASDC", <<>>),
  Exec("BluetoothLegacyAdvertisementStart", "+UBTAL", <<>>),
  Exec("BluetoothLegacyAdvertisementStop", "+UBTALD", <<>>),
  Exec("BluetoothDirectedAdvertisementStart1", "+UBTAD=", <<"b">>),
  Exec("BluetoothDirectedAdvertisementStart2", "+UBTAD=", <<"b", "d">>),
  Exec("BluetoothDirectedAdvertisementStop", "+UBTADD", <<>>),
  Exec("BluetoothSetConnectionIntervalMin", "+UBTCS0=", <<"d">>),
  Query("BluetoothGetConnectionIntervalMin", "+UBTCS0?", <<>>, "+UBTCS0:", <<"d">>),
  Exec("BluetoothSetConnectionIntervalMax", "+UBTCS1=", <<"d">>),
  Query("BluetoothGetConnectionIntervalMax", "+UBTCS1?", <<>>, "+UBTCS1:", <<"d">>),
  Exec("BluetoothSetConnectionPeripheralLatency", "+UBTCS2=", <<"d">>),
  Query("BluetoothGetConnectionPeripheralLatency", "+UBTCS2?", <<>>, "+UBTCS2:", <<"d">>),
  Exec("BluetoothSetConnectionLinklossTimeout", "+UBTCS3=", <<"d">>)}

Bluetooth4 == {
  Query("BluetoothGetConnectionLinklossTimeout", "+UBTCS3?", <<>>, "+UBTCS3:", <<"d">>),
  Exec("BluetoothSetPreferredTxPhy", "+UBTCS4=", <<"d">>),
  Query("BluetoothGetPreferredTxPhy", "+UBTCS4?", <<>>, "+UBTCS4:", <<"d">>),
  Exec("BluetoothSetPreferredRxPhy", "+UBTCS5=", <<"d">>),
  Query("BluetoothGetPreferredRxPhy", "+UBTCS5?", <<>>, "+UBTCS5:", <<"d">>),
  Exec("BluetoothSetLegacyAdvertisementConfig", "+UBTALS=", <<"d", "d">>),
  Query("BluetoothGetLegacyAdvertisementConfig", "+UBTALS?", <<>>, "+UBTALS:", <<"d", "d">>),
  Exec("BluetoothSetScanInterval", "+UBTSS0=", <<"d">>),
  Query("BluetoothGetScanInterval", "+UBTSS0?", <<>>, "+UBTSS0:", <<"d">>),
  Exec("BluetoothSetScanWindow", "+UBTSS1=", <<"d">>),
  Query("BluetoothGetScanWindow", "+UBTSS1?", <<>>, "+UBTSS1:", <<"d">>),
  Exec("BluetoothSetConnectToDirectedAdv", "+UBTSS2=", <<"d">>),
  Query("BluetoothGetConnectToDirectedAdv", "+UBTSS2?", <<>>, "+UBTSS2:", <<"d">>)}

Bluetooth5 == {
  Exec("BluetoothSetIoCapabilities", "+UBTIOC=", <<"d">>),
  Query("BluetoothGetIoCapabilities", "+UBTIOC?", <<>>, "+UBTIOC:", <<"d">>),
  Exec("BluetoothSetSecurityMode", "+UBTBSM=", <<"d">>),
  Query("BluetoothGetSecurityMode", "+UBTBSM?", <<>>, "+UBTBSM:", <<"d">>),
  Exec("BluetoothSetPairingMode", "+UBTPM=", <<"d">>),
  Query("BluetoothGetPairingMode", "+UBTPM?", <<>>, "+UBTPM:", <<"d">>),
  Exec("BluetoothUserConfirmation", "+UBTUC=", <<"b", "d">>),
  Exec("BluetoothUserPasskeyEntry2", "+UBTUPE=", <<"b", "d">>),
  Exec("BluetoothUserPasskeyEntry3", "+UBTUPE=", <<"b", "d", "d">>),
  Exec("BluetoothBond", "+UBTB=", <<"b">>),
  Exec("BluetoothUnbond", "+UBTUB=", <<"b">>),
  Exec("BluetoothUnbondAll", "+UBTUB", <<>>),
  List("BluetoothListBondedDevices", "+UBTBDL", <<>>),
  GetNext("BluetoothListBondedDevices", "+UBTBDL:", <<"b">>),
  Exec("BluetoothSetDeviceInfoServiceChar", "+UBTDIS=", <<"d", "s">>),
  Begin("BluetoothGetDeviceInfoServiceCharBegin", "+UBTDIS=", <<"d">>, "+UBTDIS:", <<"-",
      "s">>),
  List("BluetoothListDeviceInfoServiceChars", "+UBTDIS?", <<>>),
  GetNext("BluetoothListDeviceInfoServiceChars", "+UBTDIS:", <<"d", "s">>),
  Exec("BluetoothRequestPhy", "+UBTPHYR=", <<"d", "d", "d">>)}

Bluetooth6 == {
  Query("BluetoothGetPhy", "+UBTPHYR=", <<"d">>, "+UBTPHYR:", <<"-", "d", "d">>),
  Exec("BluetoothSetMaxOutputPower", "+UBTMOP=", <<"d">>),
  Query("BluetoothGetMaxOutputPower", "+UBTMOP?", <<>>, "+UBTMOP:", <<"d">>),
  Exec("BluetoothClearMaxOutputPower", "+UBTMOPC", <<>>),
  Register("BluetoothRegisterConnect", "UEBTC"),
  Register("BluetoothRegisterDisconnect", "UEBTDC"),
  Register("BluetoothRegisterBondStatus", "UEBTB"),
  Register("BluetoothRegisterUserConfirmation", "UEBTUC"),
  Register("BluetoothRegisterPasskeyEntry", "UEBTUPD"),
  Register("BluetoothRegisterPasskeyRequest", "UEBTUPE"),
  Register("BluetoothRegisterPhyUpdate", "UEBTPHYU"),
  Register("BluetoothRegisterBackgroundDiscovery", "UEBTBGD")}

\* u_cx_diagnostics.c
Diagnostics == {
  Exec("DiagnosticsPing1", "+UDGP=", <<"s">>),
  Exec("DiagnosticsPing2", "+UDGP=", <<"s", "d">>),
  Exec("DiagnosticsPingStop", "+UDGSP", <<>>),
  Exec("DiagnosticsIperf2", "+UDGI=", <<"d", "d">>),
  Exec("DiagnosticsIperf5", "+UDGI=", <<"d", "d", "d", "d", "d">>),
  Exec("DiagnosticsIperf7", "+UDGI=", <<"d", "d", "d", "d", "d", "d", "i">>),
  Exec("DiagnosticsIperf8", "+UDGI=", <<"d", "d", "d", "d", "d", "d", "i", "d">>),
  Exec("DiagnosticsIperf9", "+UDGI=", <<"d", "d", "d", "d", "d", "d", "i", "d", "d">>),
  Exec("DiagnosticsIperf10", "+UDGI=", <<"d", "d", "d", "d", "d", "d", "i", "d", "d", "d">>),
  Register("DiagnosticsRegisterPingComplete", "UEDGPC"),
  Register("DiagnosticsRegisterPingResponse", "UEDGP"),
  Register("DiagnosticsRegisterIperfOutput", "UEDGI")}

\* u_cx_gatt_client.c
GattClient == {
  List("GattClientDiscoverPrimaryServices", "+UBTGPSD=", <<"d">>),
  GetNext("GattClientDiscoverPrimaryServices", "+UBTGPSD:", <<"-", "d", "d", "h">>),
  List("GattClientDiscoverPrimaryServicesByUuid", "+UBTGPSDU=", <<"d", "h">>),
  GetNext("GattClientDiscoverPrimaryServicesByUuid", "+UBTGPSDU:", <<"-", "d", "d">>),
  List("GattClientDiscoverServiceChars", "+UBTGSCD=", <<"d", "d", "d">>),
  GetNext("GattClientDiscoverServiceChars", "+UBTGSCD:", <<"-", "d", "h", "d", "h">>),
  List("GattClientDiscoverCharDescriptors", "+UBTGCDD=", <<"d", "d", "d">>),
  GetNext("GattClientDiscoverCharDescriptors", "+UBTGCDD:", <<"-", "d", "d", "h">>),
  Begin("GattClientReadBegin", "+UBTGR=", <<"d", "d">>, "+UBTGR:", <<"-", "-", "h">>),
  Begin("GattClientReadByUuidBegin", "+UBTGRU=", <<"d", "d", "d", "h">>, "+UBTGRU:", <<"-",
      "d", "h">>),
  Exec("GattClientWrite", "+UBTGW=", <<"d", "d", "h">>),
  Exec("GattClientConfigWrite", "+UBTGCCW=", <<"d", "d", "d">>),
  Exec("GattClientWriteNoRsp", "+UBTGWNR=", <<"d", "d", "h">>),
  Exec("GattClientWriteLong", "+UBTGWL=", <<"d", "d", "h", "d", "d", "d">>),
  Register("GattClientRegisterNotification", "UEBTGCN"),
  Register("GattClientRegisterIndication", "UEBTGCI")}

\* u_cx_gatt_server.c
GattServer1 == {
  Query("GattServerServiceDefine", "+UBTGS=", <<"h">>, "+UBTGS:", <<"d">>),
  Query("GattServerCharDefine5", "+UBTGC=", <<"h", "h", "d", "d", "h">>, "+UBTGC:", <<"d",
      "d">>),
  Query("GattServerCharDefine6", "+UBTGC=", <<"h", "h", "d", "d", "h", "d">>, "+UBTGC:",
      <<"d", "d">>),
  Query("GattServerHostCharDefine", "+UBTGHCC=", <<"h", "h", "d", "d">>, "+UBTGHCC:", <<"d",
      "d">>),
  Query("GattServerDescriptorDefine4", "+UBTGD=", <<"h", "d", "d", "h">>, "+UBTGD:", <<"d">>),
  Query("GattServerDescriptorDefine5", "+UBTGD=", <<"h", "d", "d", "h", "d">>, "+UBTGD:",
      <<"d">>),
  Exec("GattServerServiceActivate", "+UBTGSA", <<>>),
  Exec("GattServerReadReqResponse", "+UBTGRRR=", <<"d", "h">>),
  Exec("GattServerSendNotification", "+UBTGNS=", <<"d", "d", "h">>),
  Exec("GattServerSendIndication", "+UBTGIS=", <<"d", "d", "h">>),
  Exec("GattServerSetAttrValue", "+UBTGAV=", <<"d", "h">>),
  Exec("GattServerReadReqError", "+UBTGRRRE=", <<"d", "h">>),
  Exec("GattServerWriteReqError", "+UBTGWRE=", <<"d", "h">>),
  Exec("GattServerWriteReqResponse", "+UBTGWRR=", <<"d">>),
  Exec("GattServerSendServiceChangedInd", "+UBTGSCI=", <<"d", "d", "d">>)}

GattServer2 == {
  Register("GattServerRegisterNotification", "UEBTGCW"),
  Register("GattServerRegisterReadAttribute", "UEBTGRR"),
  Register("GattServerRegisterIndicationAck", "UEBTGIC")}

\* u_cx_general.c
General == {
  Exec("GeneralAttention", "", <<>>),
  Begin("GeneralGetManufacturerIdentificationBegin", "+GMI", <<>>, "", <<"s">>),
  Begin("GeneralGetDeviceModelIdentificationBegin", "+GMM", <<>>, "", <<"s">>),
  Begin("GeneralGetSoftwareVersionBegin", "+GMR", <<>>, "", <<"s">>),
  Begin("GeneralGetSerialNumberBegin", "+GSN", <<>>, "", <<"s">>),
  Begin("GeneralGetIdentInfoBegin", "I9", <<>>, "", <<"s", "s">>),
  Begin("GeneralGetTypeCodeBegin", "I0", <<>>, "", <<"s">>),
  Exec("GeneralSetGreetingText1", "+CSGT=", <<"d">>),
  Exec("GeneralSetGreetingText2", "+CSGT=", <<"d", "s">>),
  Begin("GeneralGetGreetingTextBegin", "+CSGT?", <<>>, "+CSGT:", <<"d", "s">>),
  Register("GeneralRegisterStartup", "STARTUP")}

\* u_cx_http.c
Http1 == {
  Exec("HttpSetConnectionParams2", "+UHTCCP=", <<"d", "s">>),
  Exec("HttpSetConnectionParams3", "+UHTCCP=", <<"d", "s", "d">>),
  Exec("HttpSetTLS2", "+UHTCTLS=", <<"d", "d">>),
  Exec("HttpSetTLS3", "+UHTCTLS=", <<"d", "d", "s">>),
  Exec("HttpSetTLS5", "+UHTCTLS=", <<"d", "d", "s", "s", "s">>),
  Begin("HttpGetTLSBegin", "+UHTCTLS=", <<"d">>, "+UHTCTLS:", <<"d", "d", "s", "s", "s">>),
  Exec("HttpDisconnect", "+UHTCDC=", <<"d">>),
  Begin("HttpGetHeader1Begin", "+UHTCGH=", <<"d">>, "+UHTCGH:", <<"d", "d", "$">>),
  Begin("HttpGetHeader2Begin", "+UHTCGH=", <<"d", "d">>, "+UHTCGH:", <<"d", "d", "$">>),
  Read("HttpGetBody", "+UHTCGBB=", <<"d", "d">>, "+UHTCGBB:", <<"-", "d">>),
  Exec("HttpAddHeaderField", "+UHTCRHAF=", <<"d", "s", "s">>),
  Exec("HttpSetCustomHeader", "+UHTCRHCS=", <<"d", "s">>),
  Exec("HttpClearHeaderCustom", "+UHTCRHCC=", <<"d">>),
  Exec("HttpSetRequestPath", "+UHTCRP=", <<"d", "s">>),
  Begin("HttpGetRequestPathBegin", "+UHTCRP=", <<"d">>, "+UHTCRP:", <<"d", "s">>),
  Exec("HttpGetRequest", "+UHTCRG=", <<"d">>),
  Begin("HttpGetGetRequestHeaderBegin", "+UHTCRGH=", <<"d">>, "+UHTCRGH:", <<"d", "s">>),
  Exec("HttpDeleteRequest1", "+UHTCRD=", <<"d">>),
  Exec("HttpDeleteRequest2", "+UHTCRD=", <<"d", "$">>)}

Http2 == {
  Begin("HttpGetDeleteRequestHeaderBegin", "+UHTCRDH=", <<"d">>, "+UHTCRDH:", <<"d", "s">>),
  Value("HttpPostRequest", "+UHTCRPOB=", <<"d", "B">>, "+UHTCRPOB:", <<"-", "d">>),
  Begin("HttpGetPostRequestHeaderBegin", "+UHTCRPOH=", <<"d">>, "+UHTCRPOH:", <<"d", "s">>),
  Value("HttpPutRequest", "+UHTCRPUB=", <<"d", "B">>, "+UHTCRPUB:", <<"-", "d">>),
  Begin("HttpGetPutRequestHeaderBegin", "+UHTCRPUH=", <<"d">>, "+UHTCRPUH:", <<"d", "s">>),
  Register("HttpRegisterDisconnect", "UEHTCDC"),
  Register("HttpRegisterRequestStatus", "UEHTCRS")}

\* u_cx_mdns.c
Mdns == {
  Exec("MdnsSetEnabled", "+UMDE=", <<"d">>),
  Query("MdnsGetEnabled", "+UMDE?", <<>>, "+UMDE:", <<"d">>),
  Exec("MdnsSetHostname", "+UMDHN=", <<"s">>),
  Begin("MdnsGetHostnameBegin", "+UMDHN?", <<>>, "+UMDHN:", <<"s">>),
  Query("MdnsServiceAdd3", "+UMDSA=", <<"s", "d", "d">>, "+UMDSA:", <<"d">>),
  Query("MdnsServiceAdd4", "+UMDSA=", <<"s", "d", "d", "s">>, "+UMDSA:", <<"d">>),
  Exec("MdnsServiceRemove", "+UMDSR=", <<"d">>),
  List("MdnsServiceList", "+UMDSL?", <<>>),
  GetNext("MdnsServiceList", "+UMDSL:", <<"d", "s", "d", "d", "s">>),
  Exec("MdnsTxtRecordAdd", "+UMDTRA=", <<"d", "s", "s">>),
  Exec("MdnsTxtRecordRemove", "+UMDTRR=", <<"d", "s">>),
  List("MdnsTxtRecordList", "+UMDTRL=", <<"d">>),
  GetNext("MdnsTxtRecordList", "+UMDTRL:", <<"d", "s", "s">>),
  Exec("MdnsTxtRecordClear", "+UMDTRC=", <<"d">>),
  Register("MdnsRegisterMdnsUp", "UEMDU"),
  Register("MdnsRegisterMdnsDown", "UEMDD")}

\* u_cx_mqtt.c
Mqtt1 == {
  Exec("MqttSetConnectionParams3", "+UMQCP=", <<"d", "s", "d">>),
  Exec("MqttSetConnectionParams4", "+UMQCP=", <<"d", "s", "d", "s">>),
  Exec("MqttSetConnectionParams5", "+UMQCP=", <<"d", "s", "d", "s", "s">>),
  Exec("MqttSetConnectionParams6", "+UMQCP=", <<"d", "s", "d", "s", "s", "s">>),
  Begin("MqttGetConnectionParamsBegin", "+UMQCP=", <<"d">>, "+UMQCP:", <<"-", "s", "d", "s",
      "s">>),
  Exec("MqttConnect", "+UMQC=", <<"d">>),
  Exec("MqttSetKeepAlive", "+UMQKA=", <<"d", "d">>),
  Query("MqttGetKeepAlive", "+UMQKA=", <<"d">>, "+UMQKA:", <<"-", "d">>),
  Exec("MqttSetLastWillAndTestament3", "+UMQLWT=", <<"d", "s", "s">>),
  Exec("MqttSetLastWillAndTestament4", "+UMQLWT=", <<"d", "s", "s", "d">>),
  Exec("MqttSetLastWillAndTestament5", "+UMQLWT=", <<"d", "s", "s", "d", "d">>),
  Begin("MqttGetLastWillAndTestamentBegin", "+UMQLWT=", <<"d">>, "+UMQLWT:", <<"-", "s", "s",
      "d", "d">>),
  Exec("MqttSetTLS2", "+UMQTLS=", <<"d", "d">>),
  Exec("MqttSetTLS3", "+UMQTLS=", <<"d", "d", "s">>),
  Exec("MqttSetTLS5", "+UMQTLS=", <<"d", "d", "s", "s", "s">>),
  VariantBegin("MqttGetTLSBegin", "+UMQTLS=", <<"d">>, "+UMQTLS:", <<"-", "d">>, {Case({1, 2,
      3, 4}, <<"-", "d", "s", "s", "s">>), Case({0}, <<"-", "d">>)}),
  Exec("MqttDisconnect", "+UMQDC=", <<"d">>)}

Mqtt2 == {
  Value("MqttPublish", "+UMQPB=", <<"d", "d", "d", "s", "B">>, "+UMQPB:", <<"-", "d">>),
  Exec("MqttSubscribe3", "+UMQS=", <<"d", "d", "s">>),
  Exec("MqttSubscribe4", "+UMQS=", <<"d", "d", "s", "d">>),
  BeginRead("MqttReadBegin", "+UMQRB=", <<"d">>, "+UMQRB:", <<"-", "s">>),
  Register("MqttRegisterConnect", "UEMQC"),
  Register("MqttRegisterDisconnect", "UEMQDC"),
  Register("MqttRegisterDataAvailable", "UEMQDA"),
  Register("MqttRegisterDataDropped", "UEMQDD"),
  Register("MqttRegisterPublishCompleted", "UEMQPC"),
  Register("MqttRegisterSubscribeCompleted", "UEMQSC")}

\* u_cx_network_time.c
NetworkTime == {
  Exec("NetworkTimeSetClientEnabled", "+UNTE=", <<"d">>),
  Query("NetworkTimeGetClientEnabled", "+UNTE?", <<>>, "+UNTE:", <<"d">>),
  Exec("NetworkTimeSetNtpServer", "+UNTSC=", <<"d", "s">>),
  Begin("NetworkTimeGetNtpServerBegin", "+UNTSC?", <<>>, "+UNTSC:", <<"d", "s", "i", "d">>)}

\* u_cx_power.c
Power == {
  Exec("PowerDeepSleepWithGpioWakeup", "+UPMDS", <<>>),
  Exec("PowerDeepSleep", "+UPMDS=", <<"d">>),
  Exec("PowerSetPowerSaveLevel", "+UPMPSL=", <<"d">>),
  Query("PowerGetPowerSaveLevel", "+UPMPSL?", <<>>, "+UPMPSL:", <<"d">>),
  Exec("PowerSetPowerSaveTimeout", "+UPMPSTO=", <<"d">>)}

\* u_cx_security.c
Security1 == {
  Exec("SecurityCertificateRemove", "+USECR=", <<"d", "s">>),
  Exec("SecurityCertificateRemoveAll", "+USECR", <<>>),
  Exec("SecurityCertificateUpload", "+USECUB=", <<"d", "s", "B">>),
  Exec("SecurityCertificateUploadPW", "+USECUB=", <<"d", "s", "s", "B">>),
  List("SecurityListCertificates", "+USECL?", <<>>),
  GetNext("SecurityListCertificates", "+USECL:", <<"d", "s">>),
  VariantBegin("SecurityReadAllCertificatesDetailsBegin", "+USECD=", <<"s">>, "+USECD:",
      <<"d">>, {Case({0}, <<"d", "h">>), Case({1}, <<"d", "d">>)}),
  VariantBegin("SecurityReadCertificatesDetailsBegin", "+USECD=", <<"s", "d">>, "+USECD:",
      <<"d">>, {Case({0}, <<"d", "h">>), Case({1}, <<"d", "d">>)}),
  List("SecurityListTlsExtensions", "+USETE?", <<>>),
  GetNext("SecurityListTlsExtensions", "+USETE:", <<"d", "d">>),
  Exec("SecuritySetTlsServerNameIndication", "+USETE0=", <<"d">>),
  Query("SecurityGetTlsServerNameIndication", "+USETE0?", <<>>, "+USETE0:", <<"d">>),
  Exec("SecuritySetTlsHandshakeFrag", "+USETE1=", <<"d">>)}

Security2 == {
  Query("SecurityGetTlsHandshakeFrag", "+USETE1?", <<>>, "+USETE1:", <<"d">>)}

\* u_cx_socket.c
Socket1 == {
  Query("SocketCreate1", "+USOCR=", <<"d">>, "+USOCR:", <<"d">>),
  Query("SocketCreate2", "+USOCR=", <<"d", "d">>, "+USOCR:", <<"d">>),
  Exec("SocketSetTLS2", "+USOTLS=", <<"d", "d">>),
  Exec("SocketSetTLS3", "+USOTLS=", <<"d", "d", "s">>),
  Exec("SocketSetTLS5", "+USOTLS=", <<"d", "d", "s", "s", "s">>),
  Begin("SocketGetTLSBegin", "+USOTLS=", <<"d">>, "+USOTLS:", <<"d", "d", "s", "s", "s">>),
  Exec("SocketConnect", "+USOC=", <<"d", "s", "d">>),
  Exec("SocketSetReadMode", "+USORM=", <<"d">>),
  Query("SocketGetReadMode", "+USORM?", <<>>, "+USORM:", <<"d">>),
  Value("SocketWrite", "+USOWB=", <<"d", "B">>, "+USOWB:", <<"-", "d">>),
  Exec("SocketClose", "+USOCL=", <<"d">>),
  Read("SocketRead", "+USORB=", <<"d", "d">>, "+USORB:", <<"-">>),
  Query("SocketGetLastError", "+USOE", <<>>, "+USOE:", <<"d">>)}

Socket2 == {
  Exec("SocketBind", "+USOB=", <<"d", "d">>),
  Exec("SocketListen1", "+USOL=", <<"d">>),
  Exec("SocketListen2", "+USOL=", <<"d", "d">>),
  Read("SocketReceiveFrom", "+USORFB=", <<"d", "d">>, "+USORFB:", <<"-", "i", "d">>),
  Value("SocketSendTo", "+USOSTB=", <<"d", "i", "d", "B">>, "+USOSTB:", <<"-", "d">>),
  Query("SocketGetPeerAddress", "+USOPA=", <<"d">>, "+USOPA:", <<"-", "i", "d">>),
  List("SocketListStatus", "+USOST?", <<>>),
  GetNext("SocketListStatus", "+USOST:", <<"d", "d", "d">>),
  Query("SocketGetStatus", "+USOST=", <<"d">>, "+USOST:", <<"-", "d", "d">>),
  Exec("SocketSetOption", "+USOO=", <<"d", "d", "d">>),
  Query("SocketGetOption", "+USOO=", <<"d", "d">>, "+USOO:", <<"-", "-", "d">>),
  Query("SocketGetHostByName", "+USOH=", <<"s">>, "+USOH:", <<"i">>),
  Exec("SocketMulticastGroup", "+USOMG=", <<"d", "d", "i">>)}

Socket3 == {
  Register("SocketRegisterConnect", "UESOC"),
  Register("SocketRegisterDataAvailable", "UESODA"),
  Register("SocketRegisterClosed", "UESOCL"),
  Register("SocketRegisterIncomingConnection", "UESOIC")}

\* u_cx_sps.c
Sps == {
  Exec("SpsConnect1", "+USPSC=", <<"d">>),
  Exec("SpsConnect2", "+USPSC=", <<"d", "d">>),
  Exec("SpsSetServiceEnable", "+USPS=", <<"d">>),
  Query("SpsGetServiceEnable", "+USPS?", <<>>, "+USPS:", <<"d">>),
  Value("SpsWrite", "+USPSWB=", <<"d", "B">>, "+USPSWB:", <<"-", "d">>),
  Exec("SpsSetDataMode", "+USPSRM=", <<"d">>),
  Query("SpsGetDataMode", "+USPSRM?", <<>>, "+USPSRM:", <<"d">>),
  Read("SpsRead", "+USPSRB=", <<"d", "d">>, "+USPSRB:", <<"-">>),
  Register("SpsRegisterConnect", "UESPSC"),
  Register("SpsRegisterDisconnect", "UESPSDC"),
  Register("SpsRegisterDataAvailable", "UESPSDA")}

\* u_cx_system.c
System1 == {
  Exec("SystemReboot", "+CPWROFF", <<>>),
  Exec("SystemStartSerialFirmwareUpdate1", "+USYFWUS=", <<"d">>),
  Exec("SystemStartSerialFirmwareUpdate2", "+USYFWUS=", <<"d", "d">>),
  Exec("SystemStartSerialFirmwareUpdateDefault", "+USYFWUS", <<>>),
  Exec("SystemStartBootLoader1", "+USYBL=", <<"d">>),
  Exec("SystemStartBootLoader2", "+USYBL=", <<"d", "d">>),
  Exec("SystemStartBootLoaderDefault", "+USYBL", <<>>),
  Exec("SystemStoreConfiguration", "&W", <<>>),
  Query("SystemGetLocalAddress", "+USYLA=", <<"d">>, "+USYLA:", <<"m">>),
  Exec("SystemSetLocalAddress", "+USYLA=", <<"d", "m">>),
  Exec("SystemFactoryReset", "+USYFR", <<>>),
  Exec("SystemDefaultSettings", "+USYDS", <<>>),
  Exec("SystemSetUartSettings1", "+USYUS=", <<"d">>),
  Exec("SystemSetUartSettings2", "+USYUS=", <<"d", "d">>),
  Exec("SystemSetUartSettings3", "+USYUS=", <<"d", "d", "d">>),
  Query("SystemGetUartSettings", "+USYUS?", <<>>, "+USYUS:", <<"d", "d">>),
  Query("SystemGetLastErrorCode", "+USYEC?", <<>>, "+USYEC:", <<"d">>),
  Exec("SystemSetExtendedError", "+USYEE=", <<"d">>)}

System2 == {
  Query("SystemGetExtendedError", "+USYEE?", <<>>, "+USYEE:", <<"d">>),
  Exec("SystemSetUnixTime", "+USYTU=", <<"h">>),
  Begin("SystemGetUnixTimeBegin", "+USYTU?", <<>>, "+USYTU:", <<"h">>),
  Exec("SystemSetEchoOff", "E0", <<>>),
  Exec("SystemSetEchoOn", "E1", <<>>),
  Query("SystemGetEcho", "E?", <<>>, "", <<"d">>),
  Exec("SystemSetEscSequenceChar", "S2=", <<"d">>),
  Query("SystemGetEscSequenceChar", "S2?", <<>>, "", <<"d">>),
  Exec("SystemSetLineTermChar", "S3=", <<"d">>),
  Query("SystemGetLineTermChar", "S3?", <<>>, "", <<"d">>),
  Exec("SystemSetRspFormatChar", "S4=", <<"d">>),
  Query("SystemGetRspFormatChar", "S4?", <<>>, "", <<"d">>),
  Exec("SystemSetBackspaceChar", "S5=", <<"d">>),
  Query("SystemGetBackspaceChar", "S5?", <<>>, "", <<"d">>)}

System3 == {
  Exec("SystemSetEscSequenceSettings", "+UTMES=", <<"d", "d", "d">>),
  Query("SystemGetEscSequenceSettings", "+UTMES?", <<>>, "+UTMES:", <<"d", "d", "d">>)}

\* u_cx_wifi.c
Wifi1 == {
  Exec("WifiSetHostname", "+UWHN=", <<"s">>),
  Begin("WifiGetHostnameBegin", "+UWHN?", <<>>, "+UWHN:", <<"s">>),
  Exec("WifiStationSetSecurityEnterprise5", "+UWSSE=", <<"d", "d", "s", "s", "s">>),
  Exec("WifiStationSetSecurityEnterprise6", "+UWSSE=", <<"d", "d", "s", "s", "s", "s">>),
  VariantBegin("WifiStationGetSecurityBegin", "+UWSS=", <<"d">>, "+UWSS:", <<"-", "d">>,
      {Case({1}, <<"-", "d", "d">>), Case({0}, <<"-", "d">>), Case({}, <<"-", "d", "s", "s",
      "s", "s">>), Case({2}, <<"-", "d", "d", "s", "s", "s", "s">>), Case({}, <<"-", "d", "s",
      "s">>), Case({3}, <<"-", "d", "d", "s", "s">>)}),
  Exec("WifiStationSetSecurityPeap4", "+UWSSP=", <<"d", "d", "s", "s">>),
  Exec("WifiStationSetSecurityPeap5", "+UWSSP=", <<"d", "d", "s", "s", "s">>),
  Exec("WifiStationSetSecurityWpa", "+UWSSW=", <<"d", "s", "d">>),
  Exec("WifiStationSetSecurityOpen", "+UWSSO=", <<"d">>),
  Exec("WifiStationSetConnectionParams", "+UWSCP=", <<"d", "s">>),
  Begin("WifiStationGetConnectionParamsBegin", "+UWSCP=", <<"d">>, "+UWSCP:", <<"-", "s">>),
  Exec("WifiStationSetIpConfigStatic4", "+UWSIPS=", <<"d", "i", "i", "i">>),
  Exec("WifiStationSetIpConfigStatic5", "+UWSIPS=", <<"d", "i", "i", "i", "i">>),
  Exec("WifiStationSetIpConfigStatic6", "+UWSIPS=", <<"d", "i", "i", "i", "i", "i">>),
  Exec("WifiStationSetIpConfigDhcp", "+UWSIPD=", <<"d">>)}

Wifi2 == {
  VariantQuery("WifiStationGetIpConfig", "+UWSIP=", <<"d">>, "+UWSIP:", <<"-", "d">>,
      {Case({0}, <<"-", "d">>), Case({1}, <<"-", "d", "i", "i", "i", "i", "i">>)}),
  Exec("WifiAccessPointSetIpConfigStatic3", "+UWAPIPS=", <<"i", "i", "i">>),
  Exec("WifiAccessPointSetIpConfigStatic4", "+UWAPIPS=", <<"i", "i", "i", "i">>),
  Exec("WifiAccessPointSetIpConfigStatic5", "+UWAPIPS=", <<"i", "i", "i", "i", "i">>),
  Query("WifiAccessPointGetIpConfigStatic", "+UWAPIP?", <<>>, "+UWAPIP:", <<"d", "i", "i",
      "i", "i", "i">>),
  Exec("WifiStationConnect", "+UWSC=", <<"d">>),
  Exec("WifiStationDisconnect", "+UWSDC", <<>>),
  Query("WifiStationGetNetworkStatus", "+UWSNST=", <<"d">>, "+UWSNST:", <<"-", "i">>),
  List("WifiStationListNetworkStatus", "+UWSNST?", <<>>),
  GetNext("WifiStationListNetworkStatus", "+UWSNST:", <<"d", "i">>),
  Exec("WifiSetRegulatoryDomain", "+UWRD=", <<"d">>),
  Query("WifiGetRegulatoryDomain", "+UWRD?", <<>>, "+UWRD:", <<"d">>),
  Exec("WifiSetChannelList", "+UWCL=", <<"l">>)}

Wifi3 == {
  Query("WifiGetChannelList", "+UWCL?", <<>>, "+UWCL:", <<"l">>),
  Query("WifiGetActiveChannels", "+UWAC?", <<>>, "+UWAC:", <<"l">>),
  Exec("WifiClearMaxOutputPower", "+UWMOPC", <<>>),
  List("WifiStationScanDefault", "+UWSSC", <<>>),
  GetNext("WifiStationScanDefault", "+UWSSC:", <<"m", "s", "d", "d", "d", "d", "d">>),
  List("WifiStationScan1", "+UWSSC=", <<"d">>),
  GetNext("WifiStationScan1", "+UWSSC:", <<"m", "s", "d", "d", "d", "d", "d">>),
  List("WifiStationScan2", "+UWSSC=", <<"d", "s">>),
  GetNext("WifiStationScan2", "+UWSSC:", <<"m", "s", "d", "d", "d", "d", "d">>),
  VariantBegin("WifiStationStatusBegin", "+UWSST=", <<"d">>, "+UWSST:", <<"d">>, {Case({0},
      <<"d", "s">>), Case({1}, <<"d", "m">>), Case({2, 3, 4}, <<"d", "d">>)}),
  Exec("WifiApActivate", "+UWAPA", <<>>),
  Exec("WifiApDeactivate", "+UWAPD", <<>>),
  Exec("WifiApSetConnectionParams1", "+UWAPCP=", <<"s">>),
  Exec("WifiApSetConnectionParams2", "+UWAPCP=", <<"s", "d">>)}

Wifi4 == {
  Begin("WifiApGetConnectionParamsBegin", "+UWAPCP?", <<>>, "+UWAPCP:", <<"s", "d">>),
  Exec("WifiApSetSecurityWpa1", "+UWAPSW=", <<"s">>),
  Exec("WifiApSetSecurityWpa2", "+UWAPSW=", <<"s", "d">>),
  Exec("WifiApSetSecurityOpen", "+UWAPSO", <<>>),
  VariantQuery("WifiApGetSecurity", "+UWAPS?", <<>>, "+UWAPS:", <<"d">>, {Case({1}, <<"d",
      "d">>), Case({0}, <<"d">>)}),
  List("WifiApListStations", "+UWAPCS?", <<>>),
  GetNext("WifiApListStations", "+UWAPCS:", <<"m">>),
  Query("WifiApGetNetworkStatus", "+UWAPNST=", <<"d">>, "+UWAPNST:", <<"-", "i">>),
  List("WifiApListNetworkStatus", "+UWAPNST?", <<>>),
  GetNext("WifiApListNetworkStatus", "+UWAPNST:", <<"d", "i">>),
  Exec("WifiSetWifiRoaming", "+UWSROE=", <<"d">>),
  Query("WifiGetWifiRoaming", "+UWSROE?", <<>>, "+UWSROE:", <<"d">>),
  Exec("WifiStationSetRoamingBGScanThreshold", "+UWSROS0=", <<"d">>)}

Wifi5 == {
  Query("WifiStationGetRoamingBGScanThreshold", "+UWSROS0?", <<>>, "+UWSROS0:", <<"d">>),
  Exec("WifiStationSetRoamingSwitchLimit", "+UWSROS1=", <<"d">>),
  Query("WifiStationGetRoamingSwitchLimit", "+UWSROS1?", <<>>, "+UWSROS1:", <<"d">>),
  Exec("WifiStationSetRoamingScanInterval", "+UWSROS2=", <<"d">>),
  Query("WifiStationGetRoamingScanInterval", "+UWSROS2?", <<>>, "+UWSROS2:", <<"d">>),
  Exec("WifiStationSetAggressiveRoaming", "+UWSROS3=", <<"d">>),
  Query("WifiStationGetAggressiveRoaming", "+UWSROS3?", <<>>, "+UWSROS3:", <<"d">>),
  Exec("WifiStationSetRoamingDelayMs", "+UWSROS4=", <<"d">>),
  Query("WifiStationGetRoamingDelayMs", "+UWSROS4?", <<>>, "+UWSROS4:", <<"d">>),
  Exec("WifiStationSetRoamingAllChannels", "+UWSROS5=", <<"d">>),
  Query("WifiStationGetRoamingAllChannels", "+UWSROS5?", <<>>, "+UWSROS5:", <<"d">>),
  Register("WifiRegisterLinkUp", "UEWLU"),
  Register("WifiRegisterLinkDown", "UEWLD"),
  Register("WifiRegisterStationNetworkUp", "UEWSNU"),
  Register("WifiRegisterStationNetworkDown", "UEWSND"),
  Register("WifiRegisterStationRoamingSwitchInitiated", "UEWSRSI")}

Wifi6 == {
  Register("WifiRegisterStationRoamingSwitchFailed", "UEWSRSF"),
  Register("WifiRegisterStationRoamingSwitchCompleted", "UEWSRSC"),
  Register("WifiRegisterApNetworkUp", "UEWAPNU"),
  Register("WifiRegisterApNetworkDown", "UEWAPND"),
  Register("WifiRegisterApUp", "UEWAPU"),
  Register("WifiRegisterApDown", "UEWAPD"),
  Register("WifiRegisterApStationAssociated", "UEWAPSA"),
  Register("WifiRegisterApStationDisassociated", "UEWAPSDA")}

Calls == UNION {Bluetooth1, Bluetooth2, Bluetooth3, Bluetooth4, Bluetooth5, Bluetooth6,
    Diagnostics, GattClient, GattServer1, GattServer2, General, Http1, Http2, Mdns, Mqtt1,
    Mqtt2, NetworkTime, Power, Security1, Security2, Socket1, Socket2, Socket3, Sps, System1,
    System2, System3, Wifi1, Wifi2, Wifi3, Wifi4, Wifi5, Wifi6}

\* u_cx_urc.c: what parses a URC, and the callback it ends in.
Urcs1 == {
  Urc("STARTUP", <<>>, "STARTUP"),
  Urc("UEBTC", <<"d", "b">>, "UEBTC"),
  Urc("UEBTDC", <<"d">>, "UEBTDC"),
  Urc("UEBTB", <<"b", "d">>, "UEBTB"),
  Urc("UEBTUC", <<"b", "d">>, "UEBTUC"),
  Urc("UEBTUPD", <<"b", "d">>, "UEBTUPD"),
  Urc("UEBTUPE", <<"b">>, "UEBTUPE"),
  Urc("UEBTPHYU", <<"d", "d", "d", "d">>, "UEBTPHYU"),
  Urc("UEBTBGD", <<"b", "d", "s", "d", "h">>, "UEBTBGD"),
  Urc("UEBTGCN", <<"d", "d", "h">>, "UEBTGCN"),
  Urc("UEBTGCI", <<"d", "d", "h">>, "UEBTGCI"),
  Urc("UEBTGCW", <<"d", "d", "h", "d">>, "UEBTGCW")}

Urcs2 == {
  Urc("UEBTGRR", <<"d", "d">>, "UEBTGRR"),
  Urc("UEBTGIC", <<"d", "d">>, "UEBTGIC"),
  Urc("UESPSC", <<"d">>, "UESPSC"),
  Urc("UESPSDC", <<"d">>, "UESPSDC"),
  Urc("UESPSDS", <<"d", "$">>, "UESPSDS"),
  Urc("UESPSDB", <<"d">>, "UESPSDB"),
  Urc("UESPSDA", <<"d", "d">>, "UESPSDA"),
  Urc("UEWLU", <<"d", "m", "d">>, "UEWLU"),
  Urc("UEWLD", <<"d", "d">>, "UEWLD"),
  Urc("UEWSNU", <<>>, "UEWSNU"),
  Urc("UEWSND", <<>>, "UEWSND"),
  Urc("UEWSRSI", <<>>, "UEWSRSI"),
  Urc("UEWSRSF", <<>>, "UEWSRSF")}

Urcs3 == {
  Urc("UEWSRSC", <<"d", "m", "d">>, "UEWSRSC"),
  Urc("UEWAPNU", <<>>, "UEWAPNU"),
  Urc("UEWAPND", <<>>, "UEWAPND"),
  Urc("UEWAPU", <<>>, "UEWAPU"),
  Urc("UEWAPD", <<>>, "UEWAPD"),
  Urc("UEWAPSA", <<"m">>, "UEWAPSA"),
  Urc("UEWAPSDA", <<"m">>, "UEWAPSDA"),
  Urc("UESOC", <<"d">>, "UESOC"),
  Urc("UESODA", <<"d", "d">>, "UESODA"),
  Urc("UESODS", <<"d", "$">>, "UESODS"),
  Urc("UESODSF", <<"d", "i", "d", "$">>, "UESODSF"),
  Urc("UESODB", <<"d">>, "UESODB"),
  Urc("UESODBF", <<"d", "i", "d">>, "UESODBF")}

Urcs4 == {
  Urc("UESOCL", <<"d">>, "UESOCL"),
  Urc("UESOIC", <<"d", "i", "d">>, "UESOIC"),
  Urc("UEMQC", <<"d">>, "UEMQC"),
  Urc("UEMQDC", <<"d", "d">>, "UEMQDC"),
  Urc("UEMQDA", <<"d", "d">>, "UEMQDA"),
  Urc("UEMQDD", <<"d", "d">>, "UEMQDD"),
  Urc("UEMQPC", <<"d", "d", "d">>, "UEMQPC"),
  Urc("UEMQSC", <<"d", "d">>, "UEMQSC"),
  Urc("UEHTCDC", <<"d">>, "UEHTCDC"),
  Urc("UEHTCRS", <<"d", "d", "s">>, "UEHTCRS"),
  Urc("UEMDU", <<>>, "UEMDU"),
  Urc("UEMDD", <<>>, "UEMDD")}

Urcs5 == {
  Urc("UEDGPC", <<"d", "d", "d", "d">>, "UEDGPC"),
  Urc("UEDGP", <<"d", "d">>, "UEDGP"),
  Urc("UEDGI", <<"s">>, "UEDGI")}

Urcs == Urcs1 \union Urcs2 \union Urcs3 \union Urcs4 \union Urcs5

\* uCxUrcParse(): which parser the name of a URC leads to.
UrcParser1 ==
  [STARTUP |-> "STARTUP", UEBTC |-> "UEBTC", UEBTDC |-> "UEBTDC", UEBTB |-> "UEBTB",
    UEBTUC |-> "UEBTUC", UEBTUPD |-> "UEBTUPD", UEBTUPE |-> "UEBTUPE",
    UEBTPHYU |-> "UEBTPHYU", UEBTBGD |-> "UEBTBGD", UEBTGCN |-> "UEBTGCN",
    UEBTGCI |-> "UEBTGCI", UEBTGCW |-> "UEBTGCW", UEBTGRR |-> "UEBTGRR",
    UEBTGIC |-> "UEBTGIC", UESPSC |-> "UESPSC", UESPSDC |-> "UESPSDC", UESPSDS |-> "UESPSDS",
    UESPSDB |-> "UESPSDB", UESPSDA |-> "UESPSDA", UEWLU |-> "UEWLU", UEWLD |-> "UEWLD",
    UEWSNU |-> "UEWSNU", UEWSND |-> "UEWSND", UEWSRSI |-> "UEWSRSI", UEWSRSF |-> "UEWSRSF",
    UEWSRSC |-> "UEWSRSC", UEWAPNU |-> "UEWAPNU", UEWAPND |-> "UEWAPND", UEWAPU |-> "UEWAPU",
    UEWAPD |-> "UEWAPD", UEWAPSA |-> "UEWAPSA", UEWAPSDA |-> "UEWAPSDA", UESOC |-> "UESOC",
    UESODA |-> "UESODA", UESODS |-> "UESODS", UESODSF |-> "UESODSF", UESODB |-> "UESODB",
    UESODBF |-> "UESODBF", UESOCL |-> "UESOCL", UESOIC |-> "UESOIC", UEMQC |-> "UEMQC",
    UEMQDC |-> "UEMQDC", UEMQDA |-> "UEMQDA", UEMQDD |-> "UEMQDD", UEMQPC |-> "UEMQPC",
    UEMQSC |-> "UEMQSC", UEHTCDC |-> "UEHTCDC", UEHTCRS |-> "UEHTCRS", UEMDU |-> "UEMDU",
    UEMDD |-> "UEMDD"]

UrcParser2 ==
  [UEDGPC |-> "UEDGPC", UEDGP |-> "UEDGP", UEDGI |-> "UEDGI"]

UrcParser == UrcParser1 @@ UrcParser2

=============================================================================
