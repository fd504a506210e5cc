----------------------------- MODULE RilTables -----------------------------
(***************************************************************************)
(* The dispatch tables of the IRadio 1.0 service, libril/ril_service.cpp   *)
(* with ril_commands.h and ril_unsol_commands.h: which request every       *)
(* method of RadioImpl sends and what memory it copies the arguments into, *)
(* which response function the command table has for every request, and    *)
(* what shape of payload every response and indication function accepts.   *)
(* Constant data only; RadioMethods gives it its behaviour.                *)
(***************************************************************************)
EXTENDS Integers, Sequences

(***************************************************************************)
(* What a method hands to the vendor.  blocks are the steps of copying the *)
(* arguments, in the order of the code:                                    *)
(*   array   a calloc of pointers, integers or structures                  *)
(*   str     copyHidlStringToRil: an empty string becomes NULL             *)
(*   kept    the same with allowEmpty: an empty string is allocated too    *)
(*   padded  str, and an empty one gets an unchecked one-byte calloc later *)
(*   number  an unchecked calloc                                           *)
(*   path    the SIM_IO path: str, but the bare MF "3F00" is dropped       *)
(*   mvno    convertMvnoTypeToString, which may refuse the profile         *)
(*   refuse, invalid   the method answers with an error at this point      *)
(* fmt is what clearPendingBuffer is told to free.  owner says who frees:  *)
(* the dispatcher itself after my_enqueue returns (FMT_IGNORE), the        *)
(* cleanup of my_enqueue, or one of the two by the proxy of the request.   *)
(***************************************************************************)
Payload(blocks, fmt, owner) == [blocks |-> blocks, fmt |-> fmt, owner |-> owner]

Copies(n, kind) == [b \in 1..n |-> kind]

Void == Payload(<<>>, "VOID", "cleanup")
Raw == Payload(<<>>, "IGNORE", "dispatcher")
String == Payload(<<"str">>, "STR", "proxy")
Strings(n) == Payload(<<"array">> \o Copies(n, "str"), "STRS", "proxy")
Ints == Payload(<<"array">>, "INTS", "proxy")
CallForward == Payload(<<"str">>, "CallFWST", "proxy")
IccApdu == Payload(<<"str">>, "IccAPDU", "cleanup")
ImsGsmSms == Payload(<<"array", "str", "str">>, "ImsSms", "cleanup")
Arrays(n) == Payload(Copies(n, "array"), "IGNORE", "dispatcher")
Copied(n, fmt) ==
    Payload(Copies(n, "str"), fmt, IF fmt = "IGNORE" THEN "dispatcher" ELSE "cleanup")
SimIo == Payload(<<"path", "str", "str", "str">>, "SIMIO", "cleanup")
NotSupported == Payload(<<"refuse">>, "IGNORE", "dispatcher")
InvalidArguments == Payload(<<"invalid">>, "IGNORE", "dispatcher")

-----------------------------------------------------------------------------
\* s_commands, ril_commands.h: <<request, response function, proxy>>, the row
\* of request n at index n; "none" where the response function is NULL.
s_commands == <<
    <<"GET_SIM_STATUS", "getIccCardStatus", 1>>,
    <<"ENTER_SIM_PIN", "supplyIccPinForApp", 1>>,
    <<"ENTER_SIM_PUK", "supplyIccPukForApp", 1>>,
    <<"ENTER_SIM_PIN2", "supplyIccPin2ForApp", 1>>,
    <<"ENTER_SIM_PUK2", "supplyIccPuk2ForApp", 1>>,
    <<"CHANGE_SIM_PIN", "changeIccPinForApp", 1>>,
    <<"CHANGE_SIM_PIN2", "changeIccPin2ForApp", 1>>,
    <<"ENTER_NETWORK_DEPERSONALIZATION", "supplyNetworkDepersonalization", 1>>,
    <<"GET_CURRENT_CALLS", "getCurrentCalls", 2>>, <<"DIAL", "dial", 2>>,
    <<"GET_IMSI", "getIMSIForApp", 1>>, <<"HANGUP", "hangupConnection", 4>>,
    <<"HANGUP_WAITING_OR_BACKGROUND", "hangupWaitingOrBackground", 4>>,
    <<"HANGUP_FOREGROUND_RESUME_BACKGROUND", "hangupForegroundResumeBackground", 4>>,
    <<"SWITCH_WAITING_OR_HOLDING_AND_ACTIVE", "switchWaitingOrHoldingAndActive", 4>>,
    <<"CONFERENCE", "conference", 4>>, <<"UDUB", "rejectCall", 2>>,
    <<"LAST_CALL_FAIL_CAUSE", "getLastCallFailCause", 2>>,
    <<"SIGNAL_STRENGTH", "getSignalStrength", 3>>,
    <<"VOICE_REGISTRATION_STATE", "getVoiceRegistrationState", 3>>,
    <<"DATA_REGISTRATION_STATE", "getDataRegistrationState", 3>>,
    <<"OPERATOR", "getOperator", 3>>, <<"RADIO_POWER", "setRadioPower", 1>>,
    <<"DTMF", "sendDtmf", 2>>, <<"SEND_SMS", "sendSms", 1>>,
    <<"SEND_SMS_EXPECT_MORE", "sendSMSExpectMore", 1>>,
    <<"SETUP_DATA_CALL", "setupDataCall", 5>>, <<"SIM_IO", "iccIOForApp", 1>>,
    <<"SEND_USSD", "sendUssd", 2>>, <<"CANCEL_USSD", "cancelPendingUssd", 2>>,
    <<"GET_CLIR", "getClir", 2>>, <<"SET_CLIR", "setClir", 2>>,
    <<"QUERY_CALL_FORWARD_STATUS", "getCallForwardStatus", 1>>,
    <<"SET_CALL_FORWARD", "setCallForward", 2>>,
    <<"QUERY_CALL_WAITING", "getCallWaiting", 1>>,
    <<"SET_CALL_WAITING", "setCallWaiting", 2>>,
    <<"SMS_ACKNOWLEDGE", "acknowledgeLastIncomingGsmSms", 2>>,
    <<"GET_IMEI", "none", 3>>, <<"GET_IMEISV", "none", 3>>,
    <<"ANSWER", "acceptCall", 2>>, <<"DEACTIVATE_DATA_CALL", "deactivateDataCall", 5>>,
    <<"QUERY_FACILITY_LOCK", "getFacilityLockForApp", 1>>,
    <<"SET_FACILITY_LOCK", "setFacilityLockForApp", 1>>,
    <<"CHANGE_BARRING_PASSWORD", "setBarringPassword", 2>>,
    <<"QUERY_NETWORK_SELECTION_MODE", "getNetworkSelectionMode", 3>>,
    <<"SET_NETWORK_SELECTION_AUTOMATIC", "setNetworkSelectionModeAutomatic", 3>>,
    <<"SET_NETWORK_SELECTION_MANUAL", "setNetworkSelectionModeManual", 3>>,
    <<"QUERY_AVAILABLE_NETWORKS", "getAvailableNetworks", 3>>,
    <<"DTMF_START", "startDtmf", 2>>, <<"DTMF_STOP", "stopDtmf", 2>>,
    <<"BASEBAND_VERSION", "getBasebandVersion", 3>>,
    <<"SEPARATE_CONNECTION", "separateConnection", 4>>, <<"SET_MUTE", "setMute", 2>>,
    <<"GET_MUTE", "getMute", 2>>, <<"QUERY_CLIP", "getClip", 2>>,
    <<"LAST_DATA_CALL_FAIL_CAUSE", "none", 5>>,
    <<"DATA_CALL_LIST", "getDataCallList", 5>>, <<"RESET_RADIO", "none", 1>>,
    <<"OEM_HOOK_RAW", "sendRequestRaw", 6>>,
    <<"OEM_HOOK_STRINGS", "sendRequestStrings", 3>>,
    <<"SCREEN_STATE", "sendDeviceState", 3>>,
    <<"SET_SUPP_SVC_NOTIFICATION", "setSuppServiceNotifications", 2>>,
    <<"WRITE_SMS_TO_SIM", "writeSmsToSim", 1>>,
    <<"DELETE_SMS_ON_SIM", "deleteSmsOnSim", 1>>, <<"SET_BAND_MODE", "setBandMode", 3>>,
    <<"QUERY_AVAILABLE_BAND_MODE", "getAvailableBandModes", 3>>,
    <<"STK_GET_PROFILE", "none", 1>>, <<"STK_SET_PROFILE", "none", 1>>,
    <<"STK_SEND_ENVELOPE_COMMAND", "sendEnvelope", 1>>,
    <<"STK_SEND_TERMINAL_RESPONSE", "sendTerminalResponseToSim", 1>>,
    <<"STK_HANDLE_CALL_SETUP_REQUESTED_FROM_SIM", "handleStkCallSetupRequestFromSim", 1>>,
    <<"EXPLICIT_CALL_TRANSFER", "explicitCallTransfer", 2>>,
    <<"SET_PREFERRED_NETWORK_TYPE", "setPreferredNetworkType", 1>>,
    <<"GET_PREFERRED_NETWORK_TYPE", "getPreferredNetworkType", 1>>,
    <<"GET_NEIGHBORING_CELL_IDS", "getNeighboringCids", 4>>,
    <<"SET_LOCATION_UPDATES", "setLocationUpdates", 3>>,
    <<"CDMA_SET_SUBSCRIPTION_SOURCE", "setCdmaSubscriptionSource", 3>>,
    <<"CDMA_SET_ROAMING_PREFERENCE", "setCdmaRoamingPreference", 3>>,
    <<"CDMA_QUERY_ROAMING_PREFERENCE", "getCdmaRoamingPreference", 3>>,
    <<"SET_TTY_MODE", "setTTYMode", 3>>, <<"QUERY_TTY_MODE", "getTTYMode", 3>>,
    <<"CDMA_SET_PREFERRED_VOICE_PRIVACY_MODE", "setPreferredVoicePrivacy", 2>>,
    <<"CDMA_QUERY_PREFERRED_VOICE_PRIVACY_MODE", "getPreferredVoicePrivacy", 2>>,
    <<"CDMA_FLASH", "sendCDMAFeatureCode", 2>>,
    <<"CDMA_BURST_DTMF", "sendBurstDtmf", 2>>,
    <<"CDMA_VALIDATE_AND_WRITE_AKEY", "none", 2>>,
    <<"CDMA_SEND_SMS", "sendCdmaSms", 1>>,
    <<"CDMA_SMS_ACKNOWLEDGE", "acknowledgeLastIncomingCdmaSms", 1>>,
    <<"GSM_GET_BROADCAST_SMS_CONFIG", "getGsmBroadcastConfig", 2>>,
    <<"GSM_SET_BROADCAST_SMS_CONFIG", "setGsmBroadcastConfig", 1>>,
    <<"GSM_SMS_BROADCAST_ACTIVATION", "setGsmBroadcastActivation", 1>>,
    <<"CDMA_GET_BROADCAST_SMS_CONFIG", "getCdmaBroadcastConfig", 1>>,
    <<"CDMA_SET_BROADCAST_SMS_CONFIG", "setCdmaBroadcastConfig", 1>>,
    <<"CDMA_SMS_BROADCAST_ACTIVATION", "setCdmaBroadcastActivation", 1>>,
    <<"CDMA_SUBSCRIPTION", "getCDMASubscription", 1>>,
    <<"CDMA_WRITE_SMS_TO_RUIM", "writeSmsToRuim", 1>>,
    <<"CDMA_DELETE_SMS_ON_RUIM", "deleteSmsOnRuim", 1>>,
    <<"DEVICE_IDENTITY", "getDeviceIdentity", 3>>,
    <<"EXIT_EMERGENCY_CALLBACK_MODE", "exitEmergencyCallbackMode", 2>>,
    <<"GET_SMSC_ADDRESS", "getSmscAddress", 2>>,
    <<"SET_SMSC_ADDRESS", "setSmscAddress", 2>>,
    <<"REPORT_SMS_MEMORY_STATUS", "reportSmsMemoryStatus", 1>>,
    <<"REPORT_STK_SERVICE_IS_RUNNING", "reportStkServiceIsRunning", 1>>,
    <<"CDMA_GET_SUBSCRIPTION_SOURCE", "getCdmaSubscriptionSource", 1>>,
    <<"ISIM_AUTHENTICATION", "requestIsimAuthentication", 1>>,
    <<"ACKNOWLEDGE_INCOMING_GSM_SMS_WITH_PDU", "acknowledgeIncomingGsmSmsWithPdu", 1>>,
    <<"STK_SEND_ENVELOPE_WITH_STATUS", "sendEnvelopeWithStatus", 2>>,
    <<"VOICE_RADIO_TECH", "getVoiceRadioTechnology", 3>>,
    <<"GET_CELL_INFO_LIST", "getCellInfoList", 2>>,
    <<"SET_UNSOL_CELL_INFO_LIST_RATE", "setCellInfoListRate", 3>>,
    <<"SET_INITIAL_ATTACH_APN", "setInitialAttachApn", 1>>,
    <<"IMS_REGISTRATION_STATE", "getImsRegistrationState", 3>>,
    <<"IMS_SEND_SMS", "sendImsSms", 1>>,
    <<"SIM_TRANSMIT_APDU_BASIC", "iccTransmitApduBasicChannel", 1>>,
    <<"SIM_OPEN_CHANNEL", "iccOpenLogicalChannel", 1>>,
    <<"SIM_CLOSE_CHANNEL", "iccCloseLogicalChannel", 1>>,
    <<"SIM_TRANSMIT_APDU_CHANNEL", "iccTransmitApduLogicalChannel", 1>>,
    <<"NV_READ_ITEM", "nvReadItem", 4>>, <<"NV_WRITE_ITEM", "nvWriteItem", 4>>,
    <<"NV_WRITE_CDMA_PRL", "nvWriteCdmaPrl", 4>>,
    <<"NV_RESET_CONFIG", "nvResetConfig", 4>>,
    <<"SET_UICC_SUBSCRIPTION", "setUiccSubscription", 1>>,
    <<"ALLOW_DATA", "setDataAllowed", 5>>,
    <<"GET_HARDWARE_CONFIG", "getHardwareConfig", 1>>,
    <<"SIM_AUTHENTICATION", "requestIccSimAuthentication", 3>>,
    <<"GET_DC_RT_INFO", "none", 1>>, <<"SET_DC_RT_INFO_RATE", "none", 1>>,
    <<"SET_DATA_PROFILE", "setDataProfile", 1>>, <<"SHUTDOWN", "requestShutdown", 1>>,
    <<"GET_RADIO_CAPABILITY", "getRadioCapability", 1>>,
    <<"SET_RADIO_CAPABILITY", "setRadioCapability", 1>>,
    <<"START_LCE", "startLceService", 5>>, <<"STOP_LCE", "stopLceService", 5>>,
    <<"PULL_LCEDATA", "pullLceData", 5>>,
    <<"GET_ACTIVITY_INFO", "getModemActivityInfo", 1>>,
    <<"SET_CARRIER_RESTRICTIONS", "setAllowedCarriers", 4>>,
    <<"GET_CARRIER_RESTRICTIONS", "getAllowedCarriers", 4>>,
    <<"SEND_DEVICE_STATE", "sendDeviceState", 3>>,
    <<"SET_UNSOLICITED_RESPONSE_FILTER", "setIndicationFilter", 3>>,
    <<"SET_SIM_CARD_POWER", "setSimCardPower", 1>>>>

\* The requests of mtk_ril.h that the service sends: RIL_REQUEST_VENDOR_BASE + n.
VENDOR_BASE == 2000

VendorRequests ==
    [MODEM_POWEROFF |-> VENDOR_BASE + 10, MODEM_POWERON |-> VENDOR_BASE + 28,
     RESUME_REGISTRATION |-> VENDOR_BASE + 65, SET_CALL_INDICATION |-> VENDOR_BASE + 86]

-----------------------------------------------------------------------------
(***************************************************************************)
(* The methods of RadioImpl and OemHookImpl, in the order of the file:     *)
(* <<method, request, payload>>.  A method that picks one of several       *)
(* requests or payloads has a row for each.                                *)
(***************************************************************************)
PinMethods == {
    <<"getIccCardStatus", "GET_SIM_STATUS", Void>>,
    <<"supplyIccPinForApp", "ENTER_SIM_PIN", Strings(2)>>,
    <<"supplyIccPukForApp", "ENTER_SIM_PUK", Strings(3)>>,
    <<"supplyIccPin2ForApp", "ENTER_SIM_PIN2", Strings(2)>>,
    <<"supplyIccPuk2ForApp", "ENTER_SIM_PUK2", Strings(3)>>,
    <<"changeIccPinForApp", "CHANGE_SIM_PIN", Strings(3)>>,
    <<"changeIccPin2ForApp", "CHANGE_SIM_PIN2", Strings(3)>>,
    <<"supplyNetworkDepersonalization", "ENTER_NETWORK_DEPERSONALIZATION", Strings(1)>>,
    <<"getCurrentCalls", "GET_CURRENT_CALLS", Void>>,
    <<"dial", "DIAL", Copied(2, "IGNORE")>>}

CallMethods == {
    <<"getImsiForApp", "GET_IMSI", Strings(1)>>, <<"hangup", "HANGUP", Ints>>,
    <<"hangupWaitingOrBackground", "HANGUP_WAITING_OR_BACKGROUND", Void>>,
    <<"hangupForegroundResumeBackground", "HANGUP_FOREGROUND_RESUME_BACKGROUND", Void>>,
    <<"switchWaitingOrHoldingAndActive", "SWITCH_WAITING_OR_HOLDING_AND_ACTIVE", Void>>,
    <<"conference", "CONFERENCE", Void>>, <<"rejectCall", "UDUB", Void>>,
    <<"getLastCallFailCause", "LAST_CALL_FAIL_CAUSE", Void>>,
    <<"getSignalStrength", "SIGNAL_STRENGTH", NotSupported>>,
    <<"getVoiceRegistrationState", "VOICE_REGISTRATION_STATE", Void>>,
    <<"getDataRegistrationState", "DATA_REGISTRATION_STATE", Void>>,
    <<"getOperator", "OPERATOR", Void>>, <<"setRadioPower", "RADIO_POWER", Ints>>,
    <<"sendDtmf", "DTMF", String>>, <<"sendSms", "SEND_SMS", Strings(2)>>,
    <<"sendSMSExpectMore", "SEND_SMS_EXPECT_MORE", Strings(2)>>}

SimIoMethods == { <<"iccIOForApp", "SIM_IO", SimIo>>}

SupplementaryMethods == {
    <<"sendUssd", "SEND_USSD", String>>, <<"cancelPendingUssd", "CANCEL_USSD", Void>>,
    <<"getClir", "GET_CLIR", Void>>, <<"setClir", "SET_CLIR", Ints>>,
    <<"getCallForwardStatus", "QUERY_CALL_FORWARD_STATUS", CallForward>>,
    <<"setCallForward", "SET_CALL_FORWARD", CallForward>>,
    <<"getCallWaiting", "QUERY_CALL_WAITING", Ints>>,
    <<"setCallWaiting", "SET_CALL_WAITING", Ints>>,
    <<"acknowledgeLastIncomingGsmSms", "SMS_ACKNOWLEDGE", Ints>>,
    <<"acceptCall", "ANSWER", Void>>,
    <<"deactivateDataCall", "DEACTIVATE_DATA_CALL", Strings(2)>>,
    <<"getFacilityLockForApp", "QUERY_FACILITY_LOCK", Strings(4)>>,
    <<"setFacilityLockForApp", "SET_FACILITY_LOCK", Strings(5)>>,
    <<"setBarringPassword", "CHANGE_BARRING_PASSWORD", Strings(2)>>}

NetworkMethods == {
    <<"getNetworkSelectionMode", "QUERY_NETWORK_SELECTION_MODE", Void>>,
    <<"setNetworkSelectionModeAutomatic", "SET_NETWORK_SELECTION_AUTOMATIC", Void>>,
    <<"setNetworkSelectionModeManual", "SET_NETWORK_SELECTION_MANUAL", String>>,
    <<"getAvailableNetworks", "QUERY_AVAILABLE_NETWORKS", Void>>,
    <<"startDtmf", "DTMF_START", String>>, <<"stopDtmf", "DTMF_STOP", Void>>,
    <<"getBasebandVersion", "BASEBAND_VERSION", Void>>,
    <<"separateConnection", "SEPARATE_CONNECTION", Ints>>,
    <<"setMute", "SET_MUTE", Ints>>, <<"getMute", "GET_MUTE", Void>>,
    <<"getClip", "QUERY_CLIP", Void>>, <<"getDataCallList", "DATA_CALL_LIST", Void>>,
    <<"setSuppServiceNotifications", "SET_SUPP_SVC_NOTIFICATION", Ints>>}

StkMethods == {
    <<"writeSmsToSim", "WRITE_SMS_TO_SIM", Copied(2, "WrSMSSIM")>>,
    <<"deleteSmsOnSim", "DELETE_SMS_ON_SIM", Ints>>,
    <<"setBandMode", "SET_BAND_MODE", Ints>>,
    <<"getAvailableBandModes", "QUERY_AVAILABLE_BAND_MODE", Void>>,
    <<"sendEnvelope", "STK_SEND_ENVELOPE_COMMAND", String>>,
    <<"sendTerminalResponseToSim", "STK_SEND_TERMINAL_RESPONSE", String>>,
    <<"handleStkCallSetupRequestFromSim", "STK_HANDLE_CALL_SETUP_REQUESTED_FROM_SIM", Ints>>,
    <<"explicitCallTransfer", "EXPLICIT_CALL_TRANSFER", Void>>,
    <<"setPreferredNetworkType", "SET_PREFERRED_NETWORK_TYPE", Ints>>,
    <<"getPreferredNetworkType", "GET_PREFERRED_NETWORK_TYPE", Void>>,
    <<"getNeighboringCids", "GET_NEIGHBORING_CELL_IDS", Void>>,
    <<"setLocationUpdates", "SET_LOCATION_UPDATES", Ints>>,
    <<"setCdmaSubscriptionSource", "CDMA_SET_SUBSCRIPTION_SOURCE", Ints>>,
    <<"setCdmaRoamingPreference", "CDMA_SET_ROAMING_PREFERENCE", Ints>>,
    <<"getCdmaRoamingPreference", "CDMA_QUERY_ROAMING_PREFERENCE", Void>>}

CdmaMethods == {
    <<"setTTYMode", "SET_TTY_MODE", Ints>>,
    <<"getTTYMode", "QUERY_TTY_MODE", NotSupported>>,
    <<"setPreferredVoicePrivacy", "CDMA_SET_PREFERRED_VOICE_PRIVACY_MODE", Ints>>,
    <<"getPreferredVoicePrivacy", "CDMA_QUERY_PREFERRED_VOICE_PRIVACY_MODE", Void>>,
    <<"sendCDMAFeatureCode", "CDMA_FLASH", String>>,
    <<"sendBurstDtmf", "CDMA_BURST_DTMF", Strings(3)>>,
    <<"sendCdmaSms", "CDMA_SEND_SMS", Raw>>,
    <<"acknowledgeLastIncomingCdmaSms", "CDMA_SMS_ACKNOWLEDGE", Raw>>,
    <<"getGsmBroadcastConfig", "GSM_GET_BROADCAST_SMS_CONFIG", Void>>}

BroadcastMethods == {
    <<"setGsmBroadcastConfig", "GSM_SET_BROADCAST_SMS_CONFIG", Raw>>,
    <<"setGsmBroadcastActivation", "GSM_SMS_BROADCAST_ACTIVATION", Ints>>,
    <<"getCdmaBroadcastConfig", "CDMA_GET_BROADCAST_SMS_CONFIG", Void>>,
    <<"setCdmaBroadcastConfig", "CDMA_SET_BROADCAST_SMS_CONFIG", Raw>>,
    <<"setCdmaBroadcastActivation", "CDMA_SMS_BROADCAST_ACTIVATION", Ints>>,
    <<"getCDMASubscription", "CDMA_SUBSCRIPTION", Void>>,
    <<"writeSmsToRuim", "CDMA_WRITE_SMS_TO_RUIM", Raw>>,
    <<"deleteSmsOnRuim", "CDMA_DELETE_SMS_ON_RUIM", Ints>>,
    <<"getDeviceIdentity", "DEVICE_IDENTITY", Void>>}

SmscMethods == {
    <<"exitEmergencyCallbackMode", "EXIT_EMERGENCY_CALLBACK_MODE", Void>>,
    <<"getSmscAddress", "GET_SMSC_ADDRESS", Void>>,
    <<"setSmscAddress", "SET_SMSC_ADDRESS", String>>,
    <<"reportSmsMemoryStatus", "REPORT_SMS_MEMORY_STATUS", Ints>>,
    <<"reportStkServiceIsRunning", "REPORT_STK_SERVICE_IS_RUNNING", Void>>,
    <<"getCdmaSubscriptionSource", "CDMA_GET_SUBSCRIPTION_SOURCE", NotSupported>>,
    <<"requestIsimAuthentication", "ISIM_AUTHENTICATION", String>>,
    <<"acknowledgeIncomingGsmSmsWithPdu", "ACKNOWLEDGE_INCOMING_GSM_SMS_WITH_PDU", Strings(2)>>,
    <<"sendEnvelopeWithStatus", "STK_SEND_ENVELOPE_WITH_STATUS", String>>,
    <<"getVoiceRadioTechnology", "VOICE_RADIO_TECH", Void>>,
    <<"getCellInfoList", "GET_CELL_INFO_LIST", Void>>,
    <<"setCellInfoListRate", "SET_UNSOL_CELL_INFO_LIST_RATE", Ints>>}

ImsMethods == {
    <<"getImsRegistrationState", "IMS_REGISTRATION_STATE", Void>>,
    <<"sendImsSms", "IMS_SEND_SMS", ImsGsmSms>>, <<"sendImsSms", "IMS_SEND_SMS", Raw>>,
    <<"sendImsSms", "IMS_SEND_SMS", InvalidArguments>>,
    <<"iccTransmitApduBasicChannel", "SIM_TRANSMIT_APDU_BASIC", IccApdu>>,
    <<"iccOpenLogicalChannel", "SIM_OPEN_CHANNEL", NotSupported>>}

ChannelMethods == {
    <<"iccCloseLogicalChannel", "SIM_CLOSE_CHANNEL", Ints>>,
    <<"iccTransmitApduLogicalChannel", "SIM_TRANSMIT_APDU_CHANNEL", IccApdu>>,
    <<"nvReadItem", "NV_READ_ITEM", Raw>>,
    <<"nvWriteItem", "NV_WRITE_ITEM", Copied(1, "IGNORE")>>,
    <<"nvWriteCdmaPrl", "NV_WRITE_CDMA_PRL", Raw>>,
    <<"nvResetConfig", "NV_RESET_CONFIG", Ints>>,
    <<"setUiccSubscription", "SET_UICC_SUBSCRIPTION", Raw>>,
    <<"setDataAllowed", "ALLOW_DATA", Ints>>,
    <<"getHardwareConfig", "GET_HARDWARE_CONFIG", NotSupported>>}

SimAuthMethods == {
    <<"requestIccSimAuthentication", "SIM_AUTHENTICATION", Copied(2, "SIMAUTH")>>}

LceMethods == {
    <<"requestShutdown", "SHUTDOWN", Void>>,
    <<"getRadioCapability", "GET_RADIO_CAPABILITY", NotSupported>>,
    <<"setRadioCapability", "SET_RADIO_CAPABILITY", Raw>>,
    <<"startLceService", "START_LCE", NotSupported>>,
    <<"stopLceService", "STOP_LCE", Void>>, <<"pullLceData", "PULL_LCEDATA", Void>>,
    <<"getModemActivityInfo", "GET_ACTIVITY_INFO", Void>>}

CarrierMethods == {
    <<"setAllowedCarriers", "SET_CARRIER_RESTRICTIONS", Arrays(2)>>,
    <<"getAllowedCarriers", "GET_CARRIER_RESTRICTIONS", Void>>}

PowerAndOemMethods == {
    <<"setSimCardPower", "MODEM_POWERON", Void>>,
    <<"setSimCardPower", "MODEM_POWEROFF", Void>>,
    <<"sendRequestRaw", "OEM_HOOK_RAW", Raw>>,
    <<"sendRequestStrings", "OEM_HOOK_STRINGS", Strings(2)>>}

\* The methods that depend on the version v of the vendor's RIL; they take
\* the number of data profiles of the call too where it matters.
SetupMethods(v) == {
    <<"setupDataCall", "SETUP_DATA_CALL",
      IF v <= 14 THEN Payload(<<"array">> \o Copies(8, "kept"), "STRS", "proxy")
      ELSE Payload(<<"mvno", "array">> \o Copies(15, "str"), "STRS", "proxy")>>}

AttachApnMethods(v) == {
    <<"setInitialAttachApn", "SET_INITIAL_ATTACH_APN",
      IF v <= 14 THEN Payload(Copies(4, "padded") \o <<"number">>, "AttchAPN", "cleanup")
      ELSE Payload(Copies(5, "str") \o <<"mvno", "str">>, "IGNORE", "dispatcher")>>}

DataProfileMethods(v, num) == {
    <<"setDataProfile", "SET_DATA_PROFILE",
      IF v <= 14
      THEN Payload(<<"array", "array">> \o Copies(4 * num, "str"), "DATAPROF", "cleanup")
      ELSE Payload(<<"array", "array">>
                       \o [f \in 1..(7 * num) |-> IF f % 7 = 0 THEN "mvno" ELSE "str"],
                   "IGNORE", "dispatcher")>>}

DeviceStateMethods(v) ==
    IF v < 15
    THEN {<<"sendDeviceState", "SCREEN_STATE", Ints>>,
          <<"sendDeviceState", "SEND_DEVICE_STATE", NotSupported>>,
          <<"setIndicationFilter", "SET_UNSOLICITED_RESPONSE_FILTER", NotSupported>>}
    ELSE {<<"sendDeviceState", "SEND_DEVICE_STATE", Ints>>,
          <<"setIndicationFilter", "SET_UNSOLICITED_RESPONSE_FILTER", Ints>>}

Methods(v, num) ==
    UNION {PinMethods, CallMethods, SimIoMethods, SupplementaryMethods,
           NetworkMethods, StkMethods, CdmaMethods, BroadcastMethods, SmscMethods,
           ImsMethods, ChannelMethods, SimAuthMethods, LceMethods, CarrierMethods,
           PowerAndOemMethods, SetupMethods(v), AttachApnMethods(v),
           DataProfileMethods(v, num), DeviceStateMethods(v)}

-----------------------------------------------------------------------------
(***************************************************************************)
(* The response functions, in the order of the file: <<function, kind>>,   *)
(* kind naming the test the function makes of the payload and what it      *)
(* reads of it.  A unit is what the function counts the payload in (an     *)
(* integer, a pointer, a structure).                                       *)
(*   none      does not look at the payload                                *)
(*   text      a C string or NULL                                          *)
(*   int, struct   exactly one unit                                        *)
(*   intOrEmpty    one integer, or NULL with length zero                   *)
(*   ints1, ints2, strings4, strings5   that many whole units              *)
(*   list      any number of units and nothing left over                   *)
(*   listHead  the same, and the first unit is read unconditionally        *)
(*   least, stringsLeast   one unit or more; stringsLeast looks at all     *)
(*   raw       anything but NULL                                           *)
(*   the others are the functions of their own names                       *)
(***************************************************************************)
PinResponses == {
    <<"getIccCardStatus", "struct">>, <<"supplyIccPinForApp", "intOrEmpty">>,
    <<"supplyIccPukForApp", "intOrEmpty">>, <<"supplyIccPin2ForApp", "intOrEmpty">>,
    <<"supplyIccPuk2ForApp", "intOrEmpty">>}

PinChangeResponses == {
    <<"changeIccPinForApp", "intOrEmpty">>, <<"changeIccPin2ForApp", "intOrEmpty">>,
    <<"supplyNetworkDepersonalization", "intOrEmpty">>, <<"getCurrentCalls", "list">>,
    <<"dial", "none">>}

HangupResponses == {
    <<"getIMSIForApp", "text">>, <<"hangupConnection", "none">>,
    <<"hangupWaitingOrBackground", "none">>,
    <<"hangupForegroundResumeBackground", "none">>,
    <<"switchWaitingOrHoldingAndActive", "none">>, <<"conference", "none">>,
    <<"rejectCall", "none">>}

CauseResponses == {
    <<"getLastCallFailCause", "failCause">>, <<"getSignalStrength", "least">>}

RegistrationResponses == {
    <<"getVoiceRegistrationState", "voiceReg">>,
    <<"getDataRegistrationState", "dataReg">>}

OperatorResponses == {
    <<"getOperator", "stringsLeast">>, <<"setRadioPower", "none">>,
    <<"sendDtmf", "none">>}

SmsResponses == { <<"sendSms", "struct">>, <<"sendSMSExpectMore", "struct">>}

SetupResponses == { <<"setupDataCall", "least">>}

SimIoResponses == {
    <<"iccIOForApp", "struct">>, <<"sendUssd", "none">>,
    <<"cancelPendingUssd", "none">>, <<"getClir", "ints2">>, <<"setClir", "none">>}

SupplementaryResponses == {
    <<"getCallForwardStatus", "list">>, <<"setCallForward", "none">>,
    <<"getCallWaiting", "ints2">>, <<"setCallWaiting", "none">>,
    <<"acknowledgeLastIncomingGsmSms", "none">>}

FacilityResponses == {
    <<"acceptCall", "none">>, <<"deactivateDataCall", "none">>,
    <<"getFacilityLockForApp", "int">>, <<"setFacilityLockForApp", "intOrEmpty">>,
    <<"setBarringPassword", "none">>, <<"getNetworkSelectionMode", "int">>}

NetworkResponses == {
    <<"setNetworkSelectionModeAutomatic", "none">>,
    <<"setNetworkSelectionModeManual", "none">>, <<"getAvailableNetworks", "networks">>,
    <<"startDtmf", "none">>}

MuteResponses == {
    <<"stopDtmf", "none">>, <<"getBasebandVersion", "text">>,
    <<"separateConnection", "none">>, <<"setMute", "none">>, <<"getMute", "int">>,
    <<"getClip", "int">>}

DataListResponses == {
    <<"getDataCallList", "list">>, <<"setSuppServiceNotifications", "none">>,
    <<"deleteSmsOnSim", "none">>, <<"setBandMode", "none">>, <<"writeSmsToSim", "int">>,
    <<"getAvailableBandModes", "list">>}

StkResponses == {
    <<"sendEnvelope", "text">>, <<"sendTerminalResponseToSim", "none">>,
    <<"handleStkCallSetupRequestFromSim", "none">>, <<"explicitCallTransfer", "none">>,
    <<"setPreferredNetworkType", "none">>, <<"getPreferredNetworkType", "int">>}

LocationResponses == {
    <<"getNeighboringCids", "list">>, <<"setLocationUpdates", "none">>,
    <<"setCdmaSubscriptionSource", "none">>, <<"setCdmaRoamingPreference", "none">>,
    <<"getCdmaRoamingPreference", "int">>, <<"setTTYMode", "none">>}

TtyResponses == {
    <<"getTTYMode", "int">>, <<"setPreferredVoicePrivacy", "none">>,
    <<"getPreferredVoicePrivacy", "ints1">>, <<"sendCDMAFeatureCode", "none">>,
    <<"sendBurstDtmf", "none">>, <<"sendCdmaSms", "struct">>}

GsmBroadcastResponses == {
    <<"acknowledgeLastIncomingCdmaSms", "none">>, <<"getGsmBroadcastConfig", "list">>,
    <<"setGsmBroadcastConfig", "none">>, <<"setGsmBroadcastActivation", "none">>,
    <<"getCdmaBroadcastConfig", "list">>}

CdmaBroadcastResponses == {
    <<"setCdmaBroadcastConfig", "none">>, <<"setCdmaBroadcastActivation", "none">>,
    <<"getCDMASubscription", "strings5">>, <<"writeSmsToRuim", "int">>,
    <<"deleteSmsOnRuim", "none">>}

SmscResponses == {
    <<"getDeviceIdentity", "strings4">>, <<"exitEmergencyCallbackMode", "none">>,
    <<"getSmscAddress", "text">>, <<"setSmscAddress", "none">>,
    <<"reportSmsMemoryStatus", "none">>, <<"reportStkServiceIsRunning", "none">>}

AuthenticationResponses == {
    <<"getCdmaSubscriptionSource", "int">>, <<"requestIsimAuthentication", "text">>,
    <<"acknowledgeIncomingGsmSmsWithPdu", "none">>,
    <<"sendEnvelopeWithStatus", "struct">>, <<"getVoiceRadioTechnology", "int">>,
    <<"getCellInfoList", "list">>}

ImsResponses == {
    <<"setCellInfoListRate", "none">>, <<"setInitialAttachApn", "none">>,
    <<"getImsRegistrationState", "ints2">>, <<"sendImsSms", "struct">>,
    <<"iccTransmitApduBasicChannel", "struct">>}

ChannelResponses == {
    <<"iccOpenLogicalChannel", "listHead">>, <<"iccCloseLogicalChannel", "none">>,
    <<"iccTransmitApduLogicalChannel", "struct">>, <<"nvReadItem", "text">>,
    <<"nvWriteItem", "none">>, <<"nvWriteCdmaPrl", "none">>}

UiccResponses == {
    <<"nvResetConfig", "none">>, <<"setUiccSubscription", "none">>,
    <<"setDataAllowed", "none">>, <<"getHardwareConfig", "list">>,
    <<"requestIccSimAuthentication", "struct">>, <<"setDataProfile", "none">>}

ShutdownResponses == { <<"requestShutdown", "none">>}

CapabilityResponses == {
    <<"getRadioCapability", "capability">>, <<"setRadioCapability", "capability">>}

LceResponses == {
    <<"startLceService", "struct">>, <<"stopLceService", "struct">>,
    <<"pullLceData", "struct">>, <<"getModemActivityInfo", "activity">>,
    <<"setAllowedCarriers", "int">>}

CarrierResponses == {
    <<"getAllowedCarriers", "carriers">>, <<"sendDeviceState", "none">>,
    <<"setIndicationFilter", "none">>}

PowerAndOemResponses == {
    <<"setSimCardPower", "none">>, <<"sendRequestRaw", "raw">>,
    <<"sendRequestStrings", "list">>}

Responses ==
    UNION {PinResponses, PinChangeResponses, HangupResponses, CauseResponses,
           RegistrationResponses, OperatorResponses, SmsResponses, SetupResponses,
           SimIoResponses, SupplementaryResponses, FacilityResponses,
           NetworkResponses, MuteResponses, DataListResponses, StkResponses,
           LocationResponses, TtyResponses, GsmBroadcastResponses,
           CdmaBroadcastResponses, SmscResponses, AuthenticationResponses,
           ImsResponses, ChannelResponses, UiccResponses, ShutdownResponses,
           CapabilityResponses, LceResponses, CarrierResponses,
           PowerAndOemResponses}

-----------------------------------------------------------------------------
(***************************************************************************)
(* The indication functions: <<callback of IRadioIndication, kind>>.       *)
(*   bytes     not NULL and not empty                                      *)
(*   hex       the same, and a hex string of even length                   *)
(*   records, ussd, callRing, listOrNull   see Fits in RadioMethods        *)
(***************************************************************************)
StateIndications == {
    <<"radioStateChanged", "none">>, <<"callStateChanged", "none">>,
    <<"networkStateChanged", "none">>}

SmsIndications == {
    <<"newSms", "hex">>, <<"newSmsStatusReport", "hex">>, <<"newSmsOnSim", "int">>}

UssdIndications == { <<"onUssd", "ussd">>, <<"nitzTimeReceived", "bytes">>}

SignalIndications == { <<"currentSignalStrength", "least">>}

StkIndications == {
    <<"dataCallListChanged", "listOrNull">>, <<"suppSvcNotify", "struct">>,
    <<"stkSessionEnd", "none">>, <<"stkProactiveCommand", "bytes">>,
    <<"stkEventNotify", "bytes">>, <<"stkCallSetup", "int">>}

SimIndications == {
    <<"simSmsStorageFull", "none">>, <<"simRefresh", "struct">>,
    <<"callRing", "callRing">>, <<"simStatusChanged", "none">>,
    <<"cdmaNewSms", "struct">>}

CdmaIndications == {
    <<"newBroadcastSms", "bytes">>, <<"cdmaRuimSmsStorageFull", "none">>,
    <<"restrictedStateChanged", "int">>, <<"enterEmergencyCallbackMode", "none">>,
    <<"cdmaCallWaiting", "struct">>, <<"cdmaOtaProvisionStatus", "int">>}

\* The vector of CdmaInformationRecord each kind of record goes to; one of
\* any other name, or whose text is longer than its buffer, drops them all.
InfoRecField ==
    [DISPLAY |-> "display", EXTENDED_DISPLAY |-> "display",
     CALLED_PARTY_NUMBER |-> "number", CALLING_PARTY_NUMBER |-> "number",
     CONNECTED_NUMBER |-> "number", SIGNAL |-> "signal", REDIRECTING_NUMBER |-> "redir",
     LINE_CONTROL |-> "lineCtrl", T53_CLIR |-> "clir", T53_AUDIO_CONTROL |-> "audioCtrl"]

InfoRecIndications == { <<"cdmaInfoRec", "records">>}

ToneIndications == {
    <<"indicateRingbackTone", "int">>, <<"resendIncallMute", "none">>,
    <<"cdmaSubscriptionSourceChanged", "int">>, <<"cdmaPrlChanged", "int">>,
    <<"exitEmergencyCallbackMode", "none">>, <<"rilConnected", "none">>,
    <<"voiceRadioTechChanged", "int">>}

CellIndications == {
    <<"cellInfoList", "list">>, <<"imsNetworkStateChanged", "none">>,
    <<"subscriptionStatusChanged", "int">>, <<"srvccStateNotify", "int">>,
    <<"hardwareConfigChanged", "list">>}

CapabilityIndications == {
    <<"radioCapabilityIndication", "struct">>,
    <<"onSupplementaryServiceIndication", "struct">>,
    <<"stkCallControlAlphaNotify", "bytes">>}

LceIndications == {
    <<"lceData", "struct">>, <<"pcoData", "struct">>, <<"modemReset", "bytes">>,
    <<"oemHookRaw", "bytes">>}

(* mtk-ril's own indications.  Some are answered on the spot with a local  *)
(* request, serial -1, which has a payload like that of a method.          *)
SuspendAndCallIndications == {
    <<"registrationSuspend", "least">>, <<"incomingCall", "incomingCall">>,
    <<"forgeEcpi", "ecpi">>}

CallInfoAndNetworkIndications == {
    <<"callInfo", "callInfo">>, <<"psNetworkState", "least">>,
    <<"setAttachApn", "none">>}

SetCallIndication == <<"local", "SET_CALL_INDICATION", Ints>>

LocalRequests ==
    [registrationSuspend |-> <<"local", "RESUME_REGISTRATION", Ints>>,
     incomingCall |-> SetCallIndication,
     forgeEcpi |-> SetCallIndication,
     callInfo |-> SetCallIndication,
     setAttachApn |-> <<"local", "SET_INITIAL_ATTACH_APN",
                        Payload(Copies(5, "number"), "IGNORE", "dispatcher")>>]

Indications ==
    UNION {StateIndications, SmsIndications, UssdIndications, SignalIndications,
           StkIndications, SimIndications, CdmaIndications, InfoRecIndications,
           ToneIndications, CellIndications, CapabilityIndications, LceIndications,
           SuspendAndCallIndications, CallInfoAndNetworkIndications}

=============================================================================
