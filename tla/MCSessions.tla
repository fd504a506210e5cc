----------------------------- MODULE MCSessions -----------------------------
(***************************************************************************)
(* The part of MCServices whose clients come and go: the SAP service, the  *)
(* data calls and the Bluetooth sessions, with the properties of the       *)
(* instances.                                                              *)
(***************************************************************************)
EXTENDS Sap

CONSTANTS
    Ordinary, MaxCalls, MaxUnderWay,    \* of DataCalls
    Client, Prompt                      \* of BluetoothHci

VARIABLES
    dataCallCids, setups, cids, going, carrying,
    state, v1_0, links, notices, has_died_, unlink_cb_, interface, starting, absent, iso, sent

Data == INSTANCE DataCalls WITH held <- cids
Bluetooth == INSTANCE BluetoothHci WITH vendor <- interface

dataVars == <<dataCallCids, setups, cids, going, carrying>>
btVars == <<state, v1_0, links, notices, has_died_, unlink_cb_, interface, starting, absent, iso,
            sent>>

\* The list of data calls is that of the calls the framework has.
ListIsCalls == Data!ListIsCalls

\* A Bluetooth session ends once.
EndsOnce == Bluetooth!EndsOnce

=============================================================================
