----------------------------- MODULE MCServices -----------------------------
(***************************************************************************)
(* The services that turn calls of the framework into work of a vendor     *)
(* library, one at a time: the requests of rild (RilRequests), the methods *)
(* of the IRadio service, its data calls, the SAP service, a frame of the  *)
(* composer and the Bluetooth sessions.  They share nothing, so a          *)
(* behaviour is one of the component which names; the others stay in their *)
(* initial state.                                                          *)
(***************************************************************************)
EXTENDS RilRequests, MCSessions, MCCalls

VARIABLE which

\* What varies from one start to the next does so for its own component only.
ServicesInit ==
    /\ which \in {"requests", "radio", "data", "sap", "hwc", "bluetooth"}
    /\ RequestInit /\ Radio!Init /\ Data!Init /\ Init /\ Composer!Init
    /\ Bluetooth!Init
    /\ which = "requests" \/ (emu /\ version13)
    /\ which = "radio" \/ ~capability
    /\ which = "hwc" \/ gralloc
    /\ which = "bluetooth" \/ ~has_died_

ServicesNext ==
    /\ UNCHANGED which
    /\ \/ which = "requests" /\ RequestNext
          /\ UNCHANGED <<radioVars, dataVars, vars, hwcVars, btVars>>
       \/ which = "radio" /\ Radio!Next
          /\ UNCHANGED <<allVars, dataVars, vars, hwcVars, btVars>>
       \/ which = "data" /\ Data!Next
          /\ UNCHANGED <<allVars, radioVars, vars, hwcVars, btVars>>
       \/ which = "sap" /\ Next
          /\ UNCHANGED <<allVars, radioVars, dataVars, hwcVars, btVars>>
       \/ which = "hwc" /\ Composer!Next
          /\ UNCHANGED <<allVars, radioVars, dataVars, vars, btVars>>
       \/ which = "bluetooth" /\ Bluetooth!Next
          /\ UNCHANGED <<allVars, radioVars, dataVars, vars, hwcVars>>

Services ==
    ServicesInit /\ [][ServicesNext]_<<which, allVars, radioVars, dataVars, vars, hwcVars, btVars>>

=============================================================================
