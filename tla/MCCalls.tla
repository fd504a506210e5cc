------------------------------ MODULE MCCalls ------------------------------
(***************************************************************************)
(* The part of MCServices that serves one call after the other on the      *)
(* caller's thread: the methods of the IRadio service and the frames of    *)
(* the composer, with the properties of the instances.                     *)
(***************************************************************************)
CONSTANTS
    VendorVersions, MaxProfiles, MaxUnits,  \* of RadioMethods
    MaxLayers, PlaneCaps                    \* of Hwc

VARIABLES
    at, call, blocks, badFree, pRI, answers, decoded, capability,
    frame, props, gralloc, layer, target, type, planes, lost, acquire, closedTwice, release,
    outcome

Radio == INSTANCE RadioMethods
         WITH Versions <- VendorVersions, request <- pRI, mem <- blocks, told <- answers
Composer == INSTANCE Hwc WITH at <- frame

ASSUME ServiceConstants ==
    /\ Radio!RadioConstants /\ Radio!TablesAgree
    /\ Composer!FrameConstants

radioVars == <<at, call, blocks, badFree, pRI, answers, decoded, capability>>
hwcVars == <<frame, props, gralloc, layer, target, type, planes, lost, acquire, closedTwice,
             release, outcome>>

-----------------------------------------------------------------------------
(* The properties of the instances of this module.                         *)

\* A call of the IRadio service is answered once.
AnsweredOnce == Radio!AnsweredOnce

\* What a method copied is freed, once, by the time it is settled.
CopiesFreedOnce == Radio!CopiesFreedOnce

\* A response is decoded within what the vendor sent.
ReadsWhatCame == Radio!ReadsWhatCame

\* The client hears the outcome the vendor reported.
OutcomeKept == Radio!OutcomeKept

\* A frame shows every layer once and in order.
PictureWhole == Composer!PictureWhole

\* The fences of a frame are closed or given away, once.
FencesSettled == Composer!FencesSettled

=============================================================================
