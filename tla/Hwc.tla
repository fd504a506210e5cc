-------------------------------- MODULE Hwc --------------------------------
(***************************************************************************)
(* A frame through hwcomposer/forge_hwc.c: fhwc_prepare splits the layers  *)
(* between overlays and GLES, fhwc_set and engine_submit hand the planes   *)
(* to the kernel and settle the fences.  SurfaceFlinger calls the two in   *)
(* turn on one thread; the vsync thread is HwcVsync.                       *)
(*                                                                         *)
(* Layers are numbered from the bottom of the z-order; 0 is the            *)
(* framebuffer target (FBT) that GLES composes into.                       *)
(***************************************************************************)
EXTENDS Integers, Sequences, FiniteSetsExt

CONSTANTS
    MaxLayers,
    PlaneCaps       \* values of debug.forgehwc.maxplanes

\* What the constants are taken to be.
FrameConstants == MaxLayers \in Nat /\ PlaneCaps \subseteq Int

OvlPlanes == 4
FBT == 0

VARIABLES
    at,         \* idle, prepare, gles, set, submit, done
    props,      \* overlays and maxplanes, read again by every prepare
    layer,      \* layer[l]: what prepare and set look at
    gralloc,    \* libgralloc_extra.so was found by open
    target,     \* the FBT has a buffer
    type,       \* type[l]: compositionType after prepare
    planes,     \* what set hands to the kernel: layers, bottom to top
    lost,       \* overlay layers that no longer fit at set
    acquire,    \* acquire[l]: the acquire fence: none, open, closed
    closedTwice,
    release,    \* release[l]: the release fence: none, kernel, given, closed
    outcome     \* of the frame: none, skipped, shown, failed

vars == <<at, props, gralloc, layer, target, type, planes, lost, acquire, closedTwice, release, outcome>>

Layers == 1..Len(layer)
All == 0..Len(layer)
RETIRE == -1    \* the display's own fence, beside the layers' release fences

Blank(set) == [l \in set |-> "none"]

Init ==
    /\ at = "idle"
    /\ props = [overlays |-> TRUE, maxplanes |-> OvlPlanes]
    /\ layer = <<>>
    /\ gralloc \in BOOLEAN
    /\ target = TRUE
    /\ type = <<>>
    /\ planes = <<>>
    /\ lost = {}
    /\ acquire = Blank({FBT}) /\ release = Blank({FBT, RETIRE})
    /\ closedTwice = FALSE
    /\ outcome = "none"

\* A layer the OVL can show, and layers it cannot: hidden by a flag, without a
\* buffer, rotated, scaled or partly off the screen, of another format.
Plain == [skip |-> FALSE, handle |-> TRUE, transform |-> 0, unscaled |-> TRUE, format |-> 1]
Doubtful ==
    {[Plain EXCEPT !.skip = TRUE], [Plain EXCEPT !.handle = FALSE], [Plain EXCEPT !.transform = 4],
     [Plain EXCEPT !.unscaled = FALSE], [Plain EXCEPT !.format = 3]}

\* SurfaceFlinger presents a list of layers; anyone may change the properties.
Present ==
    /\ at = "idle"
    /\ \E d \in Doubtful, n \in 0..MaxLayers : layer' \in [1..n -> {Plain, d}]
    /\ props' \in [overlays : BOOLEAN, maxplanes : PlaneCaps]
    /\ at' = "prepare"
    /\ UNCHANGED <<gralloc, target, type, planes, lost, acquire, closedTwice, release, outcome>>

-----------------------------------------------------------------------------
(* fhwc_prepare.                                                           *)

\* The DISP_FORMAT of a buffer's format, 0 for none.
map_hal_format(f) == IF f \in {1, 2, 4, 5} THEN f ELSE 0

\* The format to show the layer in, 0 for "compose with GLES".
layer_fits_overlay(l) ==
    IF ~l.skip /\ l.handle /\ l.transform = 0 /\ l.unscaled /\ gralloc
    THEN map_hal_format(l.format) ELSE 0

\* How many contiguous layers from the top fit an overlay.
TopRun ==
    IF ~props.overlays THEN 0
    ELSE Len(layer) - Max({0} \cup {l \in Layers : layer_fits_overlay(layer[l]) = 0})

\* Mutant: the FBT's plane is not reserved.
BudgetGreedy ==
    LET want == IF TopRun < OvlPlanes THEN TopRun ELSE OvlPlanes
    IN Min({want, Max({0, props.maxplanes})})

Budget ==
    LET everything == TopRun = Len(layer) /\ Len(layer) \in 1..OvlPlanes
        want == IF everything THEN Len(layer) ELSE Min({TopRun, OvlPlanes - 1})
    IN Min({want, Max({0, props.maxplanes})})

fhwc_prepare ==
    /\ at = "prepare"
    /\ type' = [l \in Layers |-> IF l > Len(layer) - Budget THEN "OVERLAY" ELSE "FRAMEBUFFER"]
    /\ at' = "gles"
    /\ UNCHANGED <<props, gralloc, layer, target, planes, lost, acquire, closedTwice, release, outcome>>

Overlays == {l \in Layers : type[l] = "OVERLAY"}

\* SurfaceFlinger composes what was left to GLES and gives the others, and the
\* FBT, the fences their producers will signal.  It may have no FBT buffer yet.
Gles ==
    /\ at = "gles"
    /\ target' \in BOOLEAN
    /\ \E fenced \in SUBSET ({FBT} \cup Overlays) :
           acquire' = [l \in All |-> IF l \in fenced THEN "open" ELSE "none"]
    /\ release' = Blank(All \cup {RETIRE})
    /\ at' = "set"
    /\ UNCHANGED <<props, gralloc, layer, type, planes, lost, closedTwice, outcome>>

-----------------------------------------------------------------------------
(* fhwc_set and engine_submit.                                             *)

GlesUsed == \E l \in Layers : type[l] = "FRAMEBUFFER"

\* A set of layers from the bottom to the top.
InOrder(set) ==
    CHOOSE s \in [1..Cardinality(set) -> set] :
        /\ Range(s) = set
        /\ \A i, j \in DOMAIN s : i < j => s[i] < s[j]

Close(set) ==
    /\ acquire' = [l \in All |-> IF l \in set /\ acquire[l] # "none" THEN "closed"
                                 ELSE acquire[l]]
    /\ closedTwice' = (closedTwice \/ \E l \in set : acquire[l] = "closed")

\* Nothing usable to show under the overlays: only the FBT's fence is closed.
SetSkips ==
    /\ at = "set"
    /\ GlesUsed /\ ~target
    /\ Close({FBT})
    /\ outcome' = "skipped"
    /\ at' = "done"
    /\ UNCHANGED <<props, gralloc, layer, target, type, planes, lost, release>>

\* Mutant: the unused FBT's fence is forgotten.
SetCollectsForgets ==
    /\ at = "set"
    /\ ~(GlesUsed /\ ~target)
    /\ \E gone \in SUBSET Overlays :
           LET list == (IF GlesUsed THEN <<FBT>> ELSE <<>>) \o InOrder(Overlays \ gone)
           IN /\ lost' = gone
              /\ planes' = SubSeq(list, 1, Min({Len(list), OvlPlanes}))
              /\ Close(gone)
              /\ outcome' = IF list = <<>> THEN "skipped" ELSE outcome
              /\ at' = IF list = <<>> THEN "done" ELSE "submit"
    /\ UNCHANGED <<props, gralloc, layer, target, type, release>>

\* Collect the planes; an overlay that stopped fitting is dropped, and an unused
\* FBT's fence is closed.
SetCollects ==
    /\ at = "set"
    /\ ~(GlesUsed /\ ~target)
    /\ \E gone \in SUBSET Overlays :
           LET list == (IF GlesUsed THEN <<FBT>> ELSE <<>>) \o InOrder(Overlays \ gone)
           IN /\ lost' = gone
              /\ planes' = SubSeq(list, 1, Min({Len(list), OvlPlanes}))
              /\ Close(gone \cup IF GlesUsed THEN {} ELSE {FBT})
              /\ outcome' = IF list = <<>> THEN "skipped" ELSE outcome
              /\ at' = IF list = <<>> THEN "done" ELSE "submit"
    /\ UNCHANGED <<props, gralloc, layer, target, type, release>>

\* Every acquire fence is waited for, 1200 ms at most, and closed; there may be
\* no memory for the input configuration.  PREPARE_INPUT_BUFFER may fail for a
\* plane and GET_PRESENT_FENCE for the frame; the others get a fence.
engine_submit ==
    /\ at = "submit"
    /\ Close(Range(planes))
    /\ \E got \in SUBSET (Range(planes) \cup {RETIRE}) :
           release' = [l \in All \cup {RETIRE} |-> IF l \in got THEN "kernel" ELSE "none"]
    /\ at' = "trigger"
    /\ UNCHANGED <<props, gralloc, layer, target, type, planes, lost, outcome>>

NoMemory ==
    /\ at = "submit"
    /\ Close(Range(planes))
    /\ outcome' = "failed"
    /\ at' = "done"
    /\ UNCHANGED <<props, gralloc, layer, target, type, planes, lost, release>>

Hand(to) == release' = [l \in DOMAIN release |-> IF release[l] = "kernel" THEN to ELSE release[l]]

\* SET_INPUT_BUFFER and TRIGGER_SESSION: the fences go to the layers ...
Trigger ==
    /\ at = "trigger"
    /\ Hand("given")
    /\ outcome' = "shown"
    /\ at' = "done"
    /\ UNCHANGED <<props, gralloc, layer, target, type, planes, lost, acquire, closedTwice>>

\* ... or either fails and they are closed.
TriggerFails ==
    /\ at = "trigger"
    /\ Hand("closed")
    /\ outcome' = "failed"
    /\ at' = "done"
    /\ UNCHANGED <<props, gralloc, layer, target, type, planes, lost, acquire, closedTwice>>

NextFrame ==
    /\ at = "done"
    /\ at' = "idle"
    /\ layer' = <<>> /\ type' = <<>> /\ planes' = <<>> /\ lost' = {}
    /\ target' = TRUE
    /\ acquire' = Blank({FBT}) /\ release' = Blank({FBT, RETIRE})
    /\ outcome' = "none"
    /\ UNCHANGED <<props, gralloc, closedTwice>>

Next ==
    \/ Present \/ fhwc_prepare \/ Gles \/ SetSkips \/ SetCollects
    \/ engine_submit \/ NoMemory \/ Trigger \/ TriggerFails \/ NextFrame

Spec == Init /\ [][Next]_vars

-----------------------------------------------------------------------------
\* What a plane shows: an overlay itself, the FBT everything GLES composed into it.
Shows(p) == IF p = FBT THEN {l \in Layers : type[l] = "FRAMEBUFFER"} ELSE {p}

\* The split between GLES and overlays never changes the picture: every layer is
\* shown by one plane, but for those that stopped fitting between prepare and
\* set; what a plane shows is above all that the planes below it show; and the
\* planes are no more than the OVL has.
PictureWhole ==
    at \in {"submit", "trigger"} =>
        /\ UNION {Shows(planes[i]) : i \in DOMAIN planes} = Layers \ lost
        /\ \A i, j \in DOMAIN planes : i < j =>
               \A l \in Shows(planes[i]), m \in Shows(planes[j]) : l < m
        /\ Len(planes) <= OvlPlanes

\* When set returns every fence is settled: the acquire fences closed, once
\* each; the release fences with their layers if the frame went out, closed if
\* it did not.  The exception is a frame skipped for want of an FBT buffer,
\* which leaves the overlays' acquire fences open.
FencesSettled ==
    /\ ~closedTwice
    /\ at = "done" =>
           /\ ~(GlesUsed /\ ~target) => \A l \in All : acquire[l] # "open"
           /\ \A l \in DOMAIN release : release[l] \in {"none", IF outcome = "shown" THEN "given"
                                                     ELSE "closed"}

\* forge_hwc.c, "maxplanes 4 cap on concurrent planes (FIFO underflow)": no
\* more planes than the cap are fetched at a time.
PlanesCapped == at = "trigger" => Len(planes) <= props.maxplanes

=============================================================================
