------------------------------ MODULE Installer ------------------------------
(***************************************************************************)
(* Setup of the Windows client (client/native/setup_main.cpp): installing, *)
(* installing again and uninstalling, one run after the other, each of     *)
(* which may fail or be cut off at any step and be followed by another.    *)
(*                                                                         *)
(* What lasts between the runs is the machine's: the service and its       *)
(* process, the files and those Windows is to delete at the next restart,  *)
(* the TAP adapters, and the registry, which says what adapter is          *)
(* OrbitLan's.                                                             *)
(*                                                                         *)
(* Of an adapter's device instance one thing matters: whether it is the    *)
(* one of the registry.  Windows may give it to another adapter when the   *)
(* first is gone; a GUID it never gives again.  Of the adapters of other   *)
(* products one thing matters: that they stay.                             *)
(***************************************************************************)
EXTENDS Naturals, FiniteSets

CONSTANTS
    Adapters,   \* TAP adapters, by their GUID
    None,
    Gone,       \* a device instance that no adapter has any more
    Faults      \* what may go wrong

ASSUME NoneAssumption == None \notin Adapters /\ Gone \notin Adapters \cup {None}
ASSUME AdaptersAssumption == Adapters # {}

\* "cut off": a run ends between two steps or within one; "copy", "devcon", "start":
\* that step fails; "manager": the service manager refuses; "registry": a write to
\* the registry fails, which nobody notices; "slow device": a new adapter has no
\* identity yet; "slow stop": the service does not stop within 5 seconds; "late
\* restart": setup runs again before the restart that is to remove files; "other
\* setup": another product adds an adapter while devcon runs; "legacy": there is a
\* legacy installation.
ASSUME FaultAssumption ==
    Faults \subseteq {"cut off", "copy", "devcon", "start", "manager", "registry",
                      "slow device", "slow stop", "late restart", "other setup",
                      "legacy"}

VARIABLES
    mode,       \* what the run of setup is to do, or "none"
    at,         \* the step it is at
    todo,       \* files it still has to copy
    before,     \* the adapters it found before devcon ran
    target,     \* the adapter it sets up
    resume,     \* the step after WriteAdapterOwnership
    outcome,    \* what the last run reported
    service,    \* the service, as the service manager has it
    whole,      \* files that are there as they should be; others may be so in part
    legacy,     \* files of a legacy installation are there
    doomed,     \* files to be deleted at the next restart
    uiOpen,
    adapters,   \* TAP adapters of the machine
    ready,      \* those whose device identity is known
    named,      \* the one whose connection is called OrbitLan
    ours,       \* those that devcon made for OrbitLan
    alike,      \* those of other products that setup cannot tell from these
    ownInstance,    \* AdapterInstanceId of SOFTWARE\OrbitLan: the adapter that has it
    ownGuid,    \* AdapterGuid of SOFTWARE\OrbitLan
    lost,       \* this run failed to write a value
    calm        \* nothing goes wrong, and nobody uninstalls, any more

run == <<mode, at, todo, before, target, resume, outcome>>
disk == <<whole, legacy, doomed>>
devices == <<adapters, ready, named, ours, alike>>
registry == <<ownInstance, ownGuid, lost>>
env == <<uiOpen, calm>>
vars == <<run, service, disk, devices, registry, env>>

\* The user interface with its pictures, the service with its engine, the driver
\* with devcon, and setup itself as the uninstaller.
Files == {"app", "programs", "driver", "uninstaller"}
AdapterOrNone == Adapters \cup {None}

\* The portable package brings only what the service needs.
Payload(m) == IF m = "portable" THEN Files \ {"app"} ELSE Files

Steps == {"validate", "stop", "wait", "copy", "adopt", "legacy files", "adapter",
          "devcon", "find", "own", "own guid", "rename", "verify", "service",
          "register", "remove adapter", "forget", "delete"}

TypeRun ==
    /\ mode \in {"none", "install", "portable", "uninstall"}
    /\ at \in Steps \cup {""}
    /\ todo \subseteq Files
    /\ before \subseteq Adapters
    /\ target \in AdapterOrNone
    /\ resume \in {"", "legacy files", "rename", "service"}
    /\ at \in {"own", "own guid"} => resume # ""
    /\ outcome \in {"none", "installed", "installed portable", "removed", "failed"}

TypeDisk ==
    /\ service \in {"none", "stopped", "running", "stopping", "marked"}
    /\ whole \subseteq Files /\ doomed \subseteq Files
    /\ legacy \in BOOLEAN /\ uiOpen \in BOOLEAN
    /\ calm \in BOOLEAN

TypeDevices ==
    /\ ready \subseteq adapters /\ adapters \subseteq Adapters
    /\ ours \subseteq adapters /\ alike \subseteq adapters
    /\ named \in adapters \cup {None}
    /\ at \in {"own", "own guid", "rename", "verify"} => target \in adapters
    /\ ownInstance \in adapters \cup {None, Gone} /\ ownGuid \in AdapterOrNone
    /\ lost \in BOOLEAN

TypeOK == TypeRun /\ TypeDisk /\ TypeDevices

Fault(f) == f \in Faults /\ ~calm

\* GUIDs that no adapter has and the registry does not hold
Fresh == Adapters \ (adapters \cup {ownGuid})

\* Which of them it is makes no difference.
NewGuid == CHOOSE a \in Adapters : a \in Fresh

\* Bound: there will be a GUID for one more adapter.
Spare(n) == Cardinality(Fresh) >= n

Init ==
    /\ mode = "none" /\ at = "" /\ todo = {} /\ before = {}
    /\ target = None /\ resume = "" /\ outcome = "none"
    /\ service = "none"
    /\ whole = {} /\ doomed = {}
    /\ legacy \in BOOLEAN /\ (legacy => "legacy" \in Faults)
    /\ uiOpen = FALSE
    /\ adapters \in {{}, {CHOOSE a \in Adapters : TRUE}}
    /\ ready = adapters
    /\ ours \in SUBSET adapters /\ (legacy \/ ours = {})
    /\ named \in ours \cup {None} /\ alike = {}
    /\ ownInstance = None /\ ownGuid = None /\ lost = FALSE
    /\ calm = FALSE

\* A program that runs cannot be overwritten or deleted.
ProcessRuns == service \in {"running", "stopping", "marked"}
InUse ==
    (IF ProcessRuns THEN {"programs"} ELSE {})
      \cup (IF uiOpen THEN {"app"} ELSE {})
      \cup (IF mode = "uninstall" THEN {"uninstaller"} ELSE {})

Go(step) == at' = step /\ UNCHANGED <<mode, todo, before, target, resume, outcome>>

Report(result) ==
    /\ mode' = "none" /\ at' = ""
    /\ todo' = {} /\ before' = {} /\ target' = None /\ resume' = ""
    /\ outcome' = result

-----------------------------------------------------------------------------
(* Stopping the service: StopAndDeleteService *)

Begin(m) ==
    /\ mode = "none"
    /\ doomed = {} \/ Fault("late restart")
    /\ m = "uninstall" => ~calm /\ Spare(1)
    /\ mode' = m
    /\ at' = IF m = "uninstall" THEN "stop" ELSE "validate"
    /\ outcome' = "none"
    /\ lost' = FALSE
    /\ UNCHANGED <<todo, before, target, resume, service, disk, devices, ownInstance,
                   ownGuid, env>>

\* The package is complete, or the run ends before it touched anything.
Validate ==
    /\ at = "validate"
    /\ \/ Go("stop")
       \/ Fault("copy") /\ Report("failed")
    /\ UNCHANGED <<service, disk, devices, registry, env>>

ControlStop ==
    /\ at = "stop"
    /\ \/ /\ service' = IF service = "running" THEN "stopping" ELSE service
          /\ Go("wait")
       \/ Fault("manager") /\ Report("failed") /\ UNCHANGED service
    /\ UNCHANGED <<disk, devices, registry, env>>

\* Mutation: the service is stopped and not deleted.
LeaveService ==
    /\ at = "wait"
    /\ service # "stopping" \/ Fault("slow stop")
    /\ IF mode = "uninstall"
       THEN Go("remove adapter")
       ELSE /\ at' = "copy"
            /\ todo' = Payload(mode)
            /\ UNCHANGED <<mode, before, target, resume, outcome>>
    /\ UNCHANGED <<service, disk, devices, registry, env>>

\* Nobody asks whether the service has stopped: after 5 seconds it is deleted
\* anyway, which Windows puts off until its process has ended.
DeleteService ==
    /\ at = "wait"
    /\ service # "stopping" \/ Fault("slow stop")
    /\ service' = IF service \in {"stopping", "marked"} THEN "marked" ELSE "none"
    /\ IF mode = "uninstall"
       THEN Go("remove adapter")
       ELSE /\ at' = "copy"
            /\ todo' = Payload(mode)
            /\ UNCHANGED <<mode, before, target, resume, outcome>>
    /\ UNCHANGED <<disk, devices, registry, env>>

DeleteFails ==
    /\ at = "wait"
    /\ Fault("manager")
    /\ Report("failed")
    /\ UNCHANGED <<service, disk, devices, registry, env>>

-----------------------------------------------------------------------------
(* Files: ExtractEmbeddedPayload, CopyLoosePayload *)

\* The files go in the order of the table, the uninstaller at the end.
NextFiles == IF todo = {"uninstaller"} THEN todo ELSE todo \ {"uninstaller"}

\* A copy that does not end leaves some of the files, or a part of one.
Tear == \E f \in NextFiles \ InUse : whole' = whole \ {f}

CopyFails ==
    /\ at = "copy"
    /\ \/ NextFiles \cap InUse # {} /\ UNCHANGED whole
       \/ Fault("copy") /\ UNCHANGED whole
       \/ Fault("copy") /\ Tear
    /\ Report("failed")
    /\ UNCHANGED <<service, legacy, doomed, devices, registry, env>>

CutOffCopying ==
    /\ at = "copy"
    /\ Fault("cut off")
    /\ Tear
    /\ Report("none")
    /\ UNCHANGED <<service, legacy, doomed, devices, registry, env>>

CopyFile ==
    /\ at = "copy"
    /\ \E f \in NextFiles \ InUse :
         /\ whole' = whole \cup {f}
         /\ todo' = todo \ {f}
    /\ UNCHANGED <<mode, at, before, target, resume, outcome, service, legacy, doomed,
                   devices, registry, env>>

CopyDone ==
    /\ at = "copy"
    /\ todo = {}
    /\ Go("adopt")
    /\ UNCHANGED <<service, disk, devices, registry, env>>

-----------------------------------------------------------------------------
(* The adapter: InstallAdapter *)

\* OwnedAdapter; DeviceInstanceId(a) is empty as long as the device is not ready.
Owned == {a \in ready : a = ownInstance}

\* Adapters of other products, and those of them that setup can tell from its own
Others == adapters \ ours
Strangers == Others \ alike

\* WriteAdapterOwnership does nothing without the device's identity.
WriteAdapterOwnership(a, next) ==
    /\ IF a \in ready
       THEN at' = "own" /\ target' = a /\ resume' = next
       ELSE at' = next /\ UNCHANGED <<target, resume>>
    /\ UNCHANGED <<mode, todo, before, outcome>>

\* Mutation: a GUID that is recorded is not replaced.
OwnGuidOnce ==
    /\ at = "own guid"
    /\ ownGuid' = IF ownGuid = None THEN target ELSE ownGuid
    /\ Go(resume)
    /\ UNCHANGED <<ownInstance, lost, service, disk, devices, env>>

\* It writes one value after the other, and asks of neither if it was written.
\* (Spare: an adapter that is not recorded is not found again.)
OwnInstance ==
    /\ at = "own"
    /\ \/ ownInstance' = target /\ UNCHANGED lost
       \/ Fault("registry") /\ Spare(1) /\ lost' = TRUE /\ UNCHANGED ownInstance
    /\ Go("own guid")
    /\ UNCHANGED <<ownGuid, service, disk, devices, env>>

OwnGuid ==
    /\ at = "own guid"
    /\ \/ ownGuid' = target /\ UNCHANGED lost
       \/ Fault("registry") /\ lost' = TRUE /\ UNCHANGED ownGuid
    /\ Go(resume)
    /\ UNCHANGED <<ownInstance, service, disk, devices, env>>

\* AdoptLegacyAdapterIfUnambiguous: with legacy files there, and no record, the only
\* TAP adapter is OrbitLan's.
Adopt ==
    /\ at = "adopt"
    /\ IF legacy /\ ownInstance = None /\ \E a \in adapters : adapters = {a}
       THEN /\ \A a \in adapters : WriteAdapterOwnership(a, "legacy files")
            /\ alike' = Others
       ELSE Go("legacy files") /\ UNCHANGED alike
    /\ UNCHANGED <<service, disk, adapters, ready, named, ours, registry, env>>

RemoveLegacyPayload ==
    /\ at = "legacy files"
    /\ legacy' = FALSE
    /\ Go("adapter")
    /\ UNCHANGED <<service, whole, doomed, devices, registry, env>>

\* An adapter that is called OrbitLan is OrbitLan's.
UseNamed ==
    /\ at = "adapter"
    /\ named # None
    /\ WriteAdapterOwnership(named, "service")
    /\ UNCHANGED <<service, disk, devices, registry, env>>

\* An earlier run did not get to the end with this one.
UseInterrupted ==
    /\ at = "adapter"
    /\ named = None
    /\ \E a \in Owned : WriteAdapterOwnership(a, "rename")
    /\ UNCHANGED <<service, disk, devices, registry, env>>

NeedNew ==
    /\ at = "adapter"
    /\ named = None /\ Owned = {}
    /\ before' = adapters
    /\ at' = "devcon"
    /\ UNCHANGED <<mode, todo, target, resume, outcome, service, disk, devices, registry,
                   env>>

\* A new adapter has a new GUID, and maybe the instance of one that is gone.
Appears(a) ==
    /\ adapters' = adapters \cup {a}
    /\ \/ UNCHANGED ownInstance
       \/ ownInstance = Gone /\ ownInstance' = a
    /\ UNCHANGED <<named, ownGuid, lost>>

\* devcon install
Devcon ==
    /\ at = "devcon"
    /\ Fresh # {}
    /\ Appears(NewGuid)
    /\ ours' = ours \cup {NewGuid}
    /\ \/ ready' = ready \cup {NewGuid}
       \/ Fault("slow device") /\ Spare(2) /\ ready' = ready
    /\ Go("find")
    /\ UNCHANGED <<alike, service, disk, env>>

\* It fails or takes more than a minute, before it has added the adapter or after.
DevconFails ==
    /\ at = "devcon"
    /\ Fault("devcon")
    /\ \/ UNCHANGED <<devices, registry>>
       \/ /\ Spare(2)
          /\ Appears(NewGuid)
          /\ ours' = ours \cup {NewGuid}
          /\ UNCHANGED <<ready, alike>>
    /\ Report("failed")
    /\ UNCHANGED <<service, disk, env>>

\* Mutation: any TAP adapter is taken for the new one.
FindFirst ==
    /\ at = "find"
    /\ \E a \in adapters :
         IF a \in ready THEN WriteAdapterOwnership(a, "rename") ELSE Report("failed")
    /\ UNCHANGED <<service, disk, devices, registry, env>>

\* The first adapter that was not there before.  Setup gives up if that is not
\* listed, or listed without its name or its identity, yet.
Find ==
    /\ at = "find"
    /\ \E a \in adapters \ before :
         IF a \in ready THEN WriteAdapterOwnership(a, "rename") ELSE Report("failed")
    /\ UNCHANGED <<service, disk, devices, registry, env>>

\* RenameAdapter may fail, which does not matter.
Rename ==
    /\ at = "rename"
    /\ named' \in {target, named}
    /\ Go("verify")
    /\ UNCHANGED <<adapters, ready, ours, alike, service, disk, registry, env>>

\* Mutation: an adapter that could not be renamed is refused.
VerifyName ==
    /\ at = "verify"
    /\ IF named # target THEN Report("failed") ELSE Go("service")
    /\ UNCHANGED <<service, disk, devices, registry, env>>

Verify ==
    /\ at = "verify"
    /\ IF Owned = {} THEN Report("failed") ELSE Go("service")
    /\ UNCHANGED <<service, disk, devices, registry, env>>

-----------------------------------------------------------------------------
(* The end of Install *)

\* Mutation: whether the service starts is not asked.
CreateOnly ==
    /\ at = "service"
    /\ service # "marked"
    /\ service' \in {"running"} \cup {x \in {"stopped"} : Fault("start")}
    /\ Go("register")
    /\ UNCHANGED <<disk, devices, registry, env>>

\* CreateOrbitLanService makes the service, or finds one, and starts it, unless the
\* old one is marked for deletion.
CreateService ==
    /\ at = "service"
    /\ \/ service # "marked" /\ service' = "running" /\ Go("register")
       \/ /\ service = "marked" \/ Fault("manager")
          /\ Report("failed")
          /\ UNCHANGED service
       \/ /\ Fault("start") /\ service = "none"
          /\ service' = "stopped"
          /\ Report("failed")
    /\ UNCHANGED <<disk, devices, registry, env>>

\* The shortcut, which may fail, and WriteUninstallRegistration: what that writes is
\* for the user, and whether it did is asked by nobody.
Register ==
    /\ at = "register"
    /\ \/ Report(IF mode = "portable" THEN "installed portable" ELSE "installed")
       \/ mode = "install" /\ Fault("copy") /\ Report("failed")
    /\ UNCHANGED <<service, disk, devices, registry, env>>

-----------------------------------------------------------------------------
(* The rest of Uninstall *)

\* devcon, if it is there, removes the adapter of the registry, or the one with the
\* name.  Nobody asks whether it did.
RemoveAdapter ==
    /\ at = "remove adapter"
    /\ LET found == IF ownInstance = None /\ named \in ready THEN named ELSE ownInstance
       IN  \/ /\ adapters' = adapters \ {found}
              /\ ready' = ready \ {found}
              /\ ours' = ours \ {found} /\ alike' = alike \ {found}
              /\ named' = IF named = found THEN None ELSE named
              /\ ownInstance' = IF ownInstance = None THEN None ELSE Gone
           \/ /\ "driver" \notin whole \/ Fault("devcon")
              /\ UNCHANGED <<devices, ownInstance>>
    /\ Go("forget")
    /\ UNCHANGED <<service, disk, ownGuid, lost, env>>

\* The shortcut, the entry of the installed apps and SOFTWARE\OrbitLan, which nobody
\* asks whether it is gone.
Forget ==
    /\ at = "forget"
    /\ \/ ownInstance' = None /\ ownGuid' = None
       \/ Fault("registry") /\ UNCHANGED <<ownInstance, ownGuid>>
    /\ Go("delete")
    /\ UNCHANGED <<service, disk, devices, lost, env>>

\* What is in use will be deleted at the next restart.
DeleteFiles ==
    /\ at = "delete"
    /\ whole' = whole \cap InUse
    /\ doomed' = doomed \cup (whole \cap InUse)
    /\ legacy' = FALSE
    /\ Report("removed")
    /\ UNCHANGED <<service, devices, registry, env>>

CutOffDeleting ==
    /\ at = "delete"
    /\ Fault("cut off") /\ Spare(1)
    /\ \E gone \in SUBSET (Files \ InUse) : whole' = whole \ gone
    /\ doomed' \in {doomed, doomed \cup (whole \cap InUse)}
    /\ Report("none")
    /\ UNCHANGED <<service, legacy, devices, registry, env>>

Step ==
    \/ Validate \/ ControlStop \/ DeleteService \/ DeleteFails
    \/ CopyFails \/ CopyFile \/ CutOffCopying \/ CopyDone
    \/ Adopt \/ RemoveLegacyPayload
    \/ UseNamed \/ UseInterrupted \/ NeedNew \/ Devcon \/ DevconFails \/ Find
    \/ OwnInstance \/ OwnGuid \/ Rename \/ Verify
    \/ CreateService \/ Register
    \/ RemoveAdapter \/ Forget \/ DeleteFiles \/ CutOffDeleting

-----------------------------------------------------------------------------
(* The machine: external, except for what the service promises *)

\* The process of the service ends when the service has stopped.
ServiceEnds ==
    /\ service \in {"stopping", "marked"}
    /\ service' = IF service = "marked" THEN "none" ELSE "stopped"
    /\ UNCHANGED <<run, disk, devices, registry, env>>

CutOff ==
    /\ mode # "none"
    /\ Fault("cut off") /\ Spare(1)
    /\ Report("none")
    /\ UNCHANGED <<service, disk, devices, registry, env>>

\* Files that are to be deleted are, and the service starts if it can.
Restart ==
    /\ mode = "none"
    /\ whole' = whole \ doomed /\ doomed' = {}
    /\ service' = IF service \in {"none", "marked"} THEN "none"
                  ELSE IF "programs" \in whole' THEN "running"
                  ELSE "stopped"
    /\ uiOpen' = FALSE
    /\ ready' = adapters
    /\ UNCHANGED <<run, legacy, adapters, named, ours, alike, registry, calm>>

DeviceReady ==
    /\ ready # adapters
    /\ ready' = adapters
    /\ UNCHANGED <<run, service, disk, adapters, named, ours, alike, registry, env>>

\* Another product adds an adapter: one that is added while devcon runs, or that
\* has the recorded instance, looks like OrbitLan's.
OtherSetup ==
    /\ at \notin {"devcon", "find"} \/ Fault("other setup")
    /\ Spare(2)
    /\ Appears(NewGuid)
    /\ ready' = ready \cup {NewGuid}
    /\ alike' = IF at \in {"devcon", "find"} \/ ownInstance' = NewGuid
                THEN alike \cup {NewGuid} ELSE alike
    /\ UNCHANGED <<run, service, disk, ours, env>>

OpenUI ==
    /\ "app" \in whole
    /\ ~calm
    /\ uiOpen' = TRUE
    /\ UNCHANGED <<run, service, disk, devices, registry, calm>>

CloseUI ==
    /\ uiOpen
    /\ uiOpen' = FALSE
    /\ UNCHANGED <<run, service, disk, devices, registry, calm>>

CalmDown ==
    /\ ~calm
    /\ calm' = TRUE
    /\ UNCHANGED <<run, service, disk, devices, registry, uiOpen>>

Installed == outcome \in {"installed", "installed portable"}

\* Somebody whose setup failed tries again.
Attempt == ~Installed /\ \E m \in {"install", "portable"} : Begin(m)

Next ==
    \/ \E m \in {"install", "portable", "uninstall"} : Begin(m)
    \/ Step
    \/ ServiceEnds \/ CutOff \/ Restart \/ DeviceReady \/ OtherSetup
    \/ OpenUI \/ CloseUI \/ CalmDown

Spec == Init /\ [][Next]_vars

\* A run goes on, the service stops at last, which WindowsService shows of a
\* service with callers, and windows are closed for setup.
Fairness ==
    /\ WF_vars(Step) /\ WF_vars(Attempt) /\ WF_vars(CalmDown)
    /\ WF_vars(ServiceEnds) /\ WF_vars(DeviceReady) /\ WF_vars(CloseUI)
    /\ WF_vars(doomed # {} /\ Restart)

FairSpec == Spec /\ Fairness

-----------------------------------------------------------------------------
(* Properties *)

\* service_main.cpp, FindOrbitLanAdapter: the adapter of the registry, or if there
\* is none there, the one with the name.
ServiceAdapter == {a \in adapters : a = IF ownGuid # None THEN ownGuid ELSE named}

\* Setup reports success only of a whole installation: every file is there and the
\* service runs, whatever this run and earlier ones ran into.
SuccessIsComplete ==
    [][Installed' /\ ~Installed =>
         Payload(mode) \subseteq whole' /\ service' = "running"]_vars

\* Unless the registry refused a value in this run, the service will find the
\* adapter, whatever records earlier runs left behind.
SuccessIsRecorded ==
    [][Installed' /\ ~Installed /\ ~lost => ServiceAdapter' # {}]_vars

\* "Installation completed successfully" (setup_main.cpp:690), without that proviso
SuccessIsFound ==
    [][Installed' /\ ~Installed => ServiceAdapter' # {}]_vars

\* A service that Windows would start has its programs: they are replaced and
\* removed only while there is no service.
ServiceHasPrograms ==
    service \in {"stopped", "running"} => "programs" \in whole

\* What setup reported installed stays until setup runs again.
InstalledStays ==
    /\ outcome = "installed" => Payload("install") \subseteq whole
    /\ outcome = "installed portable" => Payload("portable") \subseteq whole

\* After an uninstallation no adapter that OrbitLan made is left.
NoAdapterLeft == outcome = "removed" => ours = {}

\* Adapters of other products are never set up, renamed or removed, unless they
\* came while devcon ran, have the instance that a cut-off run left in the registry,
\* or were alone beside a legacy installation.
StrangersLeftAlone ==
    [][/\ Strangers \subseteq adapters'
       /\ Strangers' \cap {target', named'} = {}]_vars

\* The same without exceptions: "removes ... owned TAP adapter" (README.md:171)
OthersStay == [][Others \subseteq adapters']_vars

\* Once nothing goes wrong any more setup can be repeated, from wherever it was
\* left, until it succeeds.
RepairSucceeds == calm ~> Installed

=============================================================================
