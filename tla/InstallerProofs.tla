------------------------- MODULE InstallerProofs -------------------------
(***************************************************************************)
(* Proofs about setup, for any set of adapters and any faults.             *)
(***************************************************************************)
EXTENDS Installer, FiniteSetTheorems, TLAPS

LEMMA NewGuidIsNew ==
  Fresh # {} \/ Spare(1) \/ Spare(2) => NewGuid \in Adapters \ adapters
<1>1. ASSUME Fresh = {} PROVE ~Spare(1) /\ ~Spare(2)
  BY <1>1, FS_EmptySet DEF Spare
<1>2. ASSUME Fresh # {} PROVE NewGuid \in Adapters \ adapters
  <2>1. \E a \in Adapters : a \in Fresh
    BY <1>2 DEF Fresh
  <2>2. NewGuid \in Adapters /\ NewGuid \in Fresh
    BY <2>1 DEF NewGuid
  <2> QED
    BY <2>2 DEF Fresh
<1> QED
  BY <1>1, <1>2

LEMMA TypeInit == Init => TypeOK
<1> SUFFICES ASSUME Init PROVE TypeOK
  OBVIOUS
<1>1. TypeRun
  BY DEF Init, TypeRun, AdapterOrNone
<1>2. TypeDisk
  BY DEF Init, TypeDisk
<1>3. TypeDevices
  BY AdaptersAssumption DEF Init, TypeDevices, AdapterOrNone
<1> QED
  BY <1>1, <1>2, <1>3 DEF TypeOK

LEMMA TypeStep == TypeOK /\ [Next]_vars => TypeOK'
<1> SUFFICES ASSUME TypeOK, [Next]_vars PROVE TypeOK'
  OBVIOUS
<1>1. ASSUME NEW m \in {"install", "portable", "uninstall"}, Begin(m) PROVE TypeOK'
  <2>1. TypeRun'
    BY <1>1 DEF Begin, Fault, disk, devices, env, TypeOK, TypeRun, TypeDevices, Steps,
        AdapterOrNone, Files, registry, run
  <2>2. TypeDisk'
    BY <1>1 DEF Begin, Fault, disk, devices, env, TypeOK, TypeRun, TypeDisk, Files
  <2>3. TypeDevices'
    BY <1>1 DEF Begin, Fault, disk, devices, env, TypeOK, TypeRun, TypeDevices,
        AdapterOrNone, registry
  <2> QED
    BY <2>1, <2>2, <2>3 DEF TypeOK
<1>2. CASE Validate
  <2>1. TypeRun'
    BY <1>2 DEF Validate, Go, Fault, Report, disk, devices, registry, env, TypeOK,
        TypeRun, TypeDevices, Steps, AdapterOrNone, Files, run
  <2>2. TypeDisk'
    BY <1>2 DEF Validate, Go, Fault, Report, disk, devices, registry, env, TypeOK,
        TypeRun, TypeDisk, Files
  <2>3. TypeDevices'
    BY <1>2 DEF Validate, Go, Fault, Report, disk, devices, registry, env, TypeOK,
        TypeRun, TypeDevices, AdapterOrNone
  <2> QED
    BY <2>1, <2>2, <2>3 DEF TypeOK
<1>3. CASE ControlStop
  <2>1. TypeRun'
    BY <1>3 DEF ControlStop, Go, Fault, Report, disk, devices, registry, env, TypeOK,
        TypeRun, TypeDevices, Steps, AdapterOrNone, Files, run
  <2>2. TypeDisk'
    BY <1>3 DEF ControlStop, Go, Fault, Report, disk, devices, registry, env, TypeOK,
        TypeRun, TypeDisk, Files
  <2>3. TypeDevices'
    BY <1>3 DEF ControlStop, Go, Fault, Report, disk, devices, registry, env, TypeOK,
        TypeRun, TypeDevices, AdapterOrNone
  <2> QED
    BY <2>1, <2>2, <2>3 DEF TypeOK
<1>4. CASE DeleteService
  <2>1. TypeRun'
    BY <1>4 DEF DeleteService, Fault, Go, Payload, disk, devices, registry, env, Files,
        TypeOK, TypeRun, TypeDevices, Steps, AdapterOrNone, run
  <2>2. TypeDisk'
    BY <1>4 DEF DeleteService, Fault, Go, Payload, disk, devices, registry, env, Files,
        TypeOK, TypeRun, TypeDisk
  <2>3. TypeDevices'
    BY <1>4 DEF DeleteService, Fault, Go, disk, devices, registry, env, TypeOK, TypeRun,
        TypeDevices, AdapterOrNone
  <2> QED
    BY <2>1, <2>2, <2>3 DEF TypeOK
<1>5. CASE DeleteFails
  <2>1. TypeRun'
    BY <1>5 DEF DeleteFails, Fault, Report, disk, devices, registry, env, TypeOK,
        TypeRun, TypeDevices, Steps, AdapterOrNone, Files, run
  <2>2. TypeDisk'
    BY <1>5 DEF DeleteFails, Fault, Report, disk, devices, registry, env, TypeOK,
        TypeRun, TypeDisk, Files
  <2>3. TypeDevices'
    BY <1>5 DEF DeleteFails, Fault, Report, disk, devices, registry, env, TypeOK,
        TypeRun, TypeDevices, AdapterOrNone
  <2> QED
    BY <2>1, <2>2, <2>3 DEF TypeOK
<1>6. CASE CopyFails
  <2>1. TypeRun'
    BY <1>6 DEF CopyFails, NextFiles, InUse, Fault, Tear, Report, devices, registry,
        env, ProcessRuns, TypeOK, TypeRun, TypeDevices, Steps, AdapterOrNone, Files,
        disk, run
  <2>2. TypeDisk'
    BY <1>6 DEF CopyFails, NextFiles, InUse, Fault, Tear, Report, devices, registry,
        env, ProcessRuns, TypeOK, TypeRun, TypeDisk, Files, disk
  <2>3. TypeDevices'
    BY <1>6 DEF CopyFails, Fault, Tear, Report, devices, registry, env, TypeOK, TypeRun,
        TypeDevices, AdapterOrNone
  <2> QED
    BY <2>1, <2>2, <2>3 DEF TypeOK
<1>7. CASE CopyFile
  <2>1. TypeRun'
    BY <1>7 DEF CopyFile, NextFiles, InUse, devices, registry, env, ProcessRuns, TypeOK,
        TypeRun, TypeDevices, Steps, AdapterOrNone, Files, disk, run
  <2>2. TypeDisk'
    BY <1>7 DEF CopyFile, NextFiles, InUse, devices, registry, env, ProcessRuns, TypeOK,
        TypeRun, TypeDisk, Files, disk
  <2>3. TypeDevices'
    BY <1>7 DEF CopyFile, devices, registry, env, TypeOK, TypeRun, TypeDevices,
        AdapterOrNone
  <2> QED
    BY <2>1, <2>2, <2>3 DEF TypeOK
<1>8. CASE CutOffCopying
  <2>1. TypeRun'
    BY <1>8 DEF CutOffCopying, Fault, Tear, Report, devices, registry, env, NextFiles,
        InUse, ProcessRuns, TypeOK, TypeRun, TypeDevices, Steps, AdapterOrNone, Files,
        disk, run
  <2>2. TypeDisk'
    BY <1>8 DEF CutOffCopying, Fault, Tear, Report, devices, registry, env, NextFiles,
        InUse, ProcessRuns, TypeOK, TypeRun, TypeDisk, Files, disk
  <2>3. TypeDevices'
    BY <1>8 DEF CutOffCopying, Fault, Tear, Report, devices, registry, env, TypeOK,
        TypeRun, TypeDevices, AdapterOrNone
  <2> QED
    BY <2>1, <2>2, <2>3 DEF TypeOK
<1>9. CASE CopyDone
  <2>1. TypeRun'
    BY <1>9 DEF CopyDone, Go, disk, devices, registry, env, TypeOK, TypeRun,
        TypeDevices, Steps, AdapterOrNone, Files, run
  <2>2. TypeDisk'
    BY <1>9 DEF CopyDone, Go, disk, devices, registry, env, TypeOK, TypeRun, TypeDisk,
        Files
  <2>3. TypeDevices'
    BY <1>9 DEF CopyDone, Go, disk, devices, registry, env, TypeOK, TypeRun,
        TypeDevices, AdapterOrNone
  <2> QED
    BY <2>1, <2>2, <2>3 DEF TypeOK
<1>10. CASE Adopt
  <2>1. TypeRun'
    BY <1>10 DEF Adopt, WriteAdapterOwnership, Others, Go, disk, registry, env, TypeOK,
        TypeRun, TypeDevices, Steps, AdapterOrNone, Files, devices, run
  <2>2. TypeDisk'
    BY <1>10 DEF Adopt, WriteAdapterOwnership, Others, Go, disk, registry, env, TypeOK,
        TypeRun, TypeDisk, Files
  <2>3. TypeDevices'
    BY <1>10 DEF Adopt, WriteAdapterOwnership, Others, Go, disk, registry, env, TypeOK,
        TypeRun, TypeDevices, AdapterOrNone, devices
  <2> QED
    BY <2>1, <2>2, <2>3 DEF TypeOK
<1>11. CASE RemoveLegacyPayload
  <2>1. TypeRun'
    BY <1>11 DEF RemoveLegacyPayload, Go, devices, registry, env, TypeOK, TypeRun,
        TypeDevices, Steps, AdapterOrNone, Files, disk, run
  <2>2. TypeDisk'
    BY <1>11 DEF RemoveLegacyPayload, Go, devices, registry, env, TypeOK, TypeRun,
        TypeDisk, Files, disk
  <2>3. TypeDevices'
    BY <1>11 DEF RemoveLegacyPayload, Go, devices, registry, env, TypeOK, TypeRun,
        TypeDevices, AdapterOrNone
  <2> QED
    BY <2>1, <2>2, <2>3 DEF TypeOK
<1>12. CASE UseNamed
  <2>1. TypeRun'
    BY <1>12 DEF UseNamed, WriteAdapterOwnership, disk, devices, registry, env, TypeOK,
        TypeRun, TypeDevices, Steps, AdapterOrNone, Files, run
  <2>2. TypeDisk'
    BY <1>12 DEF UseNamed, WriteAdapterOwnership, disk, devices, registry, env, TypeOK,
        TypeRun, TypeDisk, Files
  <2>3. TypeDevices'
    BY <1>12 DEF UseNamed, WriteAdapterOwnership, disk, devices, registry, env, TypeOK,
        TypeRun, TypeDevices, AdapterOrNone
  <2> QED
    BY <2>1, <2>2, <2>3 DEF TypeOK
<1>13. CASE UseInterrupted
  <2>1. TypeRun'
    BY <1>13 DEF UseInterrupted, Owned, WriteAdapterOwnership, disk, devices, registry,
        env, TypeOK, TypeRun, TypeDevices, Steps, AdapterOrNone, Files, run
  <2>2. TypeDisk'
    BY <1>13 DEF UseInterrupted, Owned, WriteAdapterOwnership, disk, devices, registry,
        env, TypeOK, TypeRun, TypeDisk, Files
  <2>3. TypeDevices'
    BY <1>13 DEF UseInterrupted, Owned, WriteAdapterOwnership, disk, devices, registry,
        env, TypeOK, TypeRun, TypeDevices, AdapterOrNone
  <2> QED
    BY <2>1, <2>2, <2>3 DEF TypeOK
<1>14. CASE NeedNew
  <2>1. TypeRun'
    BY <1>14 DEF NeedNew, Owned, disk, devices, registry, env, TypeOK, TypeRun,
        TypeDevices, Steps, AdapterOrNone, Files, run
  <2>2. TypeDisk'
    BY <1>14 DEF NeedNew, Owned, disk, devices, registry, env, TypeOK, TypeRun,
        TypeDisk, Files
  <2>3. TypeDevices'
    BY <1>14 DEF NeedNew, Owned, disk, devices, registry, env, TypeOK, TypeRun,
        TypeDevices, AdapterOrNone
  <2> QED
    BY <2>1, <2>2, <2>3 DEF TypeOK
<1>15. CASE Devcon
  <2>1. TypeRun'
    BY <1>15, NewGuidIsNew DEF Devcon, Appears, Fault, Go, disk, env, TypeOK, TypeRun,
        TypeDevices, Steps, AdapterOrNone, Files, devices, registry, run
  <2>2. TypeDisk'
    BY <1>15, NewGuidIsNew DEF Devcon, Appears, Fault, Go, disk, env, TypeOK, TypeRun,
        TypeDisk, Files
  <2>3. TypeDevices'
    BY <1>15, NewGuidIsNew DEF Devcon, Appears, Fault, Go, disk, env, TypeOK, TypeRun,
        TypeDevices, AdapterOrNone, devices, registry
  <2> QED
    BY <2>1, <2>2, <2>3 DEF TypeOK
<1>16. CASE DevconFails
  <2>1. TypeRun'
    BY <1>16, NewGuidIsNew DEF DevconFails, Fault, devices, registry, Appears, Report,
        disk, env, TypeOK, TypeRun, TypeDevices, Steps, AdapterOrNone, Files, run
  <2>2. TypeDisk'
    BY <1>16, NewGuidIsNew DEF DevconFails, Fault, devices, registry, Appears, Report,
        disk, env, TypeOK, TypeRun, TypeDisk, Files
  <2>3. TypeDevices'
    BY <1>16, NewGuidIsNew DEF DevconFails, Fault, devices, registry, Appears, Report,
        disk, env, TypeOK, TypeRun, TypeDevices, AdapterOrNone
  <2> QED
    BY <2>1, <2>2, <2>3 DEF TypeOK
<1>17. CASE Find
  <2>1. TypeRun'
    BY <1>17 DEF Find, WriteAdapterOwnership, Report, disk, devices, registry, env,
        TypeOK, TypeRun, TypeDevices, Steps, AdapterOrNone, Files, run
  <2>2. TypeDisk'
    BY <1>17 DEF Find, WriteAdapterOwnership, Report, disk, devices, registry, env,
        TypeOK, TypeRun, TypeDisk, Files
  <2>3. TypeDevices'
    BY <1>17 DEF Find, WriteAdapterOwnership, Report, disk, devices, registry, env,
        TypeOK, TypeRun, TypeDevices, AdapterOrNone
  <2> QED
    BY <2>1, <2>2, <2>3 DEF TypeOK
<1>18. CASE OwnInstance
  <2>1. TypeRun'
    BY <1>18 DEF OwnInstance, Fault, Go, disk, devices, env, TypeOK, TypeRun,
        TypeDevices, Steps, AdapterOrNone, Files, registry, run
  <2>2. TypeDisk'
    BY <1>18 DEF OwnInstance, Fault, Go, disk, devices, env, TypeOK, TypeRun, TypeDisk,
        Files
  <2>3. TypeDevices'
    BY <1>18 DEF OwnInstance, Fault, Go, disk, devices, env, TypeOK, TypeRun,
        TypeDevices, AdapterOrNone, registry
  <2> QED
    BY <2>1, <2>2, <2>3 DEF TypeOK
<1>19. CASE OwnGuid
  <2>1. TypeRun'
    BY <1>19 DEF OwnGuid, Fault, Go, disk, devices, env, TypeOK, TypeRun, TypeDevices,
        Steps, AdapterOrNone, Files, registry, run
  <2>2. TypeDisk'
    BY <1>19 DEF OwnGuid, Fault, Go, disk, devices, env, TypeOK, TypeRun, TypeDisk,
        Files
  <2>3. TypeDevices'
    BY <1>19 DEF OwnGuid, Fault, Go, disk, devices, env, TypeOK, TypeRun, TypeDevices,
        AdapterOrNone, registry
  <2> QED
    BY <2>1, <2>2, <2>3 DEF TypeOK
<1>20. CASE Rename
  <2>1. TypeRun'
    BY <1>20 DEF Rename, Go, disk, registry, env, TypeOK, TypeRun, TypeDevices, Steps,
        AdapterOrNone, Files, devices, run
  <2>2. TypeDisk'
    BY <1>20 DEF Rename, Go, disk, registry, env, TypeOK, TypeRun, TypeDisk, Files
  <2>3. TypeDevices'
    BY <1>20 DEF Rename, Go, disk, registry, env, TypeOK, TypeRun, TypeDevices,
        AdapterOrNone, devices
  <2> QED
    BY <2>1, <2>2, <2>3 DEF TypeOK
<1>21. CASE Verify
  <2>1. TypeRun'
    BY <1>21 DEF Verify, Owned, Report, Go, disk, devices, registry, env, TypeOK,
        TypeRun, TypeDevices, Steps, AdapterOrNone, Files, run
  <2>2. TypeDisk'
    BY <1>21 DEF Verify, Owned, Report, Go, disk, devices, registry, env, TypeOK,
        TypeRun, TypeDisk, Files
  <2>3. TypeDevices'
    BY <1>21 DEF Verify, Owned, Report, Go, disk, devices, registry, env, TypeOK,
        TypeRun, TypeDevices, AdapterOrNone
  <2> QED
    BY <2>1, <2>2, <2>3 DEF TypeOK
<1>22. CASE CreateService
  <2>1. TypeRun'
    BY <1>22 DEF CreateService, Go, Fault, Report, disk, devices, registry, env, TypeOK,
        TypeRun, TypeDevices, Steps, AdapterOrNone, Files, run
  <2>2. TypeDisk'
    BY <1>22 DEF CreateService, Go, Fault, Report, disk, devices, registry, env, TypeOK,
        TypeRun, TypeDisk, Files
  <2>3. TypeDevices'
    BY <1>22 DEF CreateService, Go, Fault, Report, disk, devices, registry, env, TypeOK,
        TypeRun, TypeDevices, AdapterOrNone
  <2> QED
    BY <2>1, <2>2, <2>3 DEF TypeOK
<1>23. CASE Register
  <2>1. TypeRun'
    BY <1>23 DEF Register, Report, Fault, disk, devices, registry, env, TypeOK, TypeRun,
        TypeDevices, Steps, AdapterOrNone, Files, run
  <2>2. TypeDisk'
    BY <1>23 DEF Register, Report, Fault, disk, devices, registry, env, TypeOK, TypeRun,
        TypeDisk, Files
  <2>3. TypeDevices'
    BY <1>23 DEF Register, Report, Fault, disk, devices, registry, env, TypeOK, TypeRun,
        TypeDevices, AdapterOrNone
  <2> QED
    BY <2>1, <2>2, <2>3 DEF TypeOK
<1>24. CASE RemoveAdapter
  <2>1. TypeRun'
    BY <1>24 DEF RemoveAdapter, Fault, devices, Go, disk, env, TypeOK, TypeRun,
        TypeDevices, Steps, AdapterOrNone, Files, registry, run
  <2>2. TypeDisk'
    BY <1>24 DEF RemoveAdapter, Fault, devices, Go, disk, env, TypeOK, TypeRun,
        TypeDisk, Files
  <2>3. TypeDevices'
    BY <1>24 DEF RemoveAdapter, Fault, devices, Go, disk, env, TypeOK, TypeRun,
        TypeDevices, AdapterOrNone, registry
  <2> QED
    BY <2>1, <2>2, <2>3 DEF TypeOK
<1>25. CASE Forget
  <2>1. TypeRun'
    BY <1>25 DEF Forget, Fault, Go, disk, devices, env, TypeOK, TypeRun, TypeDevices,
        Steps, AdapterOrNone, Files, registry, run
  <2>2. TypeDisk'
    BY <1>25 DEF Forget, Fault, Go, disk, devices, env, TypeOK, TypeRun, TypeDisk, Files
  <2>3. TypeDevices'
    BY <1>25 DEF Forget, Fault, Go, disk, devices, env, TypeOK, TypeRun, TypeDevices,
        AdapterOrNone, registry
  <2> QED
    BY <2>1, <2>2, <2>3 DEF TypeOK
<1>26. CASE DeleteFiles
  <2>1. TypeRun'
    BY <1>26 DEF DeleteFiles, InUse, Report, devices, registry, env, ProcessRuns,
        TypeOK, TypeRun, TypeDevices, Steps, AdapterOrNone, Files, disk, run
  <2>2. TypeDisk'
    BY <1>26 DEF DeleteFiles, InUse, Report, devices, registry, env, ProcessRuns,
        TypeOK, TypeRun, TypeDisk, Files, disk
  <2>3. TypeDevices'
    BY <1>26 DEF DeleteFiles, Report, devices, registry, env, TypeOK, TypeRun,
        TypeDevices, AdapterOrNone
  <2> QED
    BY <2>1, <2>2, <2>3 DEF TypeOK
<1>27. CASE CutOffDeleting
  <2>1. TypeRun'
    BY <1>27 DEF CutOffDeleting, Fault, Files, InUse, Report, devices, registry, env,
        ProcessRuns, TypeOK, TypeRun, TypeDevices, Steps, AdapterOrNone, disk, run
  <2>2. TypeDisk'
    BY <1>27 DEF CutOffDeleting, Fault, Files, InUse, Report, devices, registry, env,
        ProcessRuns, TypeOK, TypeRun, TypeDisk, disk
  <2>3. TypeDevices'
    BY <1>27 DEF CutOffDeleting, Fault, Report, devices, registry, env, TypeOK, TypeRun,
        TypeDevices, AdapterOrNone
  <2> QED
    BY <2>1, <2>2, <2>3 DEF TypeOK
<1>28. CASE ServiceEnds
  <2>1. TypeRun'
    BY <1>28 DEF ServiceEnds, run, disk, devices, registry, env, TypeOK, TypeRun,
        TypeDevices, Steps, AdapterOrNone, Files
  <2>2. TypeDisk'
    BY <1>28 DEF ServiceEnds, run, disk, devices, registry, env, TypeOK, TypeRun,
        TypeDisk, Files
  <2>3. TypeDevices'
    BY <1>28 DEF ServiceEnds, run, disk, devices, registry, env, TypeOK, TypeRun,
        TypeDevices, AdapterOrNone
  <2> QED
    BY <2>1, <2>2, <2>3 DEF TypeOK
<1>29. CASE CutOff
  <2>1. TypeRun'
    BY <1>29 DEF CutOff, Fault, Report, disk, devices, registry, env, TypeOK, TypeRun,
        TypeDevices, Steps, AdapterOrNone, Files, run
  <2>2. TypeDisk'
    BY <1>29 DEF CutOff, Fault, Report, disk, devices, registry, env, TypeOK, TypeRun,
        TypeDisk, Files
  <2>3. TypeDevices'
    BY <1>29 DEF CutOff, Fault, Report, disk, devices, registry, env, TypeOK, TypeRun,
        TypeDevices, AdapterOrNone
  <2> QED
    BY <2>1, <2>2, <2>3 DEF TypeOK
<1>30. CASE Restart
  <2>1. TypeRun'
    BY <1>30 DEF Restart, run, registry, TypeOK, TypeRun, TypeDevices, Steps,
        AdapterOrNone, Files, disk, devices, env
  <2>2. TypeDisk'
    BY <1>30 DEF Restart, run, registry, TypeOK, TypeRun, TypeDisk, Files, disk, env
  <2>3. TypeDevices'
    BY <1>30 DEF Restart, run, registry, TypeOK, TypeRun, TypeDevices, AdapterOrNone,
        devices
  <2> QED
    BY <2>1, <2>2, <2>3 DEF TypeOK
<1>31. CASE DeviceReady
  <2>1. TypeRun'
    BY <1>31 DEF DeviceReady, run, disk, registry, env, TypeOK, TypeRun, TypeDevices,
        Steps, AdapterOrNone, Files, devices
  <2>2. TypeDisk'
    BY <1>31 DEF DeviceReady, run, disk, registry, env, TypeOK, TypeRun, TypeDisk, Files
  <2>3. TypeDevices'
    BY <1>31 DEF DeviceReady, run, disk, registry, env, TypeOK, TypeRun, TypeDevices,
        AdapterOrNone, devices
  <2> QED
    BY <2>1, <2>2, <2>3 DEF TypeOK
<1>32. CASE OtherSetup
  <2>1. TypeRun'
    BY <1>32, NewGuidIsNew DEF OtherSetup, Fault, Appears, run, disk, env, TypeOK,
        TypeRun, TypeDevices, Steps, AdapterOrNone, Files, devices, registry
  <2>2. TypeDisk'
    BY <1>32, NewGuidIsNew DEF OtherSetup, Fault, Appears, run, disk, env, TypeOK,
        TypeRun, TypeDisk, Files
  <2>3. TypeDevices'
    BY <1>32, NewGuidIsNew DEF OtherSetup, Fault, Appears, run, disk, env, TypeOK,
        TypeRun, TypeDevices, AdapterOrNone, devices, registry
  <2> QED
    BY <2>1, <2>2, <2>3 DEF TypeOK
<1>33. CASE OpenUI
  <2>1. TypeRun'
    BY <1>33 DEF OpenUI, run, disk, devices, registry, TypeOK, TypeRun, TypeDevices,
        Steps, AdapterOrNone, Files, env
  <2>2. TypeDisk'
    BY <1>33 DEF OpenUI, run, disk, devices, registry, TypeOK, TypeRun, TypeDisk, Files,
        env
  <2>3. TypeDevices'
    BY <1>33 DEF OpenUI, run, disk, devices, registry, TypeOK, TypeRun, TypeDevices,
        AdapterOrNone
  <2> QED
    BY <2>1, <2>2, <2>3 DEF TypeOK
<1>34. CASE CloseUI
  <2>1. TypeRun'
    BY <1>34 DEF CloseUI, run, disk, devices, registry, TypeOK, TypeRun, TypeDevices,
        Steps, AdapterOrNone, Files, env
  <2>2. TypeDisk'
    BY <1>34 DEF CloseUI, run, disk, devices, registry, TypeOK, TypeRun, TypeDisk,
        Files, env
  <2>3. TypeDevices'
    BY <1>34 DEF CloseUI, run, disk, devices, registry, TypeOK, TypeRun, TypeDevices,
        AdapterOrNone
  <2> QED
    BY <2>1, <2>2, <2>3 DEF TypeOK
<1>35. CASE CalmDown
  <2>1. TypeRun'
    BY <1>35 DEF CalmDown, run, disk, devices, registry, TypeOK, TypeRun, TypeDevices,
        Steps, AdapterOrNone, Files, env
  <2>2. TypeDisk'
    BY <1>35 DEF CalmDown, run, disk, devices, registry, TypeOK, TypeRun, TypeDisk,
        Files, env
  <2>3. TypeDevices'
    BY <1>35 DEF CalmDown, run, disk, devices, registry, TypeOK, TypeRun, TypeDevices,
        AdapterOrNone
  <2> QED
    BY <2>1, <2>2, <2>3 DEF TypeOK
<1>36. CASE UNCHANGED vars
  <2>1. TypeRun'
    BY <1>36 DEF vars, run, disk, devices, registry, env, TypeOK, TypeRun, TypeDevices,
        Steps, AdapterOrNone, Files
  <2>2. TypeDisk'
    BY <1>36 DEF vars, run, disk, devices, registry, env, TypeOK, TypeRun, TypeDisk,
        Files
  <2>3. TypeDevices'
    BY <1>36 DEF vars, run, disk, devices, registry, env, TypeOK, TypeRun, TypeDevices,
        AdapterOrNone
  <2> QED
    BY <2>1, <2>2, <2>3 DEF TypeOK
<1> QED
  BY <1>1, <1>2, <1>3, <1>4, <1>5, <1>6, <1>7, <1>8, <1>9, <1>10, <1>11, <1>12, <1>13,
      <1>14, <1>15, <1>16, <1>17, <1>18, <1>19, <1>20, <1>21, <1>22, <1>23, <1>24,
      <1>25, <1>26, <1>27, <1>28, <1>29, <1>30, <1>31, <1>32, <1>33, <1>34, <1>35, <1>36
      DEF Next, Step

\* Every variable keeps to its type, through every run of setup and every fault.
THEOREM TypeCorrect == Spec => []TypeOK
<1> QED
  BY TypeInit, TypeStep, PTL DEF Spec

-----------------------------------------------------------------------------
(* Success *)

Late == {"adopt", "legacy files", "adapter", "devcon", "find", "own", "own guid",
         "rename", "verify", "service", "register"}

AtWork == at # "" => mode # "none"

\* What was copied stays as long as setup runs.
Copied ==
    /\ at = "copy" => Payload(mode) \ todo \subseteq whole
    /\ at \in Late => Payload(mode) \subseteq whole

Started == at = "register" => service = "running"

SInv == AtWork /\ Copied /\ Started

LEMMA SInit == Init => SInv
BY DEF Init, SInv, AtWork, Copied, Started, Late

LEMMA SStep == TypeOK /\ SInv /\ [Next]_vars => SInv'
<1> SUFFICES ASSUME TypeOK, SInv, [Next]_vars PROVE SInv'
  OBVIOUS
<1>1. ASSUME NEW m \in {"install", "portable", "uninstall"}, Begin(m) PROVE SInv'
  <2>1. AtWork'
    BY <1>1 DEF Begin, Fault, disk, devices, env, SInv, AtWork, TypeOK, TypeRun, run
  <2>2. Copied'
    BY <1>1 DEF Begin, Fault, disk, devices, env, SInv, AtWork, Copied, Late, Payload,
        TypeOK, TypeRun, Files, run
  <2>3. Started'
    BY <1>1 DEF Begin, Fault, disk, devices, env, SInv, AtWork, Started, TypeOK,
        TypeRun, run
  <2> QED
    BY <2>1, <2>2, <2>3 DEF SInv
<1>2. CASE Validate
  <2>1. AtWork'
    BY <1>2 DEF Validate, Go, Fault, Report, disk, devices, registry, env, SInv, AtWork,
        TypeOK, TypeRun, run
  <2>2. Copied'
    BY <1>2 DEF Validate, Go, Fault, Report, disk, devices, registry, env, SInv, AtWork,
        Copied, Late, Payload, TypeOK, TypeRun, Files, run
  <2>3. Started'
    BY <1>2 DEF Validate, Go, Fault, Report, disk, devices, registry, env, SInv, AtWork,
        Started, TypeOK, TypeRun, run
  <2> QED
    BY <2>1, <2>2, <2>3 DEF SInv
<1>3. CASE ControlStop
  <2>1. AtWork'
    BY <1>3 DEF ControlStop, Go, Fault, Report, disk, devices, registry, env, SInv,
        AtWork, TypeOK, TypeRun, run
  <2>2. Copied'
    BY <1>3 DEF ControlStop, Go, Fault, Report, disk, devices, registry, env, SInv,
        AtWork, Copied, Late, Payload, TypeOK, TypeRun, Files, run
  <2>3. Started'
    BY <1>3 DEF ControlStop, Go, Fault, Report, disk, devices, registry, env, SInv,
        AtWork, Started, TypeOK, TypeRun, run
  <2> QED
    BY <2>1, <2>2, <2>3 DEF SInv
<1>4. CASE DeleteService
  <2>1. AtWork'
    BY <1>4 DEF DeleteService, Fault, Go, disk, devices, registry, env, SInv, AtWork,
        TypeOK, TypeRun, run
  <2>2. Copied'
    BY <1>4 DEF DeleteService, Fault, Go, Payload, disk, devices, registry, env, Files,
        SInv, AtWork, Copied, Late, TypeOK, TypeRun, run
  <2>3. Started'
    BY <1>4 DEF DeleteService, Fault, Go, disk, devices, registry, env, SInv, AtWork,
        Started, TypeOK, TypeRun, run
  <2> QED
    BY <2>1, <2>2, <2>3 DEF SInv
<1>5. CASE DeleteFails
  <2>1. AtWork'
    BY <1>5 DEF DeleteFails, Fault, Report, disk, devices, registry, env, SInv, AtWork,
        TypeOK, TypeRun, run
  <2>2. Copied'
    BY <1>5 DEF DeleteFails, Fault, Report, disk, devices, registry, env, SInv, AtWork,
        Copied, Late, Payload, TypeOK, TypeRun, Files, run
  <2>3. Started'
    BY <1>5 DEF DeleteFails, Fault, Report, disk, devices, registry, env, SInv, AtWork,
        Started, TypeOK, TypeRun, run
  <2> QED
    BY <2>1, <2>2, <2>3 DEF SInv
<1>6. CASE CopyFails
  <2>1. AtWork'
    BY <1>6 DEF CopyFails, Fault, Tear, Report, devices, registry, env, SInv, AtWork,
        TypeOK, TypeRun, run
  <2>2. Copied'
    BY <1>6 DEF CopyFails, NextFiles, InUse, Fault, Tear, Report, devices, registry,
        env, ProcessRuns, SInv, AtWork, Copied, Late, Payload, TypeOK, TypeRun, Files,
        disk, run
  <2>3. Started'
    BY <1>6 DEF CopyFails, Fault, Tear, Report, devices, registry, env, SInv, AtWork,
        Started, TypeOK, TypeRun, run
  <2> QED
    BY <2>1, <2>2, <2>3 DEF SInv
<1>7. CASE CopyFile
  <2>1. (AtWork /\ Started)'
    BY <1>7 DEF CopyFile, devices, registry, env, SInv, AtWork, TypeOK, TypeRun, run,
        Started
  <2>2. Copied'
    BY <1>7 DEF CopyFile, NextFiles, InUse, devices, registry, env, ProcessRuns, SInv,
        AtWork, Copied, Late, Payload, TypeOK, TypeRun, Files, disk, run
  <2> QED
    BY <2>1, <2>2 DEF SInv
<1>8. CASE CutOffCopying
  <2>1. AtWork'
    BY <1>8 DEF CutOffCopying, Fault, Tear, Report, devices, registry, env, SInv,
        AtWork, TypeOK, TypeRun, run
  <2>2. Copied'
    BY <1>8 DEF CutOffCopying, Fault, Tear, Report, devices, registry, env, NextFiles,
        InUse, ProcessRuns, SInv, AtWork, Copied, Late, Payload, TypeOK, TypeRun, Files,
        disk, run
  <2>3. Started'
    BY <1>8 DEF CutOffCopying, Fault, Tear, Report, devices, registry, env, SInv,
        AtWork, Started, TypeOK, TypeRun, run
  <2> QED
    BY <2>1, <2>2, <2>3 DEF SInv
<1>9. CASE CopyDone
  <2>1. AtWork'
    BY <1>9 DEF CopyDone, Go, disk, devices, registry, env, SInv, AtWork, TypeOK,
        TypeRun, run
  <2>2. Copied'
    BY <1>9 DEF CopyDone, Go, disk, devices, registry, env, SInv, AtWork, Copied, Late,
        Payload, TypeOK, TypeRun, Files, run
  <2>3. Started'
    BY <1>9 DEF CopyDone, Go, disk, devices, registry, env, SInv, AtWork, Started,
        TypeOK, TypeRun, run
  <2> QED
    BY <2>1, <2>2, <2>3 DEF SInv
<1>10. CASE Adopt
  <2>1. AtWork'
    BY <1>10 DEF Adopt, WriteAdapterOwnership, Others, Go, disk, registry, env, SInv,
        AtWork, TypeOK, TypeRun, run
  <2>2. Copied'
    BY <1>10 DEF Adopt, WriteAdapterOwnership, Others, Go, disk, registry, env, SInv,
        AtWork, Copied, Late, Payload, TypeOK, TypeRun, Files, run
  <2>3. Started'
    BY <1>10 DEF Adopt, WriteAdapterOwnership, Others, Go, disk, registry, env, SInv,
        AtWork, Started, TypeOK, TypeRun, run
  <2> QED
    BY <2>1, <2>2, <2>3 DEF SInv
<1>11. CASE RemoveLegacyPayload
  <2>1. AtWork'
    BY <1>11 DEF RemoveLegacyPayload, Go, devices, registry, env, SInv, AtWork, TypeOK,
        TypeRun, run
  <2>2. Copied'
    BY <1>11 DEF RemoveLegacyPayload, Go, devices, registry, env, SInv, AtWork, Copied,
        Late, Payload, TypeOK, TypeRun, Files, disk, run
  <2>3. Started'
    BY <1>11 DEF RemoveLegacyPayload, Go, devices, registry, env, SInv, AtWork, Started,
        TypeOK, TypeRun, run
  <2> QED
    BY <2>1, <2>2, <2>3 DEF SInv
<1>12. CASE UseNamed
  <2>1. AtWork'
    BY <1>12 DEF UseNamed, WriteAdapterOwnership, disk, devices, registry, env, SInv,
        AtWork, TypeOK, TypeRun, run
  <2>2. Copied'
    BY <1>12 DEF UseNamed, WriteAdapterOwnership, disk, devices, registry, env, SInv,
        AtWork, Copied, Late, Payload, TypeOK, TypeRun, Files, run
  <2>3. Started'
    BY <1>12 DEF UseNamed, WriteAdapterOwnership, disk, devices, registry, env, SInv,
        AtWork, Started, TypeOK, TypeRun, run
  <2> QED
    BY <2>1, <2>2, <2>3 DEF SInv
<1>13. CASE UseInterrupted
  <2>1. AtWork'
    BY <1>13 DEF UseInterrupted, Owned, WriteAdapterOwnership, disk, devices, registry,
        env, SInv, AtWork, TypeOK, TypeRun, run
  <2>2. Copied'
    BY <1>13 DEF UseInterrupted, Owned, WriteAdapterOwnership, disk, devices, registry,
        env, SInv, AtWork, Copied, Late, Payload, TypeOK, TypeRun, Files, run
  <2>3. Started'
    BY <1>13 DEF UseInterrupted, Owned, WriteAdapterOwnership, disk, devices, registry,
        env, SInv, AtWork, Started, TypeOK, TypeRun, run
  <2> QED
    BY <2>1, <2>2, <2>3 DEF SInv
<1>14. CASE NeedNew
  <2>1. AtWork'
    BY <1>14 DEF NeedNew, Owned, disk, devices, registry, env, SInv, AtWork, TypeOK,
        TypeRun, run
  <2>2. Copied'
    BY <1>14 DEF NeedNew, Owned, disk, devices, registry, env, SInv, AtWork, Copied,
        Late, Payload, TypeOK, TypeRun, Files, run
  <2>3. Started'
    BY <1>14 DEF NeedNew, Owned, disk, devices, registry, env, SInv, AtWork, Started,
        TypeOK, TypeRun, run
  <2> QED
    BY <2>1, <2>2, <2>3 DEF SInv
<1>15. CASE Devcon
  <2>1. AtWork'
    BY <1>15, NewGuidIsNew DEF Devcon, Appears, Fault, Go, disk, env, SInv, AtWork,
        TypeOK, TypeRun, run
  <2>2. Copied'
    BY <1>15, NewGuidIsNew DEF Devcon, Appears, Fault, Go, disk, env, SInv, AtWork,
        Copied, Late, Payload, TypeOK, TypeRun, Files, run
  <2>3. Started'
    BY <1>15, NewGuidIsNew DEF Devcon, Appears, Fault, Go, disk, env, SInv, AtWork,
        Started, TypeOK, TypeRun, run
  <2> QED
    BY <2>1, <2>2, <2>3 DEF SInv
<1>16. CASE DevconFails
  <2>1. AtWork'
    BY <1>16, NewGuidIsNew DEF DevconFails, Fault, devices, registry, Appears, Report,
        disk, env, SInv, AtWork, TypeOK, TypeRun, run
  <2>2. Copied'
    BY <1>16, NewGuidIsNew DEF DevconFails, Fault, devices, registry, Appears, Report,
        disk, env, SInv, AtWork, Copied, Late, Payload, TypeOK, TypeRun, Files, run
  <2>3. Started'
    BY <1>16, NewGuidIsNew DEF DevconFails, Fault, devices, registry, Appears, Report,
        disk, env, SInv, AtWork, Started, TypeOK, TypeRun, run
  <2> QED
    BY <2>1, <2>2, <2>3 DEF SInv
<1>17. CASE Find
  <2>1. AtWork'
    BY <1>17 DEF Find, WriteAdapterOwnership, Report, disk, devices, registry, env,
        SInv, AtWork, TypeOK, TypeRun, run
  <2>2. Copied'
    BY <1>17 DEF Find, WriteAdapterOwnership, Report, disk, devices, registry, env,
        SInv, AtWork, Copied, Late, Payload, TypeOK, TypeRun, Files, run
  <2>3. Started'
    BY <1>17 DEF Find, WriteAdapterOwnership, Report, disk, devices, registry, env,
        SInv, AtWork, Started, TypeOK, TypeRun, run
  <2> QED
    BY <2>1, <2>2, <2>3 DEF SInv
<1>18. CASE OwnInstance
  <2>1. AtWork'
    BY <1>18 DEF OwnInstance, Fault, Go, disk, devices, env, SInv, AtWork, TypeOK,
        TypeRun, run
  <2>2. Copied'
    BY <1>18 DEF OwnInstance, Fault, Go, disk, devices, env, SInv, AtWork, Copied, Late,
        Payload, TypeOK, TypeRun, Files, run
  <2>3. Started'
    BY <1>18 DEF OwnInstance, Fault, Go, disk, devices, env, SInv, AtWork, Started,
        TypeOK, TypeRun, run
  <2> QED
    BY <2>1, <2>2, <2>3 DEF SInv
<1>19. CASE OwnGuid
  <2>1. AtWork'
    BY <1>19 DEF OwnGuid, Fault, Go, disk, devices, env, SInv, AtWork, TypeOK, TypeRun,
        run
  <2>2. Copied'
    BY <1>19 DEF OwnGuid, Fault, Go, disk, devices, env, SInv, AtWork, Copied, Late,
        Payload, TypeOK, TypeRun, Files, run
  <2>3. Started'
    BY <1>19 DEF OwnGuid, Fault, Go, disk, devices, env, SInv, AtWork, Started, TypeOK,
        TypeRun, run
  <2> QED
    BY <2>1, <2>2, <2>3 DEF SInv
<1>20. CASE Rename
  <2>1. AtWork'
    BY <1>20 DEF Rename, Go, disk, registry, env, SInv, AtWork, TypeOK, TypeRun, run
  <2>2. Copied'
    BY <1>20 DEF Rename, Go, disk, registry, env, SInv, AtWork, Copied, Late, Payload,
        TypeOK, TypeRun, Files, run
  <2>3. Started'
    BY <1>20 DEF Rename, Go, disk, registry, env, SInv, AtWork, Started, TypeOK,
        TypeRun, run
  <2> QED
    BY <2>1, <2>2, <2>3 DEF SInv
<1>21. CASE Verify
  <2>1. AtWork'
    BY <1>21 DEF Verify, Owned, Report, Go, disk, devices, registry, env, SInv, AtWork,
        TypeOK, TypeRun, run
  <2>2. Copied'
    BY <1>21 DEF Verify, Owned, Report, Go, disk, devices, registry, env, SInv, AtWork,
        Copied, Late, Payload, TypeOK, TypeRun, Files, run
  <2>3. Started'
    BY <1>21 DEF Verify, Owned, Report, Go, disk, devices, registry, env, SInv, AtWork,
        Started, TypeOK, TypeRun, run
  <2> QED
    BY <2>1, <2>2, <2>3 DEF SInv
<1>22. CASE CreateService
  <2>1. AtWork'
    BY <1>22 DEF CreateService, Go, Fault, Report, disk, devices, registry, env, SInv,
        AtWork, TypeOK, TypeRun, run
  <2>2. Copied'
    BY <1>22 DEF CreateService, Go, Fault, Report, disk, devices, registry, env, SInv,
        AtWork, Copied, Late, Payload, TypeOK, TypeRun, Files, run
  <2>3. Started'
    BY <1>22 DEF CreateService, Go, Fault, Report, disk, devices, registry, env, SInv,
        AtWork, Started, TypeOK, TypeRun, run
  <2> QED
    BY <2>1, <2>2, <2>3 DEF SInv
<1>23. CASE Register
  <2>1. AtWork'
    BY <1>23 DEF Register, Report, Fault, disk, devices, registry, env, SInv, AtWork,
        TypeOK, TypeRun, run
  <2>2. Copied'
    BY <1>23 DEF Register, Report, Fault, disk, devices, registry, env, SInv, AtWork,
        Copied, Late, Payload, TypeOK, TypeRun, Files, run
  <2>3. Started'
    BY <1>23 DEF Register, Report, Fault, disk, devices, registry, env, SInv, AtWork,
        Started, TypeOK, TypeRun, run
  <2> QED
    BY <2>1, <2>2, <2>3 DEF SInv
<1>24. CASE RemoveAdapter
  <2>1. AtWork'
    BY <1>24 DEF RemoveAdapter, Fault, devices, Go, disk, env, SInv, AtWork, TypeOK,
        TypeRun, run
  <2>2. Copied'
    BY <1>24 DEF RemoveAdapter, Fault, devices, Go, disk, env, SInv, AtWork, Copied,
        Late, Payload, TypeOK, TypeRun, Files, run
  <2>3. Started'
    BY <1>24 DEF RemoveAdapter, Fault, devices, Go, disk, env, SInv, AtWork, Started,
        TypeOK, TypeRun, run
  <2> QED
    BY <2>1, <2>2, <2>3 DEF SInv
<1>25. CASE Forget
  <2>1. AtWork'
    BY <1>25 DEF Forget, Fault, Go, disk, devices, env, SInv, AtWork, TypeOK, TypeRun,
        run
  <2>2. Copied'
    BY <1>25 DEF Forget, Fault, Go, disk, devices, env, SInv, AtWork, Copied, Late,
        Payload, TypeOK, TypeRun, Files, run
  <2>3. Started'
    BY <1>25 DEF Forget, Fault, Go, disk, devices, env, SInv, AtWork, Started, TypeOK,
        TypeRun, run
  <2> QED
    BY <2>1, <2>2, <2>3 DEF SInv
<1>26. CASE DeleteFiles
  <2>1. AtWork'
    BY <1>26 DEF DeleteFiles, Report, devices, registry, env, SInv, AtWork, TypeOK,
        TypeRun, run
  <2>2. Copied'
    BY <1>26 DEF DeleteFiles, InUse, Report, devices, registry, env, ProcessRuns, SInv,
        AtWork, Copied, Late, Payload, TypeOK, TypeRun, Files, disk, run
  <2>3. Started'
    BY <1>26 DEF DeleteFiles, Report, devices, registry, env, SInv, AtWork, Started,
        TypeOK, TypeRun, run
  <2> QED
    BY <2>1, <2>2, <2>3 DEF SInv
<1>27. CASE CutOffDeleting
  <2>1. AtWork'
    BY <1>27 DEF CutOffDeleting, Fault, Report, devices, registry, env, SInv, AtWork,
        TypeOK, TypeRun, run
  <2>2. Copied'
    BY <1>27 DEF CutOffDeleting, Fault, Files, InUse, Report, devices, registry, env,
        ProcessRuns, SInv, AtWork, Copied, Late, Payload, TypeOK, TypeRun, disk, run
  <2>3. Started'
    BY <1>27 DEF CutOffDeleting, Fault, Report, devices, registry, env, SInv, AtWork,
        Started, TypeOK, TypeRun, run
  <2> QED
    BY <2>1, <2>2, <2>3 DEF SInv
<1>28. CASE ServiceEnds
  <2>1. (AtWork /\ Copied)'
    BY <1>28 DEF ServiceEnds, run, disk, devices, registry, env, SInv, AtWork, TypeOK,
        TypeRun, Copied, Late, Payload, Files
  <2>2. Started'
    BY <1>28 DEF ServiceEnds, run, disk, devices, registry, env, SInv, AtWork, Started,
        TypeOK, TypeRun
  <2> QED
    BY <2>1, <2>2 DEF SInv
<1>29. CASE CutOff
  <2>1. AtWork'
    BY <1>29 DEF CutOff, Fault, Report, disk, devices, registry, env, SInv, AtWork,
        TypeOK, TypeRun, run
  <2>2. Copied'
    BY <1>29 DEF CutOff, Fault, Report, disk, devices, registry, env, SInv, AtWork,
        Copied, Late, Payload, TypeOK, TypeRun, Files, run
  <2>3. Started'
    BY <1>29 DEF CutOff, Fault, Report, disk, devices, registry, env, SInv, AtWork,
        Started, TypeOK, TypeRun, run
  <2> QED
    BY <2>1, <2>2, <2>3 DEF SInv
<1>30. CASE Restart
  <2>1. AtWork'
    BY <1>30 DEF Restart, run, registry, SInv, AtWork, TypeOK, TypeRun
  <2>2. Copied'
    BY <1>30 DEF Restart, run, registry, SInv, AtWork, Copied, Late, Payload, TypeOK,
        TypeRun, Files, disk
  <2>3. Started'
    BY <1>30 DEF Restart, run, registry, SInv, AtWork, Started, TypeOK, TypeRun
  <2> QED
    BY <2>1, <2>2, <2>3 DEF SInv
<1>31. CASE DeviceReady
  BY <1>31 DEF DeviceReady, run, disk, registry, env, SInv, AtWork, TypeOK, TypeRun,
      Copied, Late, Payload, Files, Started
<1>32. CASE OtherSetup
  BY <1>32 DEF OtherSetup, Appears, run, disk, env, SInv, AtWork, TypeOK, TypeRun,
      Copied, Late, Payload, Files, Started
<1>33. CASE OpenUI
  BY <1>33 DEF OpenUI, run, disk, devices, registry, SInv, AtWork, TypeOK, TypeRun,
      Copied, Late, Payload, Files, Started
<1>34. CASE CloseUI
  BY <1>34 DEF CloseUI, run, disk, devices, registry, SInv, AtWork, TypeOK, TypeRun,
      Copied, Late, Payload, Files, Started
<1>35. CASE CalmDown
  BY <1>35 DEF CalmDown, run, disk, devices, registry, SInv, AtWork, TypeOK, TypeRun,
      Copied, Late, Payload, Files, Started
<1>36. CASE UNCHANGED vars
  <2>1. AtWork'
    BY <1>36 DEF vars, run, disk, devices, registry, env, SInv, AtWork, TypeOK, TypeRun
  <2>2. Copied'
    BY <1>36 DEF vars, run, disk, devices, registry, env, SInv, AtWork, Copied, Late,
        Payload, TypeOK, TypeRun, Files
  <2>3. Started'
    BY <1>36 DEF vars, run, disk, devices, registry, env, SInv, AtWork, Started, TypeOK,
        TypeRun
  <2> QED
    BY <2>1, <2>2, <2>3 DEF SInv
<1> QED
  BY <1>1, <1>2, <1>3, <1>4, <1>5, <1>6, <1>7, <1>8, <1>9, <1>10, <1>11, <1>12, <1>13,
      <1>14, <1>15, <1>16, <1>17, <1>18, <1>19, <1>20, <1>21, <1>22, <1>23, <1>24,
      <1>25, <1>26, <1>27, <1>28, <1>29, <1>30, <1>31, <1>32, <1>33, <1>34, <1>35, <1>36
      DEF Next, Step

LEMMA SAlways == Spec => []SInv
<1>1. Spec => []TypeOK
  BY TypeCorrect
<1>2. TypeOK /\ SInv /\ [Next]_vars => SInv'
  BY SStep
<1> QED
  BY <1>1, <1>2, SInit, PTL DEF Spec

\* Only the last step of setup reports success.
LEMMA OnlyRegisterReports == [Next]_vars /\ ~Register => (Installed' => Installed)
<1>1. SUFFICES ASSUME [Next]_vars, ~Register PROVE Installed' => Installed
  OBVIOUS
<1> QED
  <2>2. ~Register
    BY <1>1
  <2> QED
    <3>1. ASSUME NEW m \in {"install", "portable", "uninstall"}, Begin(m)
          PROVE  Installed' => Installed
      BY <3>1 DEF Begin, run, Installed
    <3>2. ASSUME Validate PROVE Installed' => Installed
      BY <3>2 DEF Validate, Go, Report, run, Installed
    <3>3. ASSUME ControlStop PROVE Installed' => Installed
      BY <3>3 DEF ControlStop, Go, Report, run, Installed
    <3>4. ASSUME DeleteService PROVE Installed' => Installed
      BY <3>4 DEF DeleteService, Go, run, Installed
    <3>5. ASSUME DeleteFails PROVE Installed' => Installed
      BY <3>5 DEF DeleteFails, Report, run, Installed
    <3>6. ASSUME CopyFails PROVE Installed' => Installed
      BY <3>6 DEF CopyFails, Report, run, Installed
    <3>7. ASSUME CopyFile PROVE Installed' => Installed
      BY <3>7 DEF CopyFile, run, Installed
    <3>8. ASSUME CutOffCopying PROVE Installed' => Installed
      BY <3>8 DEF CutOffCopying, Report, run, Installed
    <3>9. ASSUME CopyDone PROVE Installed' => Installed
      BY <3>9 DEF CopyDone, Go, run, Installed
    <3>10. ASSUME Adopt PROVE Installed' => Installed
      BY <3>10 DEF Adopt, WriteAdapterOwnership, Go, run, Installed
    <3>11. ASSUME RemoveLegacyPayload PROVE Installed' => Installed
      BY <3>11 DEF RemoveLegacyPayload, Go, run, Installed
    <3>12. ASSUME UseNamed PROVE Installed' => Installed
      BY <3>12 DEF UseNamed, WriteAdapterOwnership, run, Installed
    <3>13. ASSUME UseInterrupted PROVE Installed' => Installed
      BY <3>13 DEF UseInterrupted, WriteAdapterOwnership, run, Installed
    <3>14. ASSUME NeedNew PROVE Installed' => Installed
      BY <3>14 DEF NeedNew, run, Installed
    <3>15. ASSUME Devcon PROVE Installed' => Installed
      BY <3>15 DEF Devcon, Go, run, Installed
    <3>16. ASSUME DevconFails PROVE Installed' => Installed
      BY <3>16 DEF DevconFails, Report, run, Installed
    <3>17. ASSUME Find PROVE Installed' => Installed
      BY <3>17 DEF Find, WriteAdapterOwnership, Report, run, Installed
    <3>18. ASSUME OwnInstance PROVE Installed' => Installed
      BY <3>18 DEF OwnInstance, Go, run, Installed
    <3>19. ASSUME OwnGuid PROVE Installed' => Installed
      BY <3>19 DEF OwnGuid, Go, run, Installed
    <3>20. ASSUME Rename PROVE Installed' => Installed
      BY <3>20 DEF Rename, Go, run, Installed
    <3>21. ASSUME Verify PROVE Installed' => Installed
      BY <3>21 DEF Verify, Report, Go, run, Installed
    <3>22. ASSUME CreateService PROVE Installed' => Installed
      BY <3>22 DEF CreateService, Go, Report, run, Installed
    <3>23. ASSUME RemoveAdapter PROVE Installed' => Installed
      BY <3>23 DEF RemoveAdapter, Go, run, Installed
    <3>24. ASSUME Forget PROVE Installed' => Installed
      BY <3>24 DEF Forget, Go, run, Installed
    <3>25. ASSUME DeleteFiles PROVE Installed' => Installed
      BY <3>25 DEF DeleteFiles, Report, run, Installed
    <3>26. ASSUME CutOffDeleting PROVE Installed' => Installed
      BY <3>26 DEF CutOffDeleting, Report, run, Installed
    <3>27. ASSUME ServiceEnds PROVE Installed' => Installed
      BY <3>27 DEF ServiceEnds, run, Installed
    <3>28. ASSUME CutOff PROVE Installed' => Installed
      BY <3>28 DEF CutOff, Report, run, Installed
    <3>29. ASSUME Restart PROVE Installed' => Installed
      BY <3>29 DEF Restart, run, Installed
    <3>30. ASSUME DeviceReady PROVE Installed' => Installed
      BY <3>30 DEF DeviceReady, run, Installed
    <3>31. ASSUME OtherSetup PROVE Installed' => Installed
      BY <3>31 DEF OtherSetup, run, Installed
    <3>32. ASSUME OpenUI PROVE Installed' => Installed
      BY <3>32 DEF OpenUI, run, Installed
    <3>33. ASSUME CloseUI PROVE Installed' => Installed
      BY <3>33 DEF CloseUI, run, Installed
    <3>34. ASSUME CalmDown PROVE Installed' => Installed
      BY <3>34 DEF CalmDown, run, Installed
    <3>35. ASSUME UNCHANGED vars PROVE Installed' => Installed
      BY <3>35 DEF vars, run, Installed
    <3> QED
      BY <1>1, <2>2, <3>1, <3>2, <3>3, <3>4, <3>5, <3>6, <3>7, <3>8, <3>9, <3>10, <3>11,
          <3>12, <3>13, <3>14, <3>15, <3>16, <3>17, <3>18, <3>19, <3>20, <3>21, <3>22,
          <3>23, <3>24, <3>25, <3>26, <3>27, <3>28, <3>29, <3>30, <3>31, <3>32, <3>33,
          <3>34, <3>35
      DEF Next, Step

\* Setup reports success only when every file is whole and the service runs.
THEOREM SuccessAlwaysComplete == Spec => SuccessIsComplete
<1> DEFINE Complete ==
      Installed' /\ ~Installed =>
        Payload(mode) \subseteq whole' /\ service' = "running"
<1>1. ASSUME SInv, [Next]_vars PROVE [Complete]_vars
  <2>1. ASSUME Register PROVE Complete
    BY <1>1, <2>1 DEF Register, SInv, Copied, Started, Late, disk
  <2> QED
    BY <1>1, <2>1, OnlyRegisterReports
<1>2. Spec => []SInv
  BY SAlways
<1>3. Spec => [][Complete]_vars
  BY <1>1, <1>2, PTL DEF Spec
<1> QED
  BY <1>3 DEF SuccessIsComplete

-----------------------------------------------------------------------------
(* What is recorded *)

\* The adapter that setup writes down has an identity.
Identified ==
    /\ named \in ready \cup {None}
    /\ at \in {"own", "own guid", "rename", "verify"} => target \in ready

\* When a write was lost there may be another GUID, or none.
Recorded ==
    ~lost /\ at \in {"rename", "verify", "service", "register"} => ownGuid \in adapters

RInv == Identified /\ Recorded

LEMMA RInit == Init => RInv
BY DEF Init, RInv, Identified, Recorded

LEMMA RStep == TypeOK /\ SInv /\ RInv /\ [Next]_vars => RInv'
<1> SUFFICES ASSUME TypeOK, SInv, RInv, [Next]_vars PROVE RInv'
  OBVIOUS
<1> USE NoneAssumption
<1>1. ASSUME NEW m \in {"install", "portable", "uninstall"}, Begin(m) PROVE RInv'
  <2>1. Identified'
    BY <1>1 DEF Begin, Fault, disk, devices, env, RInv, SInv, AtWork, Identified,
        TypeOK, TypeRun, TypeDevices, AdapterOrNone, registry, run
  <2>2. Recorded'
    BY <1>1 DEF Begin, Fault, disk, devices, env, RInv, SInv, AtWork, Identified,
        Recorded, TypeOK, TypeRun, TypeDevices, AdapterOrNone, registry, run
  <2> QED
    BY <2>1, <2>2 DEF RInv
<1>2. CASE Validate
  <2>1. Identified'
    BY <1>2 DEF Validate, Go, Fault, Report, disk, devices, registry, env, RInv, SInv,
        AtWork, Identified, TypeOK, TypeRun, TypeDevices, AdapterOrNone, run
  <2>2. Recorded'
    BY <1>2 DEF Validate, Go, Fault, Report, disk, devices, registry, env, RInv, SInv,
        AtWork, Identified, Recorded, TypeOK, TypeRun, TypeDevices, AdapterOrNone, run
  <2> QED
    BY <2>1, <2>2 DEF RInv
<1>3. CASE ControlStop
  <2>1. Identified'
    BY <1>3 DEF ControlStop, Go, Fault, Report, disk, devices, registry, env, RInv,
        SInv, AtWork, Identified, TypeOK, TypeRun, TypeDevices, AdapterOrNone, run
  <2>2. Recorded'
    BY <1>3 DEF ControlStop, Go, Fault, Report, disk, devices, registry, env, RInv,
        SInv, AtWork, Identified, Recorded, TypeOK, TypeRun, TypeDevices, AdapterOrNone,
        run
  <2> QED
    BY <2>1, <2>2 DEF RInv
<1>4. CASE DeleteService
  <2>1. Identified'
    BY <1>4 DEF DeleteService, Fault, Go, disk, devices, registry, env, RInv, SInv,
        AtWork, Identified, TypeOK, TypeRun, TypeDevices, AdapterOrNone, run
  <2>2. Recorded'
    BY <1>4 DEF DeleteService, Fault, Go, disk, devices, registry, env, RInv, SInv,
        AtWork, Identified, Recorded, TypeOK, TypeRun, TypeDevices, AdapterOrNone, run
  <2> QED
    BY <2>1, <2>2 DEF RInv
<1>5. CASE DeleteFails
  <2>1. Identified'
    BY <1>5 DEF DeleteFails, Fault, Report, disk, devices, registry, env, RInv, SInv,
        AtWork, Identified, TypeOK, TypeRun, TypeDevices, AdapterOrNone, run
  <2>2. Recorded'
    BY <1>5 DEF DeleteFails, Fault, Report, disk, devices, registry, env, RInv, SInv,
        AtWork, Identified, Recorded, TypeOK, TypeRun, TypeDevices, AdapterOrNone, run
  <2> QED
    BY <2>1, <2>2 DEF RInv
<1>6. CASE CopyFails
  <2>1. Identified'
    BY <1>6 DEF CopyFails, Fault, Tear, Report, devices, registry, env, RInv, SInv,
        AtWork, Identified, TypeOK, TypeRun, TypeDevices, AdapterOrNone, run
  <2>2. Recorded'
    BY <1>6 DEF CopyFails, Fault, Tear, Report, devices, registry, env, RInv, SInv,
        AtWork, Identified, Recorded, TypeOK, TypeRun, TypeDevices, AdapterOrNone, run
  <2> QED
    BY <2>1, <2>2 DEF RInv
<1>7. CASE CopyFile
  BY <1>7 DEF CopyFile, devices, registry, env, RInv, SInv, AtWork, Identified, TypeOK,
      TypeRun, TypeDevices, AdapterOrNone, run, Recorded
<1>8. CASE CutOffCopying
  <2>1. Identified'
    BY <1>8 DEF CutOffCopying, Fault, Tear, Report, devices, registry, env, RInv, SInv,
        AtWork, Identified, TypeOK, TypeRun, TypeDevices, AdapterOrNone, run
  <2>2. Recorded'
    BY <1>8 DEF CutOffCopying, Fault, Tear, Report, devices, registry, env, RInv, SInv,
        AtWork, Identified, Recorded, TypeOK, TypeRun, TypeDevices, AdapterOrNone, run
  <2> QED
    BY <2>1, <2>2 DEF RInv
<1>9. CASE CopyDone
  <2>1. Identified'
    BY <1>9 DEF CopyDone, Go, disk, devices, registry, env, RInv, SInv, AtWork,
        Identified, TypeOK, TypeRun, TypeDevices, AdapterOrNone, run
  <2>2. Recorded'
    BY <1>9 DEF CopyDone, Go, disk, devices, registry, env, RInv, SInv, AtWork,
        Identified, Recorded, TypeOK, TypeRun, TypeDevices, AdapterOrNone, run
  <2> QED
    BY <2>1, <2>2 DEF RInv
<1>10. CASE Adopt
  <2>1. Identified'
    BY <1>10 DEF Adopt, WriteAdapterOwnership, Others, Go, disk, registry, env, RInv,
        SInv, AtWork, Identified, TypeOK, TypeRun, TypeDevices, AdapterOrNone, devices,
        run
  <2>2. Recorded'
    BY <1>10 DEF Adopt, WriteAdapterOwnership, Others, Go, disk, registry, env, RInv,
        SInv, AtWork, Identified, Recorded, TypeOK, TypeRun, TypeDevices, AdapterOrNone,
        devices, run
  <2> QED
    BY <2>1, <2>2 DEF RInv
<1>11. CASE RemoveLegacyPayload
  <2>1. Identified'
    BY <1>11 DEF RemoveLegacyPayload, Go, devices, registry, env, RInv, SInv, AtWork,
        Identified, TypeOK, TypeRun, TypeDevices, AdapterOrNone, run
  <2>2. Recorded'
    BY <1>11 DEF RemoveLegacyPayload, Go, devices, registry, env, RInv, SInv, AtWork,
        Identified, Recorded, TypeOK, TypeRun, TypeDevices, AdapterOrNone, run
  <2> QED
    BY <2>1, <2>2 DEF RInv
<1>12. CASE UseNamed
  <2>1. Identified'
    BY <1>12 DEF UseNamed, WriteAdapterOwnership, disk, devices, registry, env, RInv,
        SInv, AtWork, Identified, TypeOK, TypeRun, TypeDevices, AdapterOrNone, run
  <2>2. Recorded'
    BY <1>12 DEF UseNamed, WriteAdapterOwnership, disk, devices, registry, env, RInv,
        SInv, AtWork, Identified, Recorded, TypeOK, TypeRun, TypeDevices, AdapterOrNone,
        run
  <2> QED
    BY <2>1, <2>2 DEF RInv
<1>13. CASE UseInterrupted
  <2>1. Identified'
    BY <1>13 DEF UseInterrupted, Owned, WriteAdapterOwnership, disk, devices, registry,
        env, RInv, SInv, AtWork, Identified, TypeOK, TypeRun, TypeDevices,
        AdapterOrNone, run
  <2>2. Recorded'
    BY <1>13 DEF UseInterrupted, Owned, WriteAdapterOwnership, disk, devices, registry,
        env, RInv, SInv, AtWork, Identified, Recorded, TypeOK, TypeRun, TypeDevices,
        AdapterOrNone, run
  <2> QED
    BY <2>1, <2>2 DEF RInv
<1>14. CASE NeedNew
  <2>1. Identified'
    BY <1>14 DEF NeedNew, Owned, disk, devices, registry, env, RInv, SInv, AtWork,
        Identified, TypeOK, TypeRun, TypeDevices, AdapterOrNone, run
  <2>2. Recorded'
    BY <1>14 DEF NeedNew, Owned, disk, devices, registry, env, RInv, SInv, AtWork,
        Identified, Recorded, TypeOK, TypeRun, TypeDevices, AdapterOrNone, run
  <2> QED
    BY <2>1, <2>2 DEF RInv
<1>15. CASE Devcon
  <2>1. Identified'
    BY <1>15, NewGuidIsNew DEF Devcon, Appears, Fault, Go, disk, env, RInv, SInv,
        AtWork, Identified, TypeOK, TypeRun, TypeDevices, AdapterOrNone, devices,
        registry, run
  <2>2. Recorded'
    BY <1>15, NewGuidIsNew DEF Devcon, Appears, Fault, Go, disk, env, RInv, SInv,
        AtWork, Identified, Recorded, TypeOK, TypeRun, TypeDevices, AdapterOrNone,
        devices, registry, run
  <2> QED
    BY <2>1, <2>2 DEF RInv
<1>16. CASE DevconFails
  <2>1. Identified'
    BY <1>16, NewGuidIsNew DEF DevconFails, Fault, devices, registry, Appears, Report,
        disk, env, RInv, SInv, AtWork, Identified, TypeOK, TypeRun, TypeDevices,
        AdapterOrNone, run
  <2>2. Recorded'
    BY <1>16, NewGuidIsNew DEF DevconFails, Fault, devices, registry, Appears, Report,
        disk, env, RInv, SInv, AtWork, Identified, Recorded, TypeOK, TypeRun,
        TypeDevices, AdapterOrNone, run
  <2> QED
    BY <2>1, <2>2 DEF RInv
<1>17. CASE Find
  <2>1. Identified'
    BY <1>17 DEF Find, WriteAdapterOwnership, Report, disk, devices, registry, env,
        RInv, SInv, AtWork, Identified, TypeOK, TypeRun, TypeDevices, AdapterOrNone, run
  <2>2. Recorded'
    BY <1>17 DEF Find, WriteAdapterOwnership, Report, disk, devices, registry, env,
        RInv, SInv, AtWork, Identified, Recorded, TypeOK, TypeRun, TypeDevices,
        AdapterOrNone, run
  <2> QED
    BY <2>1, <2>2 DEF RInv
<1>18. CASE OwnInstance
  <2>1. Identified'
    BY <1>18 DEF OwnInstance, Fault, Go, disk, devices, env, RInv, SInv, AtWork,
        Identified, TypeOK, TypeRun, TypeDevices, AdapterOrNone, registry, run
  <2>2. Recorded'
    BY <1>18 DEF OwnInstance, Fault, Go, disk, devices, env, RInv, SInv, AtWork,
        Identified, Recorded, TypeOK, TypeRun, TypeDevices, AdapterOrNone, registry, run
  <2> QED
    BY <2>1, <2>2 DEF RInv
<1>19. CASE OwnGuid
  <2>1. Identified'
    BY <1>19 DEF OwnGuid, Fault, Go, disk, devices, env, RInv, SInv, AtWork, Identified,
        TypeOK, TypeRun, TypeDevices, AdapterOrNone, registry, run
  <2>2. Recorded'
    BY <1>19 DEF OwnGuid, Fault, Go, disk, devices, env, RInv, SInv, AtWork, Identified,
        Recorded, TypeOK, TypeRun, TypeDevices, AdapterOrNone, registry, run
  <2> QED
    BY <2>1, <2>2 DEF RInv
<1>20. CASE Rename
  <2>1. Identified'
    BY <1>20 DEF Rename, Go, disk, registry, env, RInv, SInv, AtWork, Identified,
        TypeOK, TypeRun, TypeDevices, AdapterOrNone, devices, run
  <2>2. Recorded'
    BY <1>20 DEF Rename, Go, disk, registry, env, RInv, SInv, AtWork, Identified,
        Recorded, TypeOK, TypeRun, TypeDevices, AdapterOrNone, devices, run
  <2> QED
    BY <2>1, <2>2 DEF RInv
<1>21. CASE Verify
  <2>1. Identified'
    BY <1>21 DEF Verify, Owned, Report, Go, disk, devices, registry, env, RInv, SInv,
        AtWork, Identified, TypeOK, TypeRun, TypeDevices, AdapterOrNone, run
  <2>2. Recorded'
    BY <1>21 DEF Verify, Owned, Report, Go, disk, devices, registry, env, RInv, SInv,
        AtWork, Identified, Recorded, TypeOK, TypeRun, TypeDevices, AdapterOrNone, run
  <2> QED
    BY <2>1, <2>2 DEF RInv
<1>22. CASE CreateService
  <2>1. Identified'
    BY <1>22 DEF CreateService, Go, Fault, Report, disk, devices, registry, env, RInv,
        SInv, AtWork, Identified, TypeOK, TypeRun, TypeDevices, AdapterOrNone, run
  <2>2. Recorded'
    BY <1>22 DEF CreateService, Go, Fault, Report, disk, devices, registry, env, RInv,
        SInv, AtWork, Identified, Recorded, TypeOK, TypeRun, TypeDevices, AdapterOrNone,
        run
  <2> QED
    BY <2>1, <2>2 DEF RInv
<1>23. CASE Register
  <2>1. Identified'
    BY <1>23 DEF Register, Report, Fault, disk, devices, registry, env, RInv, SInv,
        AtWork, Identified, TypeOK, TypeRun, TypeDevices, AdapterOrNone, run
  <2>2. Recorded'
    BY <1>23 DEF Register, Report, Fault, disk, devices, registry, env, RInv, SInv,
        AtWork, Identified, Recorded, TypeOK, TypeRun, TypeDevices, AdapterOrNone, run
  <2> QED
    BY <2>1, <2>2 DEF RInv
<1>24. CASE RemoveAdapter
  <2>1. Identified'
    BY <1>24 DEF RemoveAdapter, Fault, devices, Go, disk, env, RInv, SInv, AtWork,
        Identified, TypeOK, TypeRun, TypeDevices, AdapterOrNone, registry, run
  <2>2. Recorded'
    BY <1>24 DEF RemoveAdapter, Fault, devices, Go, disk, env, RInv, SInv, AtWork,
        Identified, Recorded, TypeOK, TypeRun, TypeDevices, AdapterOrNone, registry, run
  <2> QED
    BY <2>1, <2>2 DEF RInv
<1>25. CASE Forget
  <2>1. Identified'
    BY <1>25 DEF Forget, Fault, Go, disk, devices, env, RInv, SInv, AtWork, Identified,
        TypeOK, TypeRun, TypeDevices, AdapterOrNone, registry, run
  <2>2. Recorded'
    BY <1>25 DEF Forget, Fault, Go, disk, devices, env, RInv, SInv, AtWork, Identified,
        Recorded, TypeOK, TypeRun, TypeDevices, AdapterOrNone, registry, run
  <2> QED
    BY <2>1, <2>2 DEF RInv
<1>26. CASE DeleteFiles
  <2>1. Identified'
    BY <1>26 DEF DeleteFiles, Report, devices, registry, env, RInv, SInv, AtWork,
        Identified, TypeOK, TypeRun, TypeDevices, AdapterOrNone, run
  <2>2. Recorded'
    BY <1>26 DEF DeleteFiles, Report, devices, registry, env, RInv, SInv, AtWork,
        Identified, Recorded, TypeOK, TypeRun, TypeDevices, AdapterOrNone, run
  <2> QED
    BY <2>1, <2>2 DEF RInv
<1>27. CASE CutOffDeleting
  <2>1. Identified'
    BY <1>27 DEF CutOffDeleting, Fault, Report, devices, registry, env, RInv, SInv,
        AtWork, Identified, TypeOK, TypeRun, TypeDevices, AdapterOrNone, run
  <2>2. Recorded'
    BY <1>27 DEF CutOffDeleting, Fault, Report, devices, registry, env, RInv, SInv,
        AtWork, Identified, Recorded, TypeOK, TypeRun, TypeDevices, AdapterOrNone, run
  <2> QED
    BY <2>1, <2>2 DEF RInv
<1>28. CASE ServiceEnds
  BY <1>28 DEF ServiceEnds, run, disk, devices, registry, env, RInv, SInv, AtWork,
      Identified, TypeOK, TypeRun, TypeDevices, AdapterOrNone, Recorded
<1>29. CASE CutOff
  <2>1. Identified'
    BY <1>29 DEF CutOff, Fault, Report, disk, devices, registry, env, RInv, SInv,
        AtWork, Identified, TypeOK, TypeRun, TypeDevices, AdapterOrNone, run
  <2>2. Recorded'
    BY <1>29 DEF CutOff, Fault, Report, disk, devices, registry, env, RInv, SInv,
        AtWork, Identified, Recorded, TypeOK, TypeRun, TypeDevices, AdapterOrNone, run
  <2> QED
    BY <2>1, <2>2 DEF RInv
<1>30. CASE Restart
  <2>1. Identified'
    BY <1>30 DEF Restart, run, registry, RInv, SInv, AtWork, Identified, TypeOK,
        TypeRun, TypeDevices, AdapterOrNone, devices
  <2>2. Recorded'
    BY <1>30 DEF Restart, run, registry, RInv, SInv, AtWork, Identified, Recorded,
        TypeOK, TypeRun, TypeDevices, AdapterOrNone, devices
  <2> QED
    BY <2>1, <2>2 DEF RInv
<1>31. CASE DeviceReady
  <2>1. Identified'
    BY <1>31 DEF DeviceReady, run, disk, registry, env, RInv, SInv, AtWork, Identified,
        TypeOK, TypeRun, TypeDevices, AdapterOrNone, devices
  <2>2. Recorded'
    BY <1>31 DEF DeviceReady, run, disk, registry, env, RInv, SInv, AtWork, Identified,
        Recorded, TypeOK, TypeRun, TypeDevices, AdapterOrNone, devices
  <2> QED
    BY <2>1, <2>2 DEF RInv
<1>32. CASE OtherSetup
  <2>1. Identified'
    BY <1>32, NewGuidIsNew DEF OtherSetup, Fault, Appears, run, disk, env, RInv, SInv,
        AtWork, Identified, TypeOK, TypeRun, TypeDevices, AdapterOrNone, devices,
        registry
  <2>2. Recorded'
    BY <1>32, NewGuidIsNew DEF OtherSetup, Fault, Appears, run, disk, env, RInv, SInv,
        AtWork, Identified, Recorded, TypeOK, TypeRun, TypeDevices, AdapterOrNone,
        devices, registry
  <2> QED
    BY <2>1, <2>2 DEF RInv
<1>33. CASE OpenUI
  BY <1>33 DEF OpenUI, run, disk, devices, registry, RInv, SInv, AtWork, Identified,
      TypeOK, TypeRun, TypeDevices, AdapterOrNone, Recorded
<1>34. CASE CloseUI
  BY <1>34 DEF CloseUI, run, disk, devices, registry, RInv, SInv, AtWork, Identified,
      TypeOK, TypeRun, TypeDevices, AdapterOrNone, Recorded
<1>35. CASE CalmDown
  BY <1>35 DEF CalmDown, run, disk, devices, registry, RInv, SInv, AtWork, Identified,
      TypeOK, TypeRun, TypeDevices, AdapterOrNone, Recorded
<1>36. CASE UNCHANGED vars
  <2>1. Identified'
    BY <1>36 DEF vars, run, disk, devices, registry, env, RInv, SInv, AtWork,
        Identified, TypeOK, TypeRun, TypeDevices, AdapterOrNone
  <2>2. Recorded'
    BY <1>36 DEF vars, run, disk, devices, registry, env, RInv, SInv, AtWork,
        Identified, Recorded, TypeOK, TypeRun, TypeDevices, AdapterOrNone
  <2> QED
    BY <2>1, <2>2 DEF RInv
<1> QED
  BY <1>1, <1>2, <1>3, <1>4, <1>5, <1>6, <1>7, <1>8, <1>9, <1>10, <1>11, <1>12, <1>13,
      <1>14, <1>15, <1>16, <1>17, <1>18, <1>19, <1>20, <1>21, <1>22, <1>23, <1>24,
      <1>25, <1>26, <1>27, <1>28, <1>29, <1>30, <1>31, <1>32, <1>33, <1>34, <1>35, <1>36
      DEF Next, Step

LEMMA RAlways == Spec => []RInv
<1>1. Spec => []TypeOK
  BY TypeCorrect
<1>2. Spec => []SInv
  BY SAlways
<1>3. TypeOK /\ SInv /\ RInv /\ [Next]_vars => RInv'
  BY RStep
<1> QED
  BY <1>1, <1>2, <1>3, RInit, PTL DEF Spec

\* After a success the service finds an adapter, unless the registry refused a value
\* in that very run: a record that an earlier run left is never enough to go by.
THEOREM SuccessAlwaysRecorded == Spec => SuccessIsRecorded
<1> DEFINE Finds == Installed' /\ ~Installed /\ ~lost => ServiceAdapter' # {}
<1>1. ASSUME TypeOK, RInv, [Next]_vars PROVE [Finds]_vars
  <2>1. ASSUME Register PROVE Finds
    BY <1>1, <2>1, NoneAssumption DEF Register, RInv, Recorded, ServiceAdapter, TypeOK,
        TypeDevices, devices, registry
  <2> QED
    BY <1>1, <2>1, OnlyRegisterReports
<1>2. Spec => []TypeOK
  BY TypeCorrect
<1>3. Spec => []RInv
  BY RAlways
<1>4. Spec => [][Finds]_vars
  BY <1>1, <1>2, <1>3, PTL DEF Spec
<1> QED
  BY <1>4 DEF SuccessIsRecorded

-----------------------------------------------------------------------------
(* The service and its programs, when nobody runs setup before the restart *)

NoService == service \in {"none", "marked"}

\* Files are written and deleted only while there is no service.
Replaced ==
    at \in {"copy", "remove adapter", "forget", "delete"} \cup (Late \ {"register"})
      => NoService

HasPrograms == ~NoService => "programs" \in whole

\* What is to be deleted at the restart is what an uninstallation left.
Condemned ==
    doomed # {} => mode = "none" /\ (NoService \/ "programs" \notin doomed)

PInv == Replaced /\ HasPrograms /\ Condemned

LEMMA PInit == Init => PInv
BY DEF Init, PInv, Replaced, NoService, HasPrograms, Condemned, Late

LEMMA PStep ==
  ASSUME "late restart" \notin Faults, TypeOK, SInv, PInv, [Next]_vars
  PROVE  PInv'
<1>1. ASSUME NEW m \in {"install", "portable", "uninstall"}, Begin(m) PROVE PInv'
  <2>1. Replaced'
    BY <1>1 DEF Begin, Fault, disk, devices, env, PInv, Replaced, NoService, Late, SInv,
        AtWork, TypeOK, TypeRun, run
  <2>2. HasPrograms'
    BY <1>1 DEF Begin, Fault, disk, devices, env, PInv, Replaced, HasPrograms,
        Condemned, NoService, SInv, Copied, Late, Payload, Files, TypeOK, TypeDisk, run
  <2>3. Condemned'
    BY <1>1 DEF Begin, Fault, disk, devices, env, PInv, Replaced, Condemned, NoService,
        SInv, AtWork, run
  <2> QED
    BY <2>1, <2>2, <2>3 DEF PInv
<1>2. CASE Validate
  <2>1. Replaced'
    BY <1>2 DEF Validate, Go, Fault, Report, disk, devices, registry, env, PInv,
        Replaced, NoService, Late, SInv, AtWork, TypeOK, TypeRun, run
  <2>2. HasPrograms'
    BY <1>2 DEF Validate, Go, Fault, Report, disk, devices, registry, env, PInv,
        Replaced, HasPrograms, Condemned, NoService, SInv, Copied, Late, Payload, Files,
        TypeOK, TypeDisk, run
  <2>3. Condemned'
    BY <1>2 DEF Validate, Go, Fault, Report, disk, devices, registry, env, PInv,
        Replaced, Condemned, NoService, SInv, AtWork, run
  <2> QED
    BY <2>1, <2>2, <2>3 DEF PInv
<1>3. CASE ControlStop
  <2>1. Replaced'
    BY <1>3 DEF ControlStop, Go, Fault, Report, disk, devices, registry, env, PInv,
        Replaced, NoService, Late, SInv, AtWork, TypeOK, TypeRun, run
  <2>2. HasPrograms'
    BY <1>3 DEF ControlStop, Go, Fault, Report, disk, devices, registry, env, PInv,
        Replaced, HasPrograms, Condemned, NoService, SInv, Copied, Late, Payload, Files,
        TypeOK, TypeDisk, run
  <2>3. Condemned'
    BY <1>3 DEF ControlStop, Go, Fault, Report, disk, devices, registry, env, PInv,
        Replaced, Condemned, NoService, SInv, AtWork, run
  <2> QED
    BY <2>1, <2>2, <2>3 DEF PInv
<1>4. CASE DeleteService
  <2>1. Replaced'
    BY <1>4 DEF DeleteService, Fault, Go, Payload, disk, devices, registry, env, Files,
        PInv, Replaced, NoService, Late, SInv, AtWork, TypeOK, TypeRun, run
  <2>2. HasPrograms'
    BY <1>4 DEF DeleteService, Fault, Go, Payload, disk, devices, registry, env, Files,
        PInv, Replaced, HasPrograms, Condemned, NoService, SInv, Copied, Late, TypeOK,
        TypeDisk, run
  <2>3. Condemned'
    BY <1>4 DEF DeleteService, Fault, Go, Payload, disk, devices, registry, env, Files,
        PInv, Replaced, Condemned, NoService, SInv, AtWork, run
  <2> QED
    BY <2>1, <2>2, <2>3 DEF PInv
<1>5. CASE DeleteFails
  <2>1. Replaced'
    BY <1>5 DEF DeleteFails, Fault, Report, disk, devices, registry, env, PInv,
        Replaced, NoService, Late, SInv, AtWork, TypeOK, TypeRun, run
  <2>2. HasPrograms'
    BY <1>5 DEF DeleteFails, Fault, Report, disk, devices, registry, env, PInv,
        Replaced, HasPrograms, Condemned, NoService, SInv, Copied, Late, Payload, Files,
        TypeOK, TypeDisk, run
  <2>3. Condemned'
    BY <1>5 DEF DeleteFails, Fault, Report, disk, devices, registry, env, PInv,
        Replaced, Condemned, NoService, SInv, AtWork, run
  <2> QED
    BY <2>1, <2>2, <2>3 DEF PInv
<1>6. CASE CopyFails
  <2>1. Replaced'
    BY <1>6 DEF CopyFails, NextFiles, InUse, Fault, Tear, Report, devices, registry,
        env, ProcessRuns, PInv, Replaced, NoService, Late, SInv, AtWork, TypeOK,
        TypeRun, disk, run
  <2>2. HasPrograms'
    BY <1>6 DEF CopyFails, NextFiles, InUse, Fault, Tear, Report, devices, registry,
        env, ProcessRuns, PInv, Replaced, HasPrograms, Condemned, NoService, SInv,
        Copied, Late, Payload, Files, TypeOK, TypeDisk, disk, run
  <2>3. Condemned'
    BY <1>6 DEF CopyFails, NextFiles, InUse, Fault, Tear, Report, devices, registry,
        env, ProcessRuns, PInv, Replaced, Condemned, NoService, SInv, AtWork, disk, run
  <2> QED
    BY <2>1, <2>2, <2>3 DEF PInv
<1>7. CASE CopyFile
  <2>1. (Replaced /\ Condemned)'
    BY <1>7 DEF CopyFile, devices, registry, env, PInv, Replaced, NoService, Late, SInv,
        AtWork, TypeOK, TypeRun, disk, run, Condemned
  <2>2. HasPrograms'
    BY <1>7 DEF CopyFile, NextFiles, InUse, devices, registry, env, ProcessRuns, PInv,
        Replaced, HasPrograms, Condemned, NoService, SInv, Copied, Late, Payload, Files,
        TypeOK, TypeDisk, disk, run
  <2> QED
    BY <2>1, <2>2 DEF PInv
<1>8. CASE CutOffCopying
  <2>1. Replaced'
    BY <1>8 DEF CutOffCopying, Fault, Tear, Report, devices, registry, env, NextFiles,
        InUse, ProcessRuns, PInv, Replaced, NoService, Late, SInv, AtWork, TypeOK,
        TypeRun, disk, run
  <2>2. HasPrograms'
    BY <1>8 DEF CutOffCopying, Fault, Tear, Report, devices, registry, env, NextFiles,
        InUse, ProcessRuns, PInv, Replaced, HasPrograms, Condemned, NoService, SInv,
        Copied, Late, Payload, Files, TypeOK, TypeDisk, disk, run
  <2>3. Condemned'
    BY <1>8 DEF CutOffCopying, Fault, Tear, Report, devices, registry, env, NextFiles,
        InUse, ProcessRuns, PInv, Replaced, Condemned, NoService, SInv, AtWork, disk,
        run
  <2> QED
    BY <2>1, <2>2, <2>3 DEF PInv
<1>9. CASE CopyDone
  <2>1. (HasPrograms /\ Condemned)'
    BY <1>9 DEF CopyDone, Go, disk, devices, registry, env, PInv, Replaced, HasPrograms,
        Condemned, NoService, SInv, Copied, Late, Payload, Files, TypeOK, TypeDisk, run,
        AtWork
  <2>2. Replaced'
    BY <1>9 DEF CopyDone, Go, disk, devices, registry, env, PInv, Replaced, NoService,
        Late, SInv, AtWork, TypeOK, TypeRun, run
  <2> QED
    BY <2>1, <2>2 DEF PInv
<1>10. CASE Adopt
  <2>1. (HasPrograms /\ Condemned)'
    BY <1>10 DEF Adopt, WriteAdapterOwnership, Go, disk, registry, env, PInv, Replaced,
        HasPrograms, Condemned, NoService, SInv, Copied, Late, Payload, Files, TypeOK,
        TypeDisk, run, AtWork
  <2>2. Replaced'
    BY <1>10 DEF Adopt, WriteAdapterOwnership, Others, Go, disk, registry, env, PInv,
        Replaced, NoService, Late, SInv, AtWork, TypeOK, TypeRun, run
  <2> QED
    BY <2>1, <2>2 DEF PInv
<1>11. CASE RemoveLegacyPayload
  <2>1. (HasPrograms /\ Condemned)'
    BY <1>11 DEF RemoveLegacyPayload, Go, devices, registry, env, PInv, Replaced,
        HasPrograms, Condemned, NoService, SInv, Copied, Late, Payload, Files, TypeOK,
        TypeDisk, disk, run, AtWork
  <2>2. Replaced'
    BY <1>11 DEF RemoveLegacyPayload, Go, devices, registry, env, PInv, Replaced,
        NoService, Late, SInv, AtWork, TypeOK, TypeRun, disk, run
  <2> QED
    BY <2>1, <2>2 DEF PInv
<1>12. CASE UseNamed
  <2>1. (HasPrograms /\ Condemned)'
    BY <1>12 DEF UseNamed, WriteAdapterOwnership, disk, devices, registry, env, PInv,
        Replaced, HasPrograms, Condemned, NoService, SInv, Copied, Late, Payload, Files,
        TypeOK, TypeDisk, run, AtWork
  <2>2. Replaced'
    BY <1>12 DEF UseNamed, WriteAdapterOwnership, disk, devices, registry, env, PInv,
        Replaced, NoService, Late, SInv, AtWork, TypeOK, TypeRun, run
  <2> QED
    BY <2>1, <2>2 DEF PInv
<1>13. CASE UseInterrupted
  <2>1. (HasPrograms /\ Condemned)'
    BY <1>13 DEF UseInterrupted, WriteAdapterOwnership, disk, devices, registry, env,
        PInv, Replaced, HasPrograms, Condemned, NoService, SInv, Copied, Late, Payload,
        Files, TypeOK, TypeDisk, run, AtWork
  <2>2. Replaced'
    BY <1>13 DEF UseInterrupted, Owned, WriteAdapterOwnership, disk, devices, registry,
        env, PInv, Replaced, NoService, Late, SInv, AtWork, TypeOK, TypeRun, run
  <2> QED
    BY <2>1, <2>2 DEF PInv
<1>14. CASE NeedNew
  <2>1. (HasPrograms /\ Condemned)'
    BY <1>14 DEF NeedNew, disk, devices, registry, env, PInv, Replaced, HasPrograms,
        Condemned, NoService, SInv, Copied, Late, Payload, Files, TypeOK, TypeDisk, run,
        AtWork
  <2>2. Replaced'
    BY <1>14 DEF NeedNew, Owned, disk, devices, registry, env, PInv, Replaced,
        NoService, Late, SInv, AtWork, TypeOK, TypeRun, run
  <2> QED
    BY <2>1, <2>2 DEF PInv
<1>15. CASE Devcon
  <2>1. (HasPrograms /\ Condemned)'
    BY <1>15 DEF Devcon, Appears, Go, disk, env, PInv, Replaced, HasPrograms, Condemned,
        NoService, SInv, Copied, Late, Payload, Files, TypeOK, TypeDisk, run, AtWork
  <2>2. Replaced'
    BY <1>15, NewGuidIsNew DEF Devcon, Appears, Fault, Go, disk, env, PInv, Replaced,
        NoService, Late, SInv, AtWork, TypeOK, TypeRun, run
  <2> QED
    BY <2>1, <2>2 DEF PInv
<1>16. CASE DevconFails
  <2>1. Replaced'
    BY <1>16, NewGuidIsNew DEF DevconFails, Fault, devices, registry, Appears, Report,
        disk, env, PInv, Replaced, NoService, Late, SInv, AtWork, TypeOK, TypeRun, run
  <2>2. HasPrograms'
    BY <1>16, NewGuidIsNew DEF DevconFails, Fault, devices, registry, Appears, Report,
        disk, env, PInv, Replaced, HasPrograms, Condemned, NoService, SInv, Copied,
        Late, Payload, Files, TypeOK, TypeDisk, run
  <2>3. Condemned'
    BY <1>16, NewGuidIsNew DEF DevconFails, Fault, devices, registry, Appears, Report,
        disk, env, PInv, Replaced, Condemned, NoService, SInv, AtWork, run
  <2> QED
    BY <2>1, <2>2, <2>3 DEF PInv
<1>17. CASE Find
  <2>1. Replaced'
    BY <1>17 DEF Find, WriteAdapterOwnership, Report, disk, devices, registry, env,
        PInv, Replaced, NoService, Late, SInv, AtWork, TypeOK, TypeRun, run
  <2>2. HasPrograms'
    BY <1>17 DEF Find, WriteAdapterOwnership, Report, disk, devices, registry, env,
        PInv, Replaced, HasPrograms, Condemned, NoService, SInv, Copied, Late, Payload,
        Files, TypeOK, TypeDisk, run
  <2>3. Condemned'
    BY <1>17 DEF Find, WriteAdapterOwnership, Report, disk, devices, registry, env,
        PInv, Replaced, Condemned, NoService, SInv, AtWork, run
  <2> QED
    BY <2>1, <2>2, <2>3 DEF PInv
<1>18. CASE OwnInstance
  <2>1. (HasPrograms /\ Condemned)'
    BY <1>18 DEF OwnInstance, Go, disk, devices, env, PInv, Replaced, HasPrograms,
        Condemned, NoService, SInv, Copied, Late, Payload, Files, TypeOK, TypeDisk, run,
        AtWork
  <2>2. Replaced'
    BY <1>18 DEF OwnInstance, Fault, Go, disk, devices, env, PInv, Replaced, NoService,
        Late, SInv, AtWork, TypeOK, TypeRun, run
  <2> QED
    BY <2>1, <2>2 DEF PInv
<1>19. CASE OwnGuid
  <2>1. (HasPrograms /\ Condemned)'
    BY <1>19 DEF OwnGuid, Go, disk, devices, env, PInv, Replaced, HasPrograms,
        Condemned, NoService, SInv, Copied, Late, Payload, Files, TypeOK, TypeDisk, run,
        AtWork
  <2>2. Replaced'
    BY <1>19 DEF OwnGuid, Fault, Go, disk, devices, env, PInv, Replaced, NoService,
        Late, SInv, AtWork, TypeOK, TypeRun, run
  <2> QED
    BY <2>1, <2>2 DEF PInv
<1>20. CASE Rename
  <2>1. (HasPrograms /\ Condemned)'
    BY <1>20 DEF Rename, Go, disk, registry, env, PInv, Replaced, HasPrograms,
        Condemned, NoService, SInv, Copied, Late, Payload, Files, TypeOK, TypeDisk, run,
        AtWork
  <2>2. Replaced'
    BY <1>20 DEF Rename, Go, disk, registry, env, PInv, Replaced, NoService, Late, SInv,
        AtWork, TypeOK, TypeRun, run
  <2> QED
    BY <2>1, <2>2 DEF PInv
<1>21. CASE Verify
  <2>1. Replaced'
    BY <1>21 DEF Verify, Owned, Report, Go, disk, devices, registry, env, PInv,
        Replaced, NoService, Late, SInv, AtWork, TypeOK, TypeRun, run
  <2>2. HasPrograms'
    BY <1>21 DEF Verify, Owned, Report, Go, disk, devices, registry, env, PInv,
        Replaced, HasPrograms, Condemned, NoService, SInv, Copied, Late, Payload, Files,
        TypeOK, TypeDisk, run
  <2>3. Condemned'
    BY <1>21 DEF Verify, Owned, Report, Go, disk, devices, registry, env, PInv,
        Replaced, Condemned, NoService, SInv, AtWork, run
  <2> QED
    BY <2>1, <2>2, <2>3 DEF PInv
<1>22. CASE CreateService
  <2>1. Replaced'
    BY <1>22 DEF CreateService, Go, Fault, Report, disk, devices, registry, env, PInv,
        Replaced, NoService, Late, SInv, AtWork, TypeOK, TypeRun, run
  <2>2. HasPrograms'
    BY <1>22 DEF CreateService, Go, Fault, Report, disk, devices, registry, env, PInv,
        Replaced, HasPrograms, Condemned, NoService, SInv, Copied, Late, Payload, Files,
        TypeOK, TypeDisk, run
  <2>3. Condemned'
    BY <1>22 DEF CreateService, Go, Fault, Report, disk, devices, registry, env, PInv,
        Replaced, Condemned, NoService, SInv, AtWork, run
  <2> QED
    BY <2>1, <2>2, <2>3 DEF PInv
<1>23. CASE Register
  <2>1. Replaced'
    BY <1>23 DEF Register, Report, Fault, disk, devices, registry, env, PInv, Replaced,
        NoService, Late, SInv, AtWork, TypeOK, TypeRun, run
  <2>2. HasPrograms'
    BY <1>23 DEF Register, Report, Fault, disk, devices, registry, env, PInv, Replaced,
        HasPrograms, Condemned, NoService, SInv, Copied, Late, Payload, Files, TypeOK,
        TypeDisk, run
  <2>3. Condemned'
    BY <1>23 DEF Register, Report, Fault, disk, devices, registry, env, PInv, Replaced,
        Condemned, NoService, SInv, AtWork, run
  <2> QED
    BY <2>1, <2>2, <2>3 DEF PInv
<1>24. CASE RemoveAdapter
  <2>1. (HasPrograms /\ Condemned)'
    BY <1>24 DEF RemoveAdapter, devices, Go, disk, env, PInv, Replaced, HasPrograms,
        Condemned, NoService, SInv, Copied, Late, Payload, Files, TypeOK, TypeDisk, run,
        AtWork
  <2>2. Replaced'
    BY <1>24 DEF RemoveAdapter, Fault, devices, Go, disk, env, PInv, Replaced,
        NoService, Late, SInv, AtWork, TypeOK, TypeRun, run
  <2> QED
    BY <2>1, <2>2 DEF PInv
<1>25. CASE Forget
  <2>1. (HasPrograms /\ Condemned)'
    BY <1>25 DEF Forget, Go, disk, devices, env, PInv, Replaced, HasPrograms, Condemned,
        NoService, SInv, Copied, Late, Payload, Files, TypeOK, TypeDisk, run, AtWork
  <2>2. Replaced'
    BY <1>25 DEF Forget, Fault, Go, disk, devices, env, PInv, Replaced, NoService, Late,
        SInv, AtWork, TypeOK, TypeRun, run
  <2> QED
    BY <2>1, <2>2 DEF PInv
<1>26. CASE DeleteFiles
  <2>1. Replaced'
    BY <1>26 DEF DeleteFiles, InUse, Report, devices, registry, env, ProcessRuns, PInv,
        Replaced, NoService, Late, SInv, AtWork, TypeOK, TypeRun, disk, run
  <2>2. HasPrograms'
    BY <1>26 DEF DeleteFiles, InUse, Report, devices, registry, env, ProcessRuns, PInv,
        Replaced, HasPrograms, Condemned, NoService, SInv, Copied, Late, Payload, Files,
        TypeOK, TypeDisk, disk, run
  <2>3. Condemned'
    BY <1>26 DEF DeleteFiles, InUse, Report, devices, registry, env, ProcessRuns, PInv,
        Replaced, Condemned, NoService, SInv, AtWork, disk, run
  <2> QED
    BY <2>1, <2>2, <2>3 DEF PInv
<1>27. CASE CutOffDeleting
  <2>1. Replaced'
    BY <1>27 DEF CutOffDeleting, Fault, Files, InUse, Report, devices, registry, env,
        ProcessRuns, PInv, Replaced, NoService, Late, SInv, AtWork, TypeOK, TypeRun,
        disk, run
  <2>2. HasPrograms'
    BY <1>27 DEF CutOffDeleting, Fault, Files, InUse, Report, devices, registry, env,
        ProcessRuns, PInv, Replaced, HasPrograms, Condemned, NoService, SInv, Copied,
        Late, Payload, TypeOK, TypeDisk, disk, run
  <2>3. Condemned'
    BY <1>27 DEF CutOffDeleting, Fault, Files, InUse, Report, devices, registry, env,
        ProcessRuns, PInv, Replaced, Condemned, NoService, SInv, AtWork, disk, run
  <2> QED
    BY <2>1, <2>2, <2>3 DEF PInv
<1>28. CASE ServiceEnds
  <2>1. Replaced'
    BY <1>28 DEF ServiceEnds, run, disk, devices, registry, env, PInv, Replaced,
        NoService, Late, SInv, AtWork, TypeOK, TypeRun
  <2>2. HasPrograms'
    BY <1>28 DEF ServiceEnds, run, disk, devices, registry, env, PInv, Replaced,
        HasPrograms, Condemned, NoService, SInv, Copied, Late, Payload, Files, TypeOK,
        TypeDisk
  <2>3. Condemned'
    BY <1>28 DEF ServiceEnds, run, disk, devices, registry, env, PInv, Replaced,
        Condemned, NoService, SInv, AtWork
  <2> QED
    BY <2>1, <2>2, <2>3 DEF PInv
<1>29. CASE CutOff
  <2>1. Replaced'
    BY <1>29 DEF CutOff, Fault, Report, disk, devices, registry, env, PInv, Replaced,
        NoService, Late, SInv, AtWork, TypeOK, TypeRun, run
  <2>2. HasPrograms'
    BY <1>29 DEF CutOff, Fault, Report, disk, devices, registry, env, PInv, Replaced,
        HasPrograms, Condemned, NoService, SInv, Copied, Late, Payload, Files, TypeOK,
        TypeDisk, run
  <2>3. Condemned'
    BY <1>29 DEF CutOff, Fault, Report, disk, devices, registry, env, PInv, Replaced,
        Condemned, NoService, SInv, AtWork, run
  <2> QED
    BY <2>1, <2>2, <2>3 DEF PInv
<1>30. CASE Restart
  <2>1. Replaced'
    BY <1>30 DEF Restart, run, registry, PInv, Replaced, NoService, Late, SInv, AtWork,
        TypeOK, TypeRun, disk
  <2>2. HasPrograms'
    BY <1>30 DEF Restart, run, registry, PInv, Replaced, HasPrograms, Condemned,
        NoService, SInv, Copied, Late, Payload, Files, TypeOK, TypeDisk, disk
  <2>3. Condemned'
    BY <1>30 DEF Restart, run, registry, PInv, Replaced, Condemned, NoService, SInv,
        AtWork, disk
  <2> QED
    BY <2>1, <2>2, <2>3 DEF PInv
<1>31. CASE DeviceReady
  BY <1>31 DEF DeviceReady, run, disk, registry, env, PInv, Replaced, NoService, Late,
      SInv, AtWork, TypeOK, TypeRun, HasPrograms, Condemned, Copied, Payload, Files,
      TypeDisk
<1>32. CASE OtherSetup
  BY <1>32 DEF OtherSetup, Appears, run, disk, env, PInv, Replaced, NoService, Late,
      SInv, AtWork, TypeOK, TypeRun, HasPrograms, Condemned, Copied, Payload, Files,
      TypeDisk
<1>33. CASE OpenUI
  BY <1>33 DEF OpenUI, run, disk, devices, registry, PInv, Replaced, NoService, Late,
      SInv, AtWork, TypeOK, TypeRun, HasPrograms, Condemned, Copied, Payload, Files,
      TypeDisk
<1>34. CASE CloseUI
  BY <1>34 DEF CloseUI, run, disk, devices, registry, PInv, Replaced, NoService, Late,
      SInv, AtWork, TypeOK, TypeRun, HasPrograms, Condemned, Copied, Payload, Files,
      TypeDisk
<1>35. CASE CalmDown
  BY <1>35 DEF CalmDown, run, disk, devices, registry, PInv, Replaced, NoService, Late,
      SInv, AtWork, TypeOK, TypeRun, HasPrograms, Condemned, Copied, Payload, Files,
      TypeDisk
<1>36. CASE UNCHANGED vars
  <2>1. Replaced'
    BY <1>36 DEF vars, run, disk, devices, registry, env, PInv, Replaced, NoService,
        Late, SInv, AtWork, TypeOK, TypeRun
  <2>2. HasPrograms'
    BY <1>36 DEF vars, run, disk, devices, registry, env, PInv, Replaced, HasPrograms,
        Condemned, NoService, SInv, Copied, Late, Payload, Files, TypeOK, TypeDisk
  <2>3. Condemned'
    BY <1>36 DEF vars, run, disk, devices, registry, env, PInv, Replaced, Condemned,
        NoService, SInv, AtWork
  <2> QED
    BY <2>1, <2>2, <2>3 DEF PInv
<1> QED
  BY <1>1, <1>2, <1>3, <1>4, <1>5, <1>6, <1>7, <1>8, <1>9, <1>10, <1>11, <1>12, <1>13,
      <1>14, <1>15, <1>16, <1>17, <1>18, <1>19, <1>20, <1>21, <1>22, <1>23, <1>24,
      <1>25, <1>26, <1>27, <1>28, <1>29, <1>30, <1>31, <1>32, <1>33, <1>34, <1>35, <1>36
      DEF Next, Step

LEMMA PAlways == "late restart" \notin Faults /\ Spec => []PInv
<1> SUFFICES ASSUME "late restart" \notin Faults PROVE Spec => []PInv
  OBVIOUS
<1>1. Spec => []TypeOK
  BY TypeCorrect
<1>2. Spec => []SInv
  BY SAlways
<1>3. TypeOK /\ SInv /\ PInv /\ [Next]_vars => PInv'
  BY PStep
<1> QED
  BY <1>1, <1>2, <1>3, PInit, PTL DEF Spec

\* A service that Windows would start has its programs.
THEOREM ServiceAlwaysHasPrograms ==
  ASSUME "late restart" \notin Faults
  PROVE  Spec => []ServiceHasPrograms
<1>1. PInv => ServiceHasPrograms
  BY DEF PInv, HasPrograms, NoService, ServiceHasPrograms
<1> QED
  BY <1>1, PAlways, PTL

-----------------------------------------------------------------------------
(* The adapters of others *)

\* None that setup can tell from its own is the one it sets up, records or named.
Apart == Strangers \cap {named, target, ownInstance} = {}

\* The adapter it sets up is there.
Aimed == target # None => target \in adapters /\ at \in Late

\* While it looks for the new one, the others are those that it found before.
Listed == at \in {"devcon", "find"} => Strangers \subseteq before

OInv == Apart /\ Aimed /\ Listed

LEMMA OInit == Init => OInv
<1> SUFFICES ASSUME Init PROVE OInv
  OBVIOUS
<1>1. Apart
  BY NoneAssumption, AdaptersAssumption DEF Init, Apart, Strangers, Others
<1>2. Aimed /\ Listed
  BY DEF Init, Aimed, Listed
<1> QED
  BY <1>1, <1>2 DEF OInv

LEMMA OStep == TypeOK /\ SInv /\ OInv /\ [Next]_vars => OInv'
<1> SUFFICES ASSUME TypeOK, SInv, OInv, [Next]_vars PROVE OInv'
  OBVIOUS
<1> USE NoneAssumption
<1>1. ASSUME NEW m \in {"install", "portable", "uninstall"}, Begin(m) PROVE OInv'
  <2>1. Apart'
    BY <1>1 DEF Begin, Fault, disk, devices, env, OInv, Apart, Aimed, Listed, Strangers,
        Others, TypeOK, TypeRun, TypeDevices, AdapterOrNone, registry, run
  <2>2. Aimed'
    BY <1>1 DEF Begin, Fault, disk, devices, env, OInv, Aimed, Late, SInv, AtWork,
        TypeOK, TypeRun, TypeDevices, AdapterOrNone, registry, run
  <2>3. Listed'
    BY <1>1 DEF Begin, Fault, disk, devices, env, OInv, Listed, Apart, Strangers,
        Others, TypeOK, TypeRun, TypeDevices, AdapterOrNone, registry, run
  <2> QED
    BY <2>1, <2>2, <2>3 DEF OInv
<1>2. CASE Validate
  <2>1. Apart'
    BY <1>2 DEF Validate, Go, Fault, Report, disk, devices, registry, env, OInv, Apart,
        Aimed, Listed, Strangers, Others, TypeOK, TypeRun, TypeDevices, AdapterOrNone,
        run
  <2>2. Aimed'
    BY <1>2 DEF Validate, Go, Fault, Report, disk, devices, registry, env, OInv, Aimed,
        Late, SInv, AtWork, TypeOK, TypeRun, TypeDevices, AdapterOrNone, run
  <2>3. Listed'
    BY <1>2 DEF Validate, Go, Fault, Report, disk, devices, registry, env, OInv, Listed,
        Apart, Strangers, Others, TypeOK, TypeRun, TypeDevices, AdapterOrNone, run
  <2> QED
    BY <2>1, <2>2, <2>3 DEF OInv
<1>3. CASE ControlStop
  <2>1. Apart'
    BY <1>3 DEF ControlStop, Go, Fault, Report, disk, devices, registry, env, OInv,
        Apart, Aimed, Listed, Strangers, Others, TypeOK, TypeRun, TypeDevices,
        AdapterOrNone, run
  <2>2. Aimed'
    BY <1>3 DEF ControlStop, Go, Fault, Report, disk, devices, registry, env, OInv,
        Aimed, Late, SInv, AtWork, TypeOK, TypeRun, TypeDevices, AdapterOrNone, run
  <2>3. Listed'
    BY <1>3 DEF ControlStop, Go, Fault, Report, disk, devices, registry, env, OInv,
        Listed, Apart, Strangers, Others, TypeOK, TypeRun, TypeDevices, AdapterOrNone,
        run
  <2> QED
    BY <2>1, <2>2, <2>3 DEF OInv
<1>4. CASE DeleteService
  <2>1. Apart'
    BY <1>4 DEF DeleteService, Fault, Go, disk, devices, registry, env, OInv, Apart,
        Aimed, Listed, Strangers, Others, TypeOK, TypeRun, TypeDevices, AdapterOrNone,
        run
  <2>2. Aimed'
    BY <1>4 DEF DeleteService, Fault, Go, disk, devices, registry, env, OInv, Aimed,
        Late, SInv, AtWork, TypeOK, TypeRun, TypeDevices, AdapterOrNone, run
  <2>3. Listed'
    BY <1>4 DEF DeleteService, Fault, Go, disk, devices, registry, env, OInv, Listed,
        Apart, Strangers, Others, TypeOK, TypeRun, TypeDevices, AdapterOrNone, run
  <2> QED
    BY <2>1, <2>2, <2>3 DEF OInv
<1>5. CASE DeleteFails
  <2>1. Apart'
    BY <1>5 DEF DeleteFails, Fault, Report, disk, devices, registry, env, OInv, Apart,
        Aimed, Listed, Strangers, Others, TypeOK, TypeRun, TypeDevices, AdapterOrNone,
        run
  <2>2. Aimed'
    BY <1>5 DEF DeleteFails, Fault, Report, disk, devices, registry, env, OInv, Aimed,
        Late, SInv, AtWork, TypeOK, TypeRun, TypeDevices, AdapterOrNone, run
  <2>3. Listed'
    BY <1>5 DEF DeleteFails, Fault, Report, disk, devices, registry, env, OInv, Listed,
        Apart, Strangers, Others, TypeOK, TypeRun, TypeDevices, AdapterOrNone, run
  <2> QED
    BY <2>1, <2>2, <2>3 DEF OInv
<1>6. CASE CopyFails
  <2>1. Apart'
    BY <1>6 DEF CopyFails, Fault, Tear, Report, devices, registry, env, OInv, Apart,
        Aimed, Listed, Strangers, Others, TypeOK, TypeRun, TypeDevices, AdapterOrNone,
        run
  <2>2. Aimed'
    BY <1>6 DEF CopyFails, Fault, Tear, Report, devices, registry, env, OInv, Aimed,
        Late, SInv, AtWork, TypeOK, TypeRun, TypeDevices, AdapterOrNone, run
  <2>3. Listed'
    BY <1>6 DEF CopyFails, Fault, Tear, Report, devices, registry, env, OInv, Listed,
        Apart, Strangers, Others, TypeOK, TypeRun, TypeDevices, AdapterOrNone, run
  <2> QED
    BY <2>1, <2>2, <2>3 DEF OInv
<1>7. CASE CopyFile
  BY <1>7 DEF CopyFile, devices, registry, env, OInv, Apart, Aimed, Listed, Strangers,
      Others, TypeOK, TypeRun, TypeDevices, AdapterOrNone, run, Late, SInv, AtWork
<1>8. CASE CutOffCopying
  <2>1. Apart'
    BY <1>8 DEF CutOffCopying, Fault, Tear, Report, devices, registry, env, OInv, Apart,
        Aimed, Listed, Strangers, Others, TypeOK, TypeRun, TypeDevices, AdapterOrNone,
        run
  <2>2. Aimed'
    BY <1>8 DEF CutOffCopying, Fault, Tear, Report, devices, registry, env, OInv, Aimed,
        Late, SInv, AtWork, TypeOK, TypeRun, TypeDevices, AdapterOrNone, run
  <2>3. Listed'
    BY <1>8 DEF CutOffCopying, Fault, Tear, Report, devices, registry, env, OInv,
        Listed, Apart, Strangers, Others, TypeOK, TypeRun, TypeDevices, AdapterOrNone,
        run
  <2> QED
    BY <2>1, <2>2, <2>3 DEF OInv
<1>9. CASE CopyDone
  <2>1. Apart'
    BY <1>9 DEF CopyDone, Go, disk, devices, registry, env, OInv, Apart, Aimed, Listed,
        Strangers, Others, TypeOK, TypeRun, TypeDevices, AdapterOrNone, run
  <2>2. Aimed'
    BY <1>9 DEF CopyDone, Go, disk, devices, registry, env, OInv, Aimed, Late, SInv,
        AtWork, TypeOK, TypeRun, TypeDevices, AdapterOrNone, run
  <2>3. Listed'
    BY <1>9 DEF CopyDone, Go, disk, devices, registry, env, OInv, Listed, Apart,
        Strangers, Others, TypeOK, TypeRun, TypeDevices, AdapterOrNone, run
  <2> QED
    BY <2>1, <2>2, <2>3 DEF OInv
<1>10. CASE Adopt
  <2>1. Apart'
    BY <1>10 DEF Adopt, WriteAdapterOwnership, Others, Go, disk, registry, env, OInv,
        Apart, Aimed, Listed, Strangers, TypeOK, TypeRun, TypeDevices, AdapterOrNone,
        devices, run
  <2>2. Aimed'
    BY <1>10 DEF Adopt, WriteAdapterOwnership, Others, Go, disk, registry, env, OInv,
        Aimed, Late, SInv, AtWork, TypeOK, TypeRun, TypeDevices, AdapterOrNone, devices,
        run
  <2>3. Listed'
    BY <1>10 DEF Adopt, WriteAdapterOwnership, Others, Go, disk, registry, env, OInv,
        Listed, Apart, Strangers, TypeOK, TypeRun, TypeDevices, AdapterOrNone, devices,
        run
  <2> QED
    BY <2>1, <2>2, <2>3 DEF OInv
<1>11. CASE RemoveLegacyPayload
  <2>1. Apart'
    BY <1>11 DEF RemoveLegacyPayload, Go, devices, registry, env, OInv, Apart, Aimed,
        Listed, Strangers, Others, TypeOK, TypeRun, TypeDevices, AdapterOrNone, run
  <2>2. Aimed'
    BY <1>11 DEF RemoveLegacyPayload, Go, devices, registry, env, OInv, Aimed, Late,
        SInv, AtWork, TypeOK, TypeRun, TypeDevices, AdapterOrNone, run
  <2>3. Listed'
    BY <1>11 DEF RemoveLegacyPayload, Go, devices, registry, env, OInv, Listed, Apart,
        Strangers, Others, TypeOK, TypeRun, TypeDevices, AdapterOrNone, run
  <2> QED
    BY <2>1, <2>2, <2>3 DEF OInv
<1>12. CASE UseNamed
  <2>1. Apart'
    BY <1>12 DEF UseNamed, WriteAdapterOwnership, disk, devices, registry, env, OInv,
        Apart, Aimed, Listed, Strangers, Others, TypeOK, TypeRun, TypeDevices,
        AdapterOrNone, run
  <2>2. Aimed'
    BY <1>12 DEF UseNamed, WriteAdapterOwnership, disk, devices, registry, env, OInv,
        Aimed, Late, SInv, AtWork, TypeOK, TypeRun, TypeDevices, AdapterOrNone, run
  <2>3. Listed'
    BY <1>12 DEF UseNamed, WriteAdapterOwnership, disk, devices, registry, env, OInv,
        Listed, Apart, Strangers, Others, TypeOK, TypeRun, TypeDevices, AdapterOrNone,
        run
  <2> QED
    BY <2>1, <2>2, <2>3 DEF OInv
<1>13. CASE UseInterrupted
  <2>1. Apart'
    BY <1>13 DEF UseInterrupted, Owned, WriteAdapterOwnership, disk, devices, registry,
        env, OInv, Apart, Aimed, Listed, Strangers, Others, TypeOK, TypeRun,
        TypeDevices, AdapterOrNone, run
  <2>2. Aimed'
    BY <1>13 DEF UseInterrupted, Owned, WriteAdapterOwnership, disk, devices, registry,
        env, OInv, Aimed, Late, SInv, AtWork, TypeOK, TypeRun, TypeDevices,
        AdapterOrNone, run
  <2>3. Listed'
    BY <1>13 DEF UseInterrupted, Owned, WriteAdapterOwnership, disk, devices, registry,
        env, OInv, Listed, Apart, Strangers, Others, TypeOK, TypeRun, TypeDevices,
        AdapterOrNone, run
  <2> QED
    BY <2>1, <2>2, <2>3 DEF OInv
<1>14. CASE NeedNew
  <2>1. Apart'
    BY <1>14 DEF NeedNew, Owned, disk, devices, registry, env, OInv, Apart, Aimed,
        Listed, Strangers, Others, TypeOK, TypeRun, TypeDevices, AdapterOrNone, run
  <2>2. Aimed'
    BY <1>14 DEF NeedNew, Owned, disk, devices, registry, env, OInv, Aimed, Late, SInv,
        AtWork, TypeOK, TypeRun, TypeDevices, AdapterOrNone, run
  <2>3. Listed'
    BY <1>14 DEF NeedNew, Owned, disk, devices, registry, env, OInv, Listed, Apart,
        Strangers, Others, TypeOK, TypeRun, TypeDevices, AdapterOrNone, run
  <2> QED
    BY <2>1, <2>2, <2>3 DEF OInv
<1>15. CASE Devcon
  <2>1. Apart'
    BY <1>15, NewGuidIsNew DEF Devcon, Appears, Fault, Go, disk, env, OInv, Apart,
        Aimed, Listed, Strangers, Others, TypeOK, TypeRun, TypeDevices, AdapterOrNone,
        devices, registry, run
  <2>2. Aimed'
    BY <1>15, NewGuidIsNew DEF Devcon, Appears, Fault, Go, disk, env, OInv, Aimed, Late,
        SInv, AtWork, TypeOK, TypeRun, TypeDevices, AdapterOrNone, devices, registry,
        run
  <2>3. Listed'
    BY <1>15, NewGuidIsNew DEF Devcon, Appears, Fault, Go, disk, env, OInv, Listed,
        Apart, Strangers, Others, TypeOK, TypeRun, TypeDevices, AdapterOrNone, devices,
        registry, run
  <2> QED
    BY <2>1, <2>2, <2>3 DEF OInv
<1>16. CASE DevconFails
  <2>1. Apart'
    BY <1>16, NewGuidIsNew DEF DevconFails, Fault, devices, registry, Appears, Report,
        disk, env, OInv, Apart, Aimed, Listed, Strangers, Others, TypeOK, TypeRun,
        TypeDevices, AdapterOrNone, run
  <2>2. Aimed'
    BY <1>16, NewGuidIsNew DEF DevconFails, Fault, devices, registry, Appears, Report,
        disk, env, OInv, Aimed, Late, SInv, AtWork, TypeOK, TypeRun, TypeDevices,
        AdapterOrNone, run
  <2>3. Listed'
    BY <1>16, NewGuidIsNew DEF DevconFails, Fault, devices, registry, Appears, Report,
        disk, env, OInv, Listed, Apart, Strangers, Others, TypeOK, TypeRun, TypeDevices,
        AdapterOrNone, run
  <2> QED
    BY <2>1, <2>2, <2>3 DEF OInv
<1>17. CASE Find
  <2>1. Apart'
    BY <1>17 DEF Find, WriteAdapterOwnership, Report, disk, devices, registry, env,
        OInv, Apart, Aimed, Listed, Strangers, Others, TypeOK, TypeRun, TypeDevices,
        AdapterOrNone, run
  <2>2. Aimed'
    BY <1>17 DEF Find, WriteAdapterOwnership, Report, disk, devices, registry, env,
        OInv, Aimed, Late, SInv, AtWork, TypeOK, TypeRun, TypeDevices, AdapterOrNone,
        run
  <2>3. Listed'
    BY <1>17 DEF Find, WriteAdapterOwnership, Report, disk, devices, registry, env,
        OInv, Listed, Apart, Strangers, Others, TypeOK, TypeRun, TypeDevices,
        AdapterOrNone, run
  <2> QED
    BY <2>1, <2>2, <2>3 DEF OInv
<1>18. CASE OwnInstance
  <2>1. Apart'
    BY <1>18 DEF OwnInstance, Fault, Go, disk, devices, env, OInv, Apart, Aimed, Listed,
        Strangers, Others, TypeOK, TypeRun, TypeDevices, AdapterOrNone, registry, run
  <2>2. Aimed'
    BY <1>18 DEF OwnInstance, Fault, Go, disk, devices, env, OInv, Aimed, Late, SInv,
        AtWork, TypeOK, TypeRun, TypeDevices, AdapterOrNone, registry, run
  <2>3. Listed'
    BY <1>18 DEF OwnInstance, Fault, Go, disk, devices, env, OInv, Listed, Apart,
        Strangers, Others, TypeOK, TypeRun, TypeDevices, AdapterOrNone, registry, run
  <2> QED
    BY <2>1, <2>2, <2>3 DEF OInv
<1>19. CASE OwnGuid
  <2>1. Apart'
    BY <1>19 DEF OwnGuid, Fault, Go, disk, devices, env, OInv, Apart, Aimed, Listed,
        Strangers, Others, TypeOK, TypeRun, TypeDevices, AdapterOrNone, registry, run
  <2>2. Aimed'
    BY <1>19 DEF OwnGuid, Fault, Go, disk, devices, env, OInv, Aimed, Late, SInv,
        AtWork, TypeOK, TypeRun, TypeDevices, AdapterOrNone, registry, run
  <2>3. Listed'
    BY <1>19 DEF OwnGuid, Fault, Go, disk, devices, env, OInv, Listed, Apart, Strangers,
        Others, TypeOK, TypeRun, TypeDevices, AdapterOrNone, registry, run
  <2> QED
    BY <2>1, <2>2, <2>3 DEF OInv
<1>20. CASE Rename
  <2>1. Apart'
    BY <1>20 DEF Rename, Go, disk, registry, env, OInv, Apart, Aimed, Listed, Strangers,
        Others, TypeOK, TypeRun, TypeDevices, AdapterOrNone, devices, run
  <2>2. Aimed'
    BY <1>20 DEF Rename, Go, disk, registry, env, OInv, Aimed, Late, SInv, AtWork,
        TypeOK, TypeRun, TypeDevices, AdapterOrNone, devices, run
  <2>3. Listed'
    BY <1>20 DEF Rename, Go, disk, registry, env, OInv, Listed, Apart, Strangers,
        Others, TypeOK, TypeRun, TypeDevices, AdapterOrNone, devices, run
  <2> QED
    BY <2>1, <2>2, <2>3 DEF OInv
<1>21. CASE Verify
  <2>1. Apart'
    BY <1>21 DEF Verify, Owned, Report, Go, disk, devices, registry, env, OInv, Apart,
        Aimed, Listed, Strangers, Others, TypeOK, TypeRun, TypeDevices, AdapterOrNone,
        run
  <2>2. Aimed'
    BY <1>21 DEF Verify, Owned, Report, Go, disk, devices, registry, env, OInv, Aimed,
        Late, SInv, AtWork, TypeOK, TypeRun, TypeDevices, AdapterOrNone, run
  <2>3. Listed'
    BY <1>21 DEF Verify, Owned, Report, Go, disk, devices, registry, env, OInv, Listed,
        Apart, Strangers, Others, TypeOK, TypeRun, TypeDevices, AdapterOrNone, run
  <2> QED
    BY <2>1, <2>2, <2>3 DEF OInv
<1>22. CASE CreateService
  <2>1. Apart'
    BY <1>22 DEF CreateService, Go, Fault, Report, disk, devices, registry, env, OInv,
        Apart, Aimed, Listed, Strangers, Others, TypeOK, TypeRun, TypeDevices,
        AdapterOrNone, run
  <2>2. Aimed'
    BY <1>22 DEF CreateService, Go, Fault, Report, disk, devices, registry, env, OInv,
        Aimed, Late, SInv, AtWork, TypeOK, TypeRun, TypeDevices, AdapterOrNone, run
  <2>3. Listed'
    BY <1>22 DEF CreateService, Go, Fault, Report, disk, devices, registry, env, OInv,
        Listed, Apart, Strangers, Others, TypeOK, TypeRun, TypeDevices, AdapterOrNone,
        run
  <2> QED
    BY <2>1, <2>2, <2>3 DEF OInv
<1>23. CASE Register
  <2>1. Apart'
    BY <1>23 DEF Register, Report, Fault, disk, devices, registry, env, OInv, Apart,
        Aimed, Listed, Strangers, Others, TypeOK, TypeRun, TypeDevices, AdapterOrNone,
        run
  <2>2. Aimed'
    BY <1>23 DEF Register, Report, Fault, disk, devices, registry, env, OInv, Aimed,
        Late, SInv, AtWork, TypeOK, TypeRun, TypeDevices, AdapterOrNone, run
  <2>3. Listed'
    BY <1>23 DEF Register, Report, Fault, disk, devices, registry, env, OInv, Listed,
        Apart, Strangers, Others, TypeOK, TypeRun, TypeDevices, AdapterOrNone, run
  <2> QED
    BY <2>1, <2>2, <2>3 DEF OInv
<1>24. CASE RemoveAdapter
  <2>1. Apart'
    BY <1>24 DEF RemoveAdapter, Fault, devices, Go, disk, env, OInv, Apart, Aimed,
        Listed, Strangers, Others, TypeOK, TypeRun, TypeDevices, AdapterOrNone,
        registry, run
  <2>2. Aimed'
    BY <1>24 DEF RemoveAdapter, Fault, devices, Go, disk, env, OInv, Aimed, Late, SInv,
        AtWork, TypeOK, TypeRun, TypeDevices, AdapterOrNone, registry, run
  <2>3. Listed'
    BY <1>24 DEF RemoveAdapter, Fault, devices, Go, disk, env, OInv, Listed, Apart,
        Strangers, Others, TypeOK, TypeRun, TypeDevices, AdapterOrNone, registry, run
  <2> QED
    BY <2>1, <2>2, <2>3 DEF OInv
<1>25. CASE Forget
  <2>1. Apart'
    BY <1>25 DEF Forget, Fault, Go, disk, devices, env, OInv, Apart, Aimed, Listed,
        Strangers, Others, TypeOK, TypeRun, TypeDevices, AdapterOrNone, registry, run
  <2>2. Aimed'
    BY <1>25 DEF Forget, Fault, Go, disk, devices, env, OInv, Aimed, Late, SInv, AtWork,
        TypeOK, TypeRun, TypeDevices, AdapterOrNone, registry, run
  <2>3. Listed'
    BY <1>25 DEF Forget, Fault, Go, disk, devices, env, OInv, Listed, Apart, Strangers,
        Others, TypeOK, TypeRun, TypeDevices, AdapterOrNone, registry, run
  <2> QED
    BY <2>1, <2>2, <2>3 DEF OInv
<1>26. CASE DeleteFiles
  <2>1. Apart'
    BY <1>26 DEF DeleteFiles, Report, devices, registry, env, OInv, Apart, Aimed,
        Listed, Strangers, Others, TypeOK, TypeRun, TypeDevices, AdapterOrNone, run
  <2>2. Aimed'
    BY <1>26 DEF DeleteFiles, Report, devices, registry, env, OInv, Aimed, Late, SInv,
        AtWork, TypeOK, TypeRun, TypeDevices, AdapterOrNone, run
  <2>3. Listed'
    BY <1>26 DEF DeleteFiles, Report, devices, registry, env, OInv, Listed, Apart,
        Strangers, Others, TypeOK, TypeRun, TypeDevices, AdapterOrNone, run
  <2> QED
    BY <2>1, <2>2, <2>3 DEF OInv
<1>27. CASE CutOffDeleting
  <2>1. Apart'
    BY <1>27 DEF CutOffDeleting, Fault, Report, devices, registry, env, OInv, Apart,
        Aimed, Listed, Strangers, Others, TypeOK, TypeRun, TypeDevices, AdapterOrNone,
        run
  <2>2. Aimed'
    BY <1>27 DEF CutOffDeleting, Fault, Report, devices, registry, env, OInv, Aimed,
        Late, SInv, AtWork, TypeOK, TypeRun, TypeDevices, AdapterOrNone, run
  <2>3. Listed'
    BY <1>27 DEF CutOffDeleting, Fault, Report, devices, registry, env, OInv, Listed,
        Apart, Strangers, Others, TypeOK, TypeRun, TypeDevices, AdapterOrNone, run
  <2> QED
    BY <2>1, <2>2, <2>3 DEF OInv
<1>28. CASE ServiceEnds
  BY <1>28 DEF ServiceEnds, run, disk, devices, registry, env, OInv, Apart, Aimed,
      Listed, Strangers, Others, TypeOK, TypeRun, TypeDevices, AdapterOrNone, Late,
      SInv, AtWork
<1>29. CASE CutOff
  <2>1. Apart'
    BY <1>29 DEF CutOff, Fault, Report, disk, devices, registry, env, OInv, Apart,
        Aimed, Listed, Strangers, Others, TypeOK, TypeRun, TypeDevices, AdapterOrNone,
        run
  <2>2. Aimed'
    BY <1>29 DEF CutOff, Fault, Report, disk, devices, registry, env, OInv, Aimed, Late,
        SInv, AtWork, TypeOK, TypeRun, TypeDevices, AdapterOrNone, run
  <2>3. Listed'
    BY <1>29 DEF CutOff, Fault, Report, disk, devices, registry, env, OInv, Listed,
        Apart, Strangers, Others, TypeOK, TypeRun, TypeDevices, AdapterOrNone, run
  <2> QED
    BY <2>1, <2>2, <2>3 DEF OInv
<1>30. CASE Restart
  BY <1>30 DEF Restart, run, registry, OInv, Apart, Aimed, Listed, Strangers, Others,
      TypeOK, TypeRun, TypeDevices, AdapterOrNone, devices, Late, SInv, AtWork
<1>31. CASE DeviceReady
  BY <1>31 DEF DeviceReady, run, disk, registry, env, OInv, Apart, Aimed, Listed,
      Strangers, Others, TypeOK, TypeRun, TypeDevices, AdapterOrNone, devices, Late,
      SInv, AtWork
<1>32. CASE OtherSetup
  <2>1. Apart'
    BY <1>32, NewGuidIsNew DEF OtherSetup, Fault, Appears, run, disk, env, OInv, Apart,
        Aimed, Listed, Strangers, Others, TypeOK, TypeRun, TypeDevices, AdapterOrNone,
        devices, registry
  <2>2. Aimed'
    BY <1>32, NewGuidIsNew DEF OtherSetup, Fault, Appears, run, disk, env, OInv, Aimed,
        Late, SInv, AtWork, TypeOK, TypeRun, TypeDevices, AdapterOrNone, devices,
        registry
  <2>3. Listed'
    BY <1>32, NewGuidIsNew DEF OtherSetup, Fault, Appears, run, disk, env, OInv, Listed,
        Apart, Strangers, Others, TypeOK, TypeRun, TypeDevices, AdapterOrNone, devices,
        registry
  <2> QED
    BY <2>1, <2>2, <2>3 DEF OInv
<1>33. CASE OpenUI
  BY <1>33 DEF OpenUI, run, disk, devices, registry, OInv, Apart, Aimed, Listed,
      Strangers, Others, TypeOK, TypeRun, TypeDevices, AdapterOrNone, Late, SInv, AtWork
<1>34. CASE CloseUI
  BY <1>34 DEF CloseUI, run, disk, devices, registry, OInv, Apart, Aimed, Listed,
      Strangers, Others, TypeOK, TypeRun, TypeDevices, AdapterOrNone, Late, SInv, AtWork
<1>35. CASE CalmDown
  BY <1>35 DEF CalmDown, run, disk, devices, registry, OInv, Apart, Aimed, Listed,
      Strangers, Others, TypeOK, TypeRun, TypeDevices, AdapterOrNone, Late, SInv, AtWork
<1>36. CASE UNCHANGED vars
  <2>1. Apart'
    BY <1>36 DEF vars, run, disk, devices, registry, env, OInv, Apart, Aimed, Listed,
        Strangers, Others, TypeOK, TypeRun, TypeDevices, AdapterOrNone
  <2>2. Aimed'
    BY <1>36 DEF vars, run, disk, devices, registry, env, OInv, Aimed, Late, SInv,
        AtWork, TypeOK, TypeRun, TypeDevices, AdapterOrNone
  <2>3. Listed'
    BY <1>36 DEF vars, run, disk, devices, registry, env, OInv, Listed, Apart,
        Strangers, Others, TypeOK, TypeRun, TypeDevices, AdapterOrNone
  <2> QED
    BY <2>1, <2>2, <2>3 DEF OInv
<1> QED
  BY <1>1, <1>2, <1>3, <1>4, <1>5, <1>6, <1>7, <1>8, <1>9, <1>10, <1>11, <1>12, <1>13,
      <1>14, <1>15, <1>16, <1>17, <1>18, <1>19, <1>20, <1>21, <1>22, <1>23, <1>24,
      <1>25, <1>26, <1>27, <1>28, <1>29, <1>30, <1>31, <1>32, <1>33, <1>34, <1>35, <1>36
      DEF Next, Step

\* Setup takes no adapter away but its own, or what it cannot tell from that.
LEMMA StrangersStay ==
  ASSUME TypeOK, OInv, [Next]_vars
  PROVE  Strangers \subseteq adapters'
<1>1. CASE RemoveAdapter
  BY <1>1, NoneAssumption DEF RemoveAdapter, OInv, Apart, Strangers, Others, TypeOK,
      TypeDevices, devices
<1>2. ASSUME ~RemoveAdapter PROVE adapters \subseteq adapters'
  <2>2. ~RemoveAdapter
    BY <1>2
  <2> QED
    <3>1. ASSUME NEW m \in {"install", "portable", "uninstall"}, Begin(m)
          PROVE  adapters \subseteq adapters'
      BY <3>1 DEF Begin, devices
    <3>2. ASSUME Validate PROVE adapters \subseteq adapters'
      BY <3>2 DEF Validate, devices
    <3>3. ASSUME ControlStop PROVE adapters \subseteq adapters'
      BY <3>3 DEF ControlStop, devices
    <3>4. ASSUME DeleteService PROVE adapters \subseteq adapters'
      BY <3>4 DEF DeleteService, devices
    <3>5. ASSUME DeleteFails PROVE adapters \subseteq adapters'
      BY <3>5 DEF DeleteFails, devices
    <3>6. ASSUME CopyFails PROVE adapters \subseteq adapters'
      BY <3>6 DEF CopyFails, devices
    <3>7. ASSUME CopyFile PROVE adapters \subseteq adapters'
      BY <3>7 DEF CopyFile, devices
    <3>8. ASSUME CutOffCopying PROVE adapters \subseteq adapters'
      BY <3>8 DEF CutOffCopying, devices
    <3>9. ASSUME CopyDone PROVE adapters \subseteq adapters'
      BY <3>9 DEF CopyDone, devices
    <3>10. ASSUME Adopt PROVE adapters \subseteq adapters'
      BY <3>10 DEF Adopt, devices
    <3>11. ASSUME RemoveLegacyPayload PROVE adapters \subseteq adapters'
      BY <3>11 DEF RemoveLegacyPayload, devices
    <3>12. ASSUME UseNamed PROVE adapters \subseteq adapters'
      BY <3>12 DEF UseNamed, devices
    <3>13. ASSUME UseInterrupted PROVE adapters \subseteq adapters'
      BY <3>13 DEF UseInterrupted, devices
    <3>14. ASSUME NeedNew PROVE adapters \subseteq adapters'
      BY <3>14 DEF NeedNew, devices
    <3>15. ASSUME Devcon PROVE adapters \subseteq adapters'
      BY <3>15 DEF Devcon, Appears, devices
    <3>16. ASSUME DevconFails PROVE adapters \subseteq adapters'
      BY <3>16 DEF DevconFails, devices, Appears
    <3>17. ASSUME Find PROVE adapters \subseteq adapters'
      BY <3>17 DEF Find, devices
    <3>18. ASSUME OwnInstance PROVE adapters \subseteq adapters'
      BY <3>18 DEF OwnInstance, devices
    <3>19. ASSUME OwnGuid PROVE adapters \subseteq adapters'
      BY <3>19 DEF OwnGuid, devices
    <3>20. ASSUME Rename PROVE adapters \subseteq adapters'
      BY <3>20 DEF Rename, devices
    <3>21. ASSUME Verify PROVE adapters \subseteq adapters'
      BY <3>21 DEF Verify, devices
    <3>22. ASSUME CreateService PROVE adapters \subseteq adapters'
      BY <3>22 DEF CreateService, devices
    <3>23. ASSUME Register PROVE adapters \subseteq adapters'
      BY <3>23 DEF Register, devices
    <3>24. ASSUME Forget PROVE adapters \subseteq adapters'
      BY <3>24 DEF Forget, devices
    <3>25. ASSUME DeleteFiles PROVE adapters \subseteq adapters'
      BY <3>25 DEF DeleteFiles, devices
    <3>26. ASSUME CutOffDeleting PROVE adapters \subseteq adapters'
      BY <3>26 DEF CutOffDeleting, devices
    <3>27. ASSUME ServiceEnds PROVE adapters \subseteq adapters'
      BY <3>27 DEF ServiceEnds, devices
    <3>28. ASSUME CutOff PROVE adapters \subseteq adapters'
      BY <3>28 DEF CutOff, devices
    <3>29. ASSUME Restart PROVE adapters \subseteq adapters'
      BY <3>29 DEF Restart, devices
    <3>30. ASSUME DeviceReady PROVE adapters \subseteq adapters'
      BY <3>30 DEF DeviceReady, devices
    <3>31. ASSUME OtherSetup PROVE adapters \subseteq adapters'
      BY <3>31 DEF OtherSetup, Appears, devices
    <3>32. ASSUME OpenUI PROVE adapters \subseteq adapters'
      BY <3>32 DEF OpenUI, devices
    <3>33. ASSUME CloseUI PROVE adapters \subseteq adapters'
      BY <3>33 DEF CloseUI, devices
    <3>34. ASSUME CalmDown PROVE adapters \subseteq adapters'
      BY <3>34 DEF CalmDown, devices
    <3>35. ASSUME UNCHANGED vars PROVE adapters \subseteq adapters'
      BY <3>35 DEF vars, devices
    <3> QED
      BY <2>2, <3>1, <3>2, <3>3, <3>4, <3>5, <3>6, <3>7, <3>8, <3>9, <3>10, <3>11,
          <3>12, <3>13, <3>14, <3>15, <3>16, <3>17, <3>18, <3>19, <3>20, <3>21, <3>22,
          <3>23, <3>24, <3>25, <3>26, <3>27, <3>28, <3>29, <3>30, <3>31, <3>32, <3>33,
          <3>34, <3>35
      DEF Next, Step
<1> QED
  BY <1>1, <1>2 DEF Strangers, Others

\* The adapters of others are neither set up, nor renamed, nor removed, whatever
\* fails, is cut off or is tried again.
THEOREM StrangersAlwaysLeftAlone == Spec => StrangersLeftAlone
<1> DEFINE Alone ==
      /\ Strangers \subseteq adapters'
      /\ Strangers' \cap {target', named'} = {}
<1>1. Spec => []TypeOK
  BY TypeCorrect
<1>2. TypeOK /\ SInv /\ OInv /\ [Next]_vars => OInv'
  BY OStep
<1>3. ASSUME TypeOK, SInv, OInv, [Next]_vars PROVE [Alone]_vars
  <2>1. Strangers' \cap {target', named'} = {}
    BY <1>2, <1>3 DEF OInv, Apart
  <2> QED
    BY <1>3, <2>1, StrangersStay
<1>4. Spec => []SInv
  BY SAlways
<1>5. Spec => []OInv
  BY <1>1, <1>2, <1>4, OInit, PTL DEF Spec
<1>6. Spec => [][Alone]_vars
  BY <1>1, <1>3, <1>4, <1>5, PTL DEF Spec
<1> QED
  BY <1>6 DEF StrangersLeftAlone

=============================================================================
