------------------------------ MODULE UefiLoader ------------------------------
(***************************************************************************)
(* src/uefi_loader.c: UefiMain loads \EFI\FOXOS\kernel.bin into a pool     *)
(* buffer and returns (the hand-off to the kernel is not written yet,      *)
(* uefi_loader.c:95-96).  One action per step between two calls whose     *)
(* status the code tests; each takes the firmware's answer from the        *)
(* UefiFirmware environment, and the error path it leads to is part of the *)
(* action.  The text written with OutputString is left out.                *)
(*                                                                         *)
(* Each call is taken to reach the service its member names.  Which one   *)
(* it reaches in the binary is the question UefiLayout answers.            *)
(***************************************************************************)
EXTENDS UefiFirmware

VARIABLES pc, fileSize, readSize, loaded, ret

loader_vars == <<pc, fileSize, readSize, loaded, ret>>
vars == <<loader_vars, fw_vars>>

\* uefi_loader.c:52: u"\\EFI\\FOXOS\\kernel.bin", split at the '\'s.
kernelPath == <<"", "EFI", "FOXOS", "kernel.bin">>

\* What an uninitialised UINT64 can hold: less than, as much as, or more
\* than the file.
Sizes == 0..KERNEL_SIZE + 1

\* Uefi.h:29-33, as <<Data1 (high, low 16 bits), Data2, Data3>>.
EFI_LOADED_IMAGE_PROTOCOL_GUID == <<23323, 12705, 38242, 4562>>  \* 0x5B1B_31A1, 0x9562, 0x11D2
EFI_SIMPLE_FILE_SYSTEM_PROTOCOL_GUID == <<38478, 23330, 25689, 4562>>  \* 0x964E_5B22, 0x6459, 0x11D2

Return(s) == pc' = "done" /\ ret' = s

\* uefi_loader.c:14-27
GetLoadedImage ==
    /\ pc = "start"
    /\ LET s == HandleProtocol("image", EFI_LOADED_IMAGE_PROTOCOL_GUID)
       IN IF s = "SUCCESS" THEN pc' = "fs" /\ UNCHANGED ret ELSE Return(s)
    /\ UNCHANGED <<fileSize, readSize, loaded, fw_vars>>

\* uefi_loader.c:34-40: the file system of LoadedImage->DeviceHandle.
GetFileSystem ==
    /\ pc = "fs"
    /\ LET s == HandleProtocol(LoadedImageOf.DeviceHandle, EFI_SIMPLE_FILE_SYSTEM_PROTOCOL_GUID)
       IN IF s = "SUCCESS" THEN pc' = "volume" /\ UNCHANGED ret ELSE Return(s)
    /\ UNCHANGED <<fileSize, readSize, loaded, fw_vars>>

\* uefi_loader.c:43-48
OpenVolume ==
    /\ pc = "volume"
    /\ \E s \in Device("SUCCESS") :
         IF s = "SUCCESS" THEN pc' = "open" /\ Opened("root") /\ UNCHANGED ret
         ELSE Return(s) /\ UNCHANGED open
    /\ UNCHANGED <<fileSize, readSize, loaded, allocated, mapKey, boot_services, pos>>

\* Mutant: the error path of Open leaves Root open.
OpenFailKeepsRoot == UNCHANGED open

\* uefi_loader.c:56
OpenFailCloses == Closed({"root"})

\* uefi_loader.c:51-58
OpenKernel ==
    /\ pc = "open"
    /\ \E s \in OpenResults(kernelPath) :
         IF s = "SUCCESS" THEN pc' = "size" /\ Opened("kernel") /\ UNCHANGED ret
         ELSE Return(s) /\ OpenFailCloses
    /\ UNCHANGED <<fileSize, readSize, loaded, allocated, mapKey, boot_services, pos>>

(* uefi_loader.c:61-64: SetPosition to the end, GetPosition into fileSize, *)
(* SetPosition back to 0, none of their statuses tested.  A GetPosition   *)
(* that fails leaves fileSize uninitialised.                               *)
GetFileSize ==
    /\ pc = "size"
    /\ \E s1, s2, s3 \in Device("SUCCESS") :
         LET p1 == IF s1 = "SUCCESS" THEN KERNEL_SIZE ELSE pos
         IN /\ IF s2 = "SUCCESS" THEN fileSize' = p1 ELSE fileSize' \in Sizes
            /\ pos' = IF s3 = "SUCCESS" THEN 0 ELSE p1
    /\ pc' = "alloc"
    /\ UNCHANGED <<readSize, loaded, ret, open, allocated, mapKey, boot_services>>

\* uefi_loader.c:69-76
AllocateBuffer ==
    /\ pc = "alloc"
    /\ \E s \in Alloc :
         IF s = "SUCCESS" THEN pc' = "read" /\ Allocated("kernelBuffer") /\ UNCHANGED <<ret, open>>
         ELSE Return(s) /\ Closed({"kernel", "root"}) /\ UNCHANGED <<allocated, mapKey>>
    /\ UNCHANGED <<fileSize, readSize, loaded, boot_services, pos>>

(* uefi_loader.c:79-93: read fileSize bytes; on an error status or a short *)
(* read free the buffer, close both files and return status, else close    *)
(* both and return EFI_SUCCESS.  Read sets readSize to the bytes copied.   *)
ReadKernel ==
    /\ pc = "read"
    /\ \E s \in Device("SUCCESS") :
         LET n == IF s = "SUCCESS" THEN ReadCount(fileSize) ELSE fileSize
         IN /\ readSize' = n
            /\ loaded' = (s = "SUCCESS" /\ pos = 0 /\ n = KERNEL_SIZE)
            /\ pos' = IF s = "SUCCESS" THEN pos + n ELSE pos
            /\ Closed({"kernel", "root"})
            /\ IF s # "SUCCESS" \/ n # fileSize
               THEN Return(s) /\ Freed("kernelBuffer")
               ELSE Return("SUCCESS") /\ UNCHANGED <<allocated, mapKey>>
    /\ UNCHANGED <<fileSize, boot_services>>

\* UefiMain has returned to the firmware.
Terminating == pc = "done" /\ UNCHANGED vars

Init ==
    /\ FirmwareInit
    /\ pc = "start" /\ fileSize = 0 /\ readSize = 0 /\ loaded = FALSE /\ ret = "none"

Next ==
    \/ GetLoadedImage \/ GetFileSystem \/ OpenVolume \/ OpenKernel
    \/ GetFileSize \/ AllocateBuffer \/ ReadKernel \/ Terminating

Spec == Init /\ [][Next]_vars

(* --- properties ---------------------------------------------------------- *)

(* When UefiMain returns, every file it opened is closed again, and on an  *)
(* error return the pool buffer it allocated is freed: each error path of *)
(* uefi_loader.c:54-87 releases exactly what the steps before it acquired, *)
(* whichever call fails.                                                   *)
ReturnReleasesResources ==
    pc = "done" => open = {} /\ (ret # "SUCCESS" => allocated = {})

(* UefiMain returns EFI_SUCCESS only with the whole of kernel.bin in its   *)
(* buffer: "Kernel loaded successfully!" (uefi_loader.c:93).               *)
SuccessOnlyWhenLoaded == pc = "done" /\ ret = "SUCCESS" => loaded
==============================================================================
