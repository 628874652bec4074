---------------------------- MODULE UefiBootloader ----------------------------
(***************************************************************************)
(* src/src/uefi_bootloader.c: UefiMain finds the file system, reads        *)
(* EFI\FOXOS\kernel.bin into pages sized from its EFI_FILE_INFO, leaves    *)
(* boot services and jumps to the first byte of the kernel.  One action    *)
(* per step between two tested statuses, over the UefiFirmware            *)
(* environment; the messages written with Print are left out.  As in       *)
(* UefiLoader, each call is taken to reach the service its member names.   *)
(***************************************************************************)
EXTENDS UefiFirmware

VARIABLES pc, info_size, file_size, loaded, ret

boot_vars == <<pc, info_size, file_size, loaded, ret>>
vars == <<boot_vars, fw_vars>>

\* uefi_bootloader.c:109: u"EFI\\FOXOS\\kernel.bin", opened from the root.
kernel_path == <<"EFI", "FOXOS", "kernel.bin">>

(* uefi_bootloader.c:132 reads the UINT64 at byte 32 of EFI_FILE_INFO,     *)
(* the Nanosecond, TimeZone and Daylight fields of CreateTime (bytes      *)
(* 24-39), not FileSize (byte 8).  Its value is unrelated to the file's   *)
(* size: below, equal to or above it.                                      *)
CreateTimeValues == 0..KERNEL_SIZE + 1

\* uefi_bootloader.c:23-24, as <<Data1 (high, low 16 bits), Data2, Data3>>: the file-system
\* GUID's Data1 has lost its last digit (0x0964e5b2 for 0x964e5b22).
EFI_LOADED_IMAGE_PROTOCOL_GUID == <<23323, 12705, 38242, 4562>>  \* 0x5B1B_31A1, 0x9562, 0x11D2
EFI_SIMPLE_FILE_SYSTEM_PROTOCOL_GUID == <<2404, 58802, 25689, 4562>>  \* 0x0964_E5B2, 0x6459, 0x11D2

Return(s) == pc' = "done" /\ ret' = s

\* A step whose call succeeded moves on to the next; one that failed
\* returns its status.  Nothing is closed or freed on any error path.
Step(s, next) == IF s = "SUCCESS" THEN pc' = next /\ UNCHANGED ret ELSE Return(s)

\* uefi_bootloader.c:86-91
GetLoadedImage ==
    /\ pc = "start"
    /\ Step(HandleProtocol("image", EFI_LOADED_IMAGE_PROTOCOL_GUID), "fs")
    /\ UNCHANGED <<info_size, file_size, loaded, fw_vars>>

\* uefi_bootloader.c:94-99: the file system of LoadedImage->ParentHandle.
GetFileSystem ==
    /\ pc = "fs"
    /\ Step(HandleProtocol(LoadedImageOf.ParentHandle, EFI_SIMPLE_FILE_SYSTEM_PROTOCOL_GUID), "volume")
    /\ UNCHANGED <<info_size, file_size, loaded, fw_vars>>

\* uefi_bootloader.c:102-105
OpenVolume ==
    /\ pc = "volume"
    /\ \E s \in Device("SUCCESS") :
         Step(s, "open") /\ IF s = "SUCCESS" THEN Opened("root") ELSE UNCHANGED open
    /\ UNCHANGED <<info_size, file_size, loaded, allocated, mapKey, boot_services, pos>>

\* uefi_bootloader.c:108-112
OpenKernel ==
    /\ pc = "open"
    /\ \E s \in OpenResults(kernel_path) :
         Step(s, "info") /\ IF s = "SUCCESS" THEN Opened("kernel") ELSE UNCHANGED open
    /\ UNCHANGED <<info_size, file_size, loaded, allocated, mapKey, boot_services, pos>>

(* uefi_bootloader.c:115-121: GetInfo with no buffer must answer           *)
(* EFI_BUFFER_TOO_SMALL and the size the information needs; any other     *)
(* answer is returned.                                                     *)
QueryInfoSize ==
    /\ pc = "info"
    /\ \E s \in Device("BUFFER_TOO_SMALL") :
         IF s = "BUFFER_TOO_SMALL"
         THEN pc' = "info_pages" /\ info_size' = INFO_SIZE /\ UNCHANGED ret
         ELSE Return(s) /\ UNCHANGED info_size
    /\ UNCHANGED <<file_size, loaded, fw_vars>>

\* uefi_bootloader.c:124-128
AllocateInfo ==
    /\ pc = "info_pages"
    /\ \E s \in Alloc :
         Step(s, "get_info")
         /\ IF s = "SUCCESS" THEN Allocated("file_info") ELSE UNCHANGED <<allocated, mapKey>>
    /\ UNCHANGED <<info_size, file_size, loaded, open, boot_services, pos>>

\* uefi_bootloader.c:130-133
ReadInfo ==
    /\ pc = "get_info"
    /\ \E s \in Device("SUCCESS") :
         /\ Step(s, "kernel_pages")
         /\ IF s = "SUCCESS" THEN file_size' \in CreateTimeValues ELSE UNCHANGED file_size
    /\ UNCHANGED <<info_size, loaded, fw_vars>>

\* uefi_bootloader.c:136-140
AllocateKernel ==
    /\ pc = "kernel_pages"
    /\ \E s \in Alloc :
         Step(s, "read")
         /\ IF s = "SUCCESS" THEN Allocated("kernel_buffer") ELSE UNCHANGED <<allocated, mapKey>>
    /\ UNCHANGED <<info_size, file_size, loaded, open, boot_services, pos>>

\* uefi_bootloader.c:143-145: Read of file_size bytes; file_size becomes
\* the count read.
ReadKernel ==
    /\ pc = "read"
    /\ \E s \in Device("SUCCESS") :
         /\ Step(s, "exit")
         /\ IF s = "SUCCESS"
            THEN LET n == ReadCount(file_size)
                 IN file_size' = n /\ pos' = pos + n /\ loaded' = (pos = 0 /\ n = KERNEL_SIZE)
            ELSE UNCHANGED <<file_size, pos, loaded>>
    /\ UNCHANGED <<info_size, open, allocated, mapKey, boot_services>>

\* uefi_bootloader.c:148-155: ExitBootServices(ImageHandle, 0), with no
\* GetMemoryMap before it.
ExitBootServices ==
    /\ pc = "exit"
    /\ IF mapKey = 0
       THEN pc' = "jump" /\ boot_services' = "exited" /\ UNCHANGED ret
       ELSE Return("INVALID_PARAMETER") /\ UNCHANGED boot_services
    /\ UNCHANGED <<info_size, file_size, loaded, open, allocated, mapKey, pos>>

\* uefi_bootloader.c:158-160: KernelEntry(), which does not return
\* (kernel.c ends in its shell loop), so :163-168 never run.
JumpToKernel ==
    /\ pc = "jump"
    /\ pc' = "kernel"
    /\ UNCHANGED <<info_size, file_size, loaded, ret, fw_vars>>

\* UefiMain has returned to the firmware, or the kernel runs.
Terminating == pc \in {"done", "kernel"} /\ UNCHANGED vars

Init ==
    /\ FirmwareInit
    /\ pc = "start" /\ info_size = 0 /\ file_size = 0 /\ loaded = FALSE /\ ret = "none"

Next ==
    \/ GetLoadedImage \/ GetFileSystem \/ OpenVolume \/ OpenKernel
    \/ QueryInfoSize \/ AllocateInfo \/ ReadInfo \/ AllocateKernel
    \/ ReadKernel \/ ExitBootServices \/ JumpToKernel \/ Terminating

Spec == Init /\ [][Next]_vars

(* --- properties ---------------------------------------------------------- *)

(* On a firmware that answers every call as the UEFI specification says   *)
(* and has no device or memory fault, UefiMain never returns: it reaches   *)
(* "Jumping to kernel..." (uefi_bootloader.c:159) with the whole kernel    *)
(* loaded.  Only a firmware fault may make it give up.                     *)
BootsUnlessFirmwareFails ==
    /\ pc = "done" => Faulty
    /\ pc = "kernel" => loaded \/ Faulty
==============================================================================
