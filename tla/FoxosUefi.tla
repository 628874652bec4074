------------------------------- MODULE FoxosUefi -------------------------------
(***************************************************************************)
(* src/foxos_uefi.c: UefiMain locates the file system, opens               *)
(* /EFI/FOXOS/kernel.bin, reads it into a pool buffer and jumps to it.     *)
(* Only LocateProtocol, OpenVolume and Open have their status tested; the  *)
(* rest (foxos_uefi.c:127-137) runs whatever the firmware answers, so it   *)
(* is one action.  Over the UefiFirmware environment; the OutputString     *)
(* messages are left out, and each call is taken to reach the service its  *)
(* member names (see UefiLayout).                                          *)
(***************************************************************************)
EXTENDS UefiFirmware

VARIABLES pc, file_size, loaded, ret

fx_vars == <<pc, file_size, loaded, ret>>
vars == <<fx_vars, fw_vars>>

\* foxos_uefi.c:86-88, as <<Data1 (high, low 16 bits), Data2, Data3>>.
EFI_SIMPLE_FILE_SYSTEM_PROTOCOL_GUID == <<38478, 23330, 25689, 4562>>  \* 0x964E_5B22, 0x6459, 0x11D2

\* foxos_uefi.c:119: u"/EFI/FOXOS/kernel.bin" has no '\', so Open sees a
\* single name.
kernel_path == <<"/EFI/FOXOS/kernel.bin">>

\* What the uninitialised uint64_t file_size can hold (foxos_uefi.c:127).
Sizes == 0..KERNEL_SIZE + 1

Return(s) == pc' = "done" /\ ret' = s
Step(s, next) == IF s = "SUCCESS" THEN pc' = next /\ UNCHANGED ret ELSE Return(s)

\* foxos_uefi.c:106-107
LocateFileSystem ==
    /\ pc = "start"
    /\ Step(LocateProtocol(EFI_SIMPLE_FILE_SYSTEM_PROTOCOL_GUID), "volume")
    /\ UNCHANGED <<file_size, loaded, fw_vars>>

\* foxos_uefi.c:112-113
OpenVolume ==
    /\ pc = "volume"
    /\ \E s \in Device("SUCCESS") :
         Step(s, "open") /\ IF s = "SUCCESS" THEN Opened("root") ELSE UNCHANGED open
    /\ UNCHANGED <<file_size, loaded, allocated, mapKey, boot_services, pos>>

\* foxos_uefi.c:119-121: on failure root is left open.
OpenKernel ==
    /\ pc = "open"
    /\ \E s \in OpenResults(kernel_path) :
         Step(s, "load") /\ IF s = "SUCCESS" THEN Opened("kernel") ELSE UNCHANGED open
    /\ UNCHANGED <<file_size, loaded, allocated, mapKey, boot_services, pos>>

(* foxos_uefi.c:127-131: GetInfo with a NULL buffer only reports, through  *)
(* file_size, the size of the EFI_FILE_INFO (or fails and leaves it        *)
(* uninitialised); AllocatePool of that many bytes; Read of file_size     *)
(* bytes into the buffer.  No status is tested: a failed allocation leaves *)
(* kernel_buffer uninitialised, and the Read goes nowhere useful.          *)
LoadKernel ==
    /\ pc = "load"
    /\ \E gi \in Device("BUFFER_TOO_SMALL"), v \in Sizes, al \in Alloc, rd \in Device("SUCCESS") :
         LET sz == IF gi = "BUFFER_TOO_SMALL" THEN INFO_SIZE ELSE v
             n  == IF rd = "SUCCESS" THEN ReadCount(sz) ELSE 0
         IN /\ file_size' = n
            /\ pos' = pos + n
            /\ loaded' = (al = "SUCCESS" /\ rd = "SUCCESS" /\ pos = 0 /\ n = KERNEL_SIZE)
            /\ IF al = "SUCCESS" THEN Allocated("kernel_buffer") ELSE UNCHANGED <<allocated, mapKey>>
    /\ pc' = "jump"
    /\ UNCHANGED <<ret, open, boot_services>>

\* foxos_uefi.c:136-137: kernel_entry(), with boot services still running.
JumpToKernel ==
    /\ pc = "jump"
    /\ pc' = "kernel"
    /\ UNCHANGED <<file_size, loaded, ret, fw_vars>>

Terminating == pc \in {"done", "kernel"} /\ UNCHANGED vars

Init ==
    /\ FirmwareInit
    /\ pc = "start" /\ file_size = 0 /\ loaded = FALSE /\ ret = "none"

Next ==
    \/ LocateFileSystem \/ OpenVolume \/ OpenKernel \/ LoadKernel \/ JumpToKernel
    \/ Terminating

Spec == Init /\ [][Next]_vars

(* --- properties ---------------------------------------------------------- *)

(* When UefiMain returns to the firmware, no file it opened is left open   *)
(* (foxos_uefi.c:113-121 return on the first failure).                     *)
ReturnReleasesResources == pc = "done" => open = {}

(* UefiMain enters the kernel only with the whole of kernel.bin loaded and *)
(* boot services exited (foxos_uefi.c:136-137).                            *)
EntersKernelLoaded == pc = "kernel" => loaded /\ boot_services = "exited"
================================================================================
