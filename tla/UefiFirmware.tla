----------------------------- MODULE UefiFirmware -----------------------------
(***************************************************************************)
(* The UEFI firmware the FoxOS loaders run on: the environment of their    *)
(* UefiMain, described by what the UEFI specification says its services   *)
(* do.  Nothing here is FoxOS code.                                        *)
(*                                                                         *)
(*   - Handles carry protocols.  The loaded image's handle carries         *)
(*     LoadedImage; the device it was loaded from carries                  *)
(*     SimpleFileSystem; the image that started it (its ParentHandle, the  *)
(*     boot manager) carries LoadedImage only.                             *)
(*   - A file path is the list of names between '\' separators             *)
(*     (EFI_FILE_PROTOCOL.Open); '/' is not a separator.                   *)
(*   - Every allocation and free changes the memory map and so its key;    *)
(*     ExitBootServices succeeds only with the current key.                *)
(*   - When Faulty, a call that touches the device may fail with           *)
(*     DEVICE_ERROR and an allocation with OUT_OF_RESOURCES.               *)
(*                                                                         *)
(* Statuses are names: "SUCCESS" is EFI_SUCCESS (0), every other is        *)
(* nonzero.                                                                *)
(***************************************************************************)
EXTENDS Integers, Sequences, SequencesExt

CONSTANTS
    Faulty,          \* whether device and allocation faults happen
    KERNEL_SIZE,     \* size of kernel.bin, in units of the model
    INFO_SIZE,       \* size of its EFI_FILE_INFO
    INIT_KEY         \* memory-map key when the image starts

VARIABLES
    open,            \* file handles open: subset of {"root", "kernel"}
    allocated,       \* buffers allocated by the image
    mapKey,          \* the memory map's current key
    boot_services,   \* "active" or "exited"
    pos              \* position of the kernel file handle

fw_vars == <<open, allocated, mapKey, boot_services, pos>>

Protocols == [h \in {"image", "device", "parent"} |->
                 IF h = "device" THEN {"SimpleFileSystem"} ELSE {"LoadedImage"}]

LoadedImageOf == [ParentHandle |-> "parent", DeviceHandle |-> "device"]

\* The path of the kernel on the boot volume, as Open resolves it.
KernelFile == <<"EFI", "FOXOS", "kernel.bin">>

\* Open's view of a path given as the characters between separators: a
\* leading '\' names the root, which is where Open is called anyway.
Resolve(p) == IF p # <<>> /\ Head(p) = "" THEN Tail(p) ELSE p

Device(ok) == IF Faulty THEN {ok, "DEVICE_ERROR"} ELSE {ok}
Alloc == IF Faulty THEN {"SUCCESS", "OUT_OF_RESOURCES"} ELSE {"SUCCESS"}

\* The GUIDs of the specification, as <<Data1 (high, low 16 bits), Data2, Data3>>; Data4 is the
\* same in FoxOS's GUIDs as here and is left out.
SpecGuid == [LoadedImage      |-> <<23323, 12705, 38242, 4562>>,  \* 0x5B1B_31A1, 0x9562, 0x11D2
             SimpleFileSystem |-> <<38478, 23330, 25689, 4562>>,  \* 0x964E_5B22, 0x6459, 0x11D2
             FileInfo         |-> <<2391, 28306, 27967, 4562>>]  \* 0x0957_6E92, 0x6D3F, 0x11D2

\* HandleProtocol and LocateProtocol look a protocol up by its GUID.
Carries(h, g) == \E p \in Protocols[h] : SpecGuid[p] = g
HandleProtocol(h, g) == IF Carries(h, g) THEN "SUCCESS" ELSE "UNSUPPORTED"
LocateProtocol(g) == IF \E h \in DOMAIN Protocols : Carries(h, g) THEN "SUCCESS" ELSE "NOT_FOUND"
OpenResults(p) == Device(IF Resolve(p) = KernelFile THEN "SUCCESS" ELSE "NOT_FOUND")

\* The effect of a successful open, allocation, free or close.
Opened(h) == open' = open \cup {h}
Closed(hs) == open' = open \ hs
Allocated(b) == allocated' = allocated \cup {b} /\ mapKey' = mapKey + 1
Freed(b) == allocated' = allocated \ {b} /\ mapKey' = mapKey + 1

\* Read of n bytes at pos: what the call copies, and the new position.
ReadCount(n) == IF pos >= KERNEL_SIZE THEN 0 ELSE Min({n, KERNEL_SIZE - pos})

FirmwareInit ==
    /\ open = {} /\ allocated = {} /\ mapKey = INIT_KEY
    /\ boot_services = "active" /\ pos = 0
==============================================================================
