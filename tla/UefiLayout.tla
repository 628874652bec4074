------------------------------ MODULE UefiLayout ------------------------------
(***************************************************************************)
(* Where the FoxOS loaders' struct declarations put the members they call  *)
(* through, against where the UEFI specification puts them.  Each of the  *)
(* four loaders declares its own EFI_SYSTEM_TABLE, EFI_BOOT_SERVICES,      *)
(* EFI_FILE_PROTOCOL ..., most with members left out or replaced by        *)
(* padding; a call through a member at the wrong offset reaches another    *)
(* service of the firmware's table.                                        *)
(*                                                                         *)
(* The offsets are computed by the x86-64 C layout rules (each member at   *)
(* the next multiple of its alignment; a struct aligned as its most        *)
(* aligned member and padded to a multiple of it); the specification's     *)
(* offsets are the reference, written out as numbers.                      *)
(***************************************************************************)
EXTENDS Integers, Sequences, FiniteSetsExt, TLC

VARIABLE site

(* --- C types and the layout rules --------------------------------------- *)

Ptr == [size |-> 8, align |-> 8]        \* any pointer, EFI_HANDLE
U64 == [size |-> 8, align |-> 8]
U32 == [size |-> 4, align |-> 4]
Chars(n) == [size |-> n, align |-> 1]   \* char[n]
U64s(n) == [size |-> 8 * n, align |-> 8] \* uint64_t[n]

M(name, t) == [name |-> name, size |-> t.size, align |-> t.align]

AlignUp(o, a) == ((o + a - 1) \div a) * a

RECURSIVE EndOf(_, _)
EndOf(ms, o) ==
    IF ms = <<>> THEN o ELSE EndOf(Tail(ms), AlignUp(o, Head(ms).align) + Head(ms).size)

\* A struct of the members ms, as a member type.
Struct(ms) ==
    LET a == Max({ms[i].align : i \in DOMAIN ms})
    IN [size |-> AlignUp(EndOf(ms, 0), a), align |-> a]

\* The offset of each member of ms, the first placed at o.
RECURSIVE Place(_, _)
Place(ms, o) ==
    IF ms = <<>> THEN <<>>
    ELSE LET at == AlignUp(o, Head(ms).align)
         IN (Head(ms).name :> at) @@ Place(Tail(ms), at + Head(ms).size)

OffsetOf(ms, name) == Place(ms, 0)[name]

\* EFI_TABLE_HEADER, the same in every file that declares it
\* (Uefi.h:36-42, foxos_uefi.c:21-27).
EFI_TABLE_HEADER ==
    Struct(<<M("Signature", U64), M("Revision", U32), M("HeaderSize", U32),
             M("CRC32", U32), M("Reserved", U32)>>)

(* --- the declarations of src/src/uefi_bootloader.c ----------------------- *)

bl_EFI_SIMPLE_TEXT_OUTPUT_PROTOCOL == <<M("Reset", Ptr), M("OutputString", Ptr), M("TestString", Ptr)>>
bl_EFI_LOADED_IMAGE_PROTOCOL == <<M("Revision", U64), M("ParentHandle", Ptr)>>
bl_EFI_SIMPLE_FILE_SYSTEM_PROTOCOL == <<M("Revision", U64), M("OpenVolume", Ptr)>>
bl_EFI_FILE_PROTOCOL ==
    <<M("Revision", U64), M("Open", Ptr), M("Close", Ptr), M("Read", Ptr), M("GetInfo", Ptr)>>
bl_EFI_SYSTEM_TABLE == <<M("_pad", Chars(52)), M("ConOut", Ptr), M("BootServices", Ptr)>>
bl_EFI_BOOT_SERVICES == <<M("HandleProtocol", Ptr), M("AllocatePages", Ptr), M("ExitBootServices", Ptr)>>
\* :132 reads FileSize as the UINT64 at file_info + 32.
bl_EFI_FILE_INFO == <<M("_skipped", Chars(32)), M("FileSize", U64)>>

(* --- the declarations of src/Uefi.h (used by src/uefi_loader.c) ---------- *)

uh_EFI_SIMPLE_TEXT_OUTPUT_PROTOCOL == <<M("Reset", Ptr), M("OutputString", Ptr)>>
uh_EFI_SYSTEM_TABLE ==
    <<M("Hdr", EFI_TABLE_HEADER), M("FirmwareVendor", Ptr), M("FirmwareRevision", U32),
      M("ConsoleInHandle", Ptr), M("ConIn", Ptr), M("ConsoleOutHandle", Ptr), M("ConOut", Ptr),
      M("StandardErrorHandle", Ptr), M("StdErr", Ptr), M("RuntimeServices", Ptr),
      M("BootServices", Ptr)>>
uh_EFI_BOOT_SERVICES ==
    <<M("Hdr", EFI_TABLE_HEADER), M("AllocatePool", Ptr), M("FreePool", Ptr), M("HandleProtocol", Ptr)>>
uh_EFI_LOADED_IMAGE_PROTOCOL ==
    <<M("Revision", U32), M("ParentHandle", Ptr), M("SystemTable", Ptr), M("DeviceHandle", Ptr),
      M("FilePath", Ptr), M("Reserved", Ptr), M("LoadOptionsSize", U32), M("LoadOptions", Ptr)>>
uh_EFI_FILE_PROTOCOL ==
    <<M("Revision", U64), M("Open", Ptr), M("Close", Ptr), M("Read", Ptr),
      M("SetPosition", Ptr), M("GetPosition", Ptr)>>
uh_EFI_SIMPLE_FILE_SYSTEM_PROTOCOL == <<M("Revision", U64), M("OpenVolume", Ptr)>>

(* --- the declarations of src/foxos_uefi.c -------------------------------- *)

fx_EFI_SIMPLE_TEXT_OUTPUT_PROTOCOL == <<M("Reset", Ptr), M("OutputString", Ptr)>>
fx_EFI_SYSTEM_TABLE ==
    <<M("Hdr", EFI_TABLE_HEADER), M("FirmwareVendor", Ptr), M("FirmwareRevision", U32),
      M("ConsoleInHandle", Ptr), M("ConIn", Ptr), M("ConsoleOutHandle", Ptr), M("ConOut", Ptr),
      M("StandardErrorHandle", Ptr), M("StdErr", Ptr), M("RuntimeServices", Ptr),
      M("BootServices", Ptr)>>
fx_EFI_BOOT_SERVICES ==
    <<M("Hdr", EFI_TABLE_HEADER), M("_pad_before_allocate_pool", U64s(5)), M("AllocatePool", Ptr),
      M("_pad_before_locate_protocol", U64s(10)), M("LocateProtocol", Ptr)>>
fx_EFI_SIMPLE_FILE_SYSTEM_PROTOCOL == <<M("Revision", U64), M("OpenVolume", Ptr)>>
fx_EFI_FILE_PROTOCOL ==
    <<M("Revision", U64), M("Open", Ptr), M("Close", Ptr), M("Read", Ptr), M("GetInfo", Ptr)>>

(* --- the declarations of src/src/uefitest.c ------------------------------ *)

ut_EFI_SIMPLE_TEXT_OUTPUT_PROTOCOL == <<M("Reset", Ptr), M("OutputString", Ptr), M("TestString", Ptr)>>
ut_EFI_SYSTEM_TABLE == <<M("_pad", Chars(60)), M("ConOut", Ptr)>>

(* --- the members each loader calls through ------------------------------- *)

Use(file, table, member, decl) == [file |-> file, table |-> table, member |-> member, decl |-> decl]

BootloaderUses ==
    { Use("uefi_bootloader.c", "EFI_SYSTEM_TABLE", m, bl_EFI_SYSTEM_TABLE) : m \in {"ConOut", "BootServices"} }
    \cup { Use("uefi_bootloader.c", "EFI_SIMPLE_TEXT_OUTPUT_PROTOCOL", "OutputString", bl_EFI_SIMPLE_TEXT_OUTPUT_PROTOCOL),
           Use("uefi_bootloader.c", "EFI_LOADED_IMAGE_PROTOCOL", "ParentHandle", bl_EFI_LOADED_IMAGE_PROTOCOL),
           Use("uefi_bootloader.c", "EFI_SIMPLE_FILE_SYSTEM_PROTOCOL", "OpenVolume", bl_EFI_SIMPLE_FILE_SYSTEM_PROTOCOL),
           Use("uefi_bootloader.c", "EFI_FILE_INFO", "FileSize", bl_EFI_FILE_INFO) }
    \cup { Use("uefi_bootloader.c", "EFI_BOOT_SERVICES", m, bl_EFI_BOOT_SERVICES)
             : m \in {"HandleProtocol", "AllocatePages", "ExitBootServices"} }
    \cup { Use("uefi_bootloader.c", "EFI_FILE_PROTOCOL", m, bl_EFI_FILE_PROTOCOL) : m \in {"Open", "Read", "GetInfo"} }

LoaderUses ==
    { Use("uefi_loader.c", "EFI_SYSTEM_TABLE", m, uh_EFI_SYSTEM_TABLE) : m \in {"ConOut", "BootServices"} }
    \cup { Use("uefi_loader.c", "EFI_SIMPLE_TEXT_OUTPUT_PROTOCOL", "OutputString", uh_EFI_SIMPLE_TEXT_OUTPUT_PROTOCOL),
           Use("uefi_loader.c", "EFI_LOADED_IMAGE_PROTOCOL", "DeviceHandle", uh_EFI_LOADED_IMAGE_PROTOCOL),
           Use("uefi_loader.c", "EFI_SIMPLE_FILE_SYSTEM_PROTOCOL", "OpenVolume", uh_EFI_SIMPLE_FILE_SYSTEM_PROTOCOL) }
    \cup { Use("uefi_loader.c", "EFI_BOOT_SERVICES", m, uh_EFI_BOOT_SERVICES)
             : m \in {"HandleProtocol", "AllocatePool", "FreePool"} }
    \cup { Use("uefi_loader.c", "EFI_FILE_PROTOCOL", m, uh_EFI_FILE_PROTOCOL)
             : m \in {"Open", "Close", "Read", "SetPosition", "GetPosition"} }

FoxosUses ==
    { Use("foxos_uefi.c", "EFI_SYSTEM_TABLE", m, fx_EFI_SYSTEM_TABLE) : m \in {"ConOut", "BootServices"} }
    \cup { Use("foxos_uefi.c", "EFI_SIMPLE_TEXT_OUTPUT_PROTOCOL", "OutputString", fx_EFI_SIMPLE_TEXT_OUTPUT_PROTOCOL),
           Use("foxos_uefi.c", "EFI_SIMPLE_FILE_SYSTEM_PROTOCOL", "OpenVolume", fx_EFI_SIMPLE_FILE_SYSTEM_PROTOCOL) }
    \cup { Use("foxos_uefi.c", "EFI_BOOT_SERVICES", m, fx_EFI_BOOT_SERVICES) : m \in {"LocateProtocol", "AllocatePool"} }
    \cup { Use("foxos_uefi.c", "EFI_FILE_PROTOCOL", m, fx_EFI_FILE_PROTOCOL) : m \in {"Open", "Read", "GetInfo"} }

UefitestUses ==
    { Use("uefitest.c", "EFI_SYSTEM_TABLE", "ConOut", ut_EFI_SYSTEM_TABLE),
      Use("uefitest.c", "EFI_SIMPLE_TEXT_OUTPUT_PROTOCOL", "OutputString", ut_EFI_SIMPLE_TEXT_OUTPUT_PROTOCOL) }

Uses == BootloaderUses \cup LoaderUses \cup FoxosUses \cup UefitestUses

(* --- the reference: offsets in the UEFI specification (2.x, x86-64) ------ *)

SpecOffset ==
    [ EFI_SYSTEM_TABLE |-> [ConOut |-> 64, BootServices |-> 96],
      EFI_SIMPLE_TEXT_OUTPUT_PROTOCOL |-> [OutputString |-> 8],
      EFI_LOADED_IMAGE_PROTOCOL |-> [ParentHandle |-> 8, DeviceHandle |-> 24],
      EFI_SIMPLE_FILE_SYSTEM_PROTOCOL |-> [OpenVolume |-> 8],
      EFI_BOOT_SERVICES |->
        [AllocatePages |-> 40, AllocatePool |-> 64, FreePool |-> 72, HandleProtocol |-> 152,
         ExitBootServices |-> 232, LocateProtocol |-> 320],
      EFI_FILE_PROTOCOL |->
        [Open |-> 8, Close |-> 16, Read |-> 32, GetPosition |-> 48, SetPosition |-> 56, GetInfo |-> 64],
      EFI_FILE_INFO |-> [FileSize |-> 8] ]

\* One member use at a time is looked at; the state is that use.
Init == site \in Uses
Next == UNCHANGED site
Spec == Init /\ [][Next]_site

(* Every member a loader reads or calls through is at the offset the       *)
(* specification gives it, so that SystemTable->BootServices->AllocatePool *)
(* and the like reach the service they name (the struct declarations of    *)
(* the four loaders, used at their call sites).                            *)
MembersAtSpecOffsets == OffsetOf(site.decl, site.member) = SpecOffset[site.table][site.member]
==============================================================================
