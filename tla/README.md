# TLA+ models of FoxOS

This directory holds TLA+ models of the FoxOS sources in `../src`. Each module
is translated from the C code. The `.cfg` files check the modules with TLC.
`PROJECT.json` lists the components, the runs, the mutants, the map from
definitions to source lines, the findings and the hazards.

## 1. Inventory

### Components

| Component | Source | State | Operations |
|---|---|---|---|
| NamespaceTable | `src/src/fs.c`, `fs.h` | `files[MAX_FILES]` (`name`, `type`, `size`, `parent_index`, `data`), `file_count` | `fs_init`, `fs_create_file`, `fs_mkdir`, `fs_create`, `fs_delete_file` (compacting), `fs_delete` (in-place clear, never called), `fs_write`, `fs_read`, `fs_list_dir`, `fs_save`/`fs_load` (empty stubs) |
| PathResolver | `src/src/fs.c` | none | `get_next_path_component`, `fs_parse_path`, `fs_get_file`, the last-slash split inside `fs_mkdir`/`fs_create` |
| Shell commands | `src/src/terminal.c` `execute_command` | `current_dir` and `full_path` (strings of `MAX_FILENAME * 2` bytes), the static colour of `color` | `ls`, `cd`, `mkdir`, `touch`, `rm`, and print-only commands (`help`, `clear`, `version`, `pwd`, `exit`, `test-*`) |
| Line editor | `src/src/terminal.c` `terminal_run` | `input_buffer`, `buffer_pos`, `cursor_pos`, `prompt_length` | insert a character, backspace, delete, left, right, enter (runs `execute_command`, then clears the buffer) |
| Console | `src/src/vga.c` | `cursor_x`, `cursor_y`, `vga_color`, the 80x25 text buffer | `vga_putchar` (newline, CR, tab, backspace, wrap, scroll), `vga_set_cursor`, `vga_clear`, formatters `vga_put_dec/hex/bin`, `vga_printf` |
| Keyboard | `src/src/keyboard.c` | `shift_pressed`, `last_scancode`, `key_held` | `keyboard_read`: one scancode in, one character (or 0) out |
| Kernel entry | `src/src/kernel.c` | none | `_start`: init VGA, fs and keyboard, `terminal_init`, then `terminal_run` forever |
| UEFI loaders | `src/src/uefi_bootloader.c`, `src/uefi_loader.c` with `src/Uefi.h`, `src/foxos_uefi.c`, `src/src/uefitest.c` | their own declarations of the firmware's tables; the handles, buffers and file position they hold | each `UefiMain`: a sequence of boot-service and file-protocol calls that loads `kernel.bin` (and, in two of them, jumps to it); `uefitest.c` only prints |
| Port I/O | `src/src/io.h` | none | `inb`/`outb`... |

### How the components interact

Everything runs on one thread with no interrupts. `_start` loops on
`terminal_run`. That function polls the keyboard through `keyboard_read`
and edits the line. It echoes the line through `vga_*`. On Enter it calls
`execute_command`. The file commands build an absolute path from
`current_dir` and the argument with `build_path`, then call the `fs_*`
functions. Those functions resolve paths with `fs_parse_path` over the
shared static table. `touch` does not go through `fs_create`: it splits
the path itself and calls `fs_create_file` directly.

Nothing runs concurrently, so the hard behaviours are sequences of calls:

- **Compaction.** `fs_delete_file` shifts the table and renumbers the
  `parent_index` fields. An error here needs a long, particular build-up
  of the table.
- **Two create paths.** `fs_mkdir` and `touch` split paths in different
  ways.
- **Boundaries.** The table capacity, the per-file size, the listing
  buffer, and paths with `//`, a trailing `/`, or `/` alone.
- **Stale strings.** `current_dir` is a string that a later `rm` can make
  stale.
- **Screen arithmetic.** The line editor and the console do row
  arithmetic on wrapped lines and on scrolling.
- **Key events.** Make and break codes from several keys can interleave.

The UEFI loaders are separate programs that the firmware starts before
the kernel. Each calls the firmware through tables it declares itself.
So two things can go wrong that no test on a PC would single out: a call
through a member at the wrong offset reaches another service, and a call
that fails leaves the loader on an error path, or on a path that ignores
the error.

### What makes each component correct

- NamespaceTable (spec.md 3, 4.2, 7, 8):
  - the root is slot 0, a directory that is its own parent;
  - every parent is an occupied directory;
  - sibling names are unique;
  - an operation fails exactly when its precondition is false, and then
    leaves the table unchanged;
  - compaction preserves the tree and the file contents;
  - writes are truncated to `MAX_FILE_SIZE`, and reads are clamped;
  - a listing returns every child;
  - creation fails exactly at capacity.

  All of this together is "implements AbstractNamespace".
- Shell: a relative argument names `current_dir`/argument; commands
  preserve the table's invariants; no command creates an unnamed entry;
  built paths fit their buffers.
- Line editor: `0 <= cursor_pos <= buffer_pos < TERMINAL_BUFFER_SIZE`;
  the buffer is the text typed, with edits applied at the cursor (a
  refinement to text-with-cursor); the screen cursor sits at the text
  cursor.
- Console: the cursor stays inside 80x25, and scrolling keeps the last
  row.
- Keyboard: a key is reported once per press; shift reflects the held
  shift keys.
- UEFI loaders: every table member called is at the UEFI specification's
  offset; every return releases what was acquired; success is returned
  only with the kernel loaded; the kernel is entered only when it is
  loaded and boot services have been exited.

## 2. Modules and how they map to the code

### `AbstractNamespace.tla`: what fs.c promises

`ns` maps each canonical path (a sequence of names, with the root as
`<<>>`) to `[type, data]`. `op`, `ret` and `buf` record what the last call
returned. Every operation is atomic. It fails with `-1`, leaving `ns`
unchanged, exactly when its precondition (spec.md 4.2, 7) is false.
Paths come in as raw segment sequences and are canonicalised by dropping
empty segments.

### `FsTable.tla`: fs.c

- **State.** `files` is a function on `0..file_count-1`: the occupied
  slots, with `data` standing for the first `size` bytes. The bytes past
  `size`, and the stale copies past `file_count` that compaction leaves
  behind, are left out. No operation reads them: `fs_read` clamps to
  `size`, and every index comes from `fs_parse_path`.
- **Paths.** A path string is represented by its `/`-separated segments,
  so `"/a//b/"` is `<<"", "a", "", "b", "">>`. This is a bijection with
  the strings over the names. Callers always pass absolute paths:
  `build_path` prefixes `current_dir`, which starts with `/`. So the
  no-slash branch of `fs_mkdir` (where `last_slash = path` drops the
  first character) is never reached.
- **Actions.** Each `fs_*` function is an action, and `Next` offers all
  of them over small input sets. The compaction loop is `Compact`, a
  RECURSIVE operator that applies `ShiftDown` once per pass of the outer
  loop. `ShiftDown` copies slot `i+1` into slot `i`, then decrements every
  `parent_index > i` in the table, exactly as lines 233-241 do.
  `fs_list_dir` is `ListFrom`, which keeps the characters used, so the
  `remaining < MAX_FILENAME + 3` stop is modelled with name lengths
  (`NameLen`). With the shell's buffer of `MAX_FILES * (MAX_FILENAME +
  2)` bytes, that stop can never fire, in the model or at the real
  sizes, so no property is about it.
- **Refinement.** The refinement mapping rebuilds `ns` from the
  parent-index chains (`PathOf`). It maps a created entry's index to 0
  and a listing to the set of its items. `NamespaceRefinement` is
  `Abs!Spec`.

### `Shell.tla`: terminal.c file commands over FsTable

It adds `current_dir` and `BuildPath` (`build_path`). The commands `mkdir`,
`touch` (with its own split), `rm`, `cd` and `ls` are actions, with the
guards and outcomes of `execute_command`. Arguments are segment sequences
too, so `"a/"` is `<<"a", "">>` and `<<"">>` is no argument.

- **Path lengths.** `full_path_len` is the `strlen` of the `full_path`
  each command builds. `PathLen` counts a `/` before every segment but
  the first, plus the names' lengths (`NameLen`). `FullPathFits` asks
  that it fit, with its NUL, in `MAX_FILENAME * 2` bytes.
- **Argument length.** An argument is at most `MAX_ARG_LEN` characters,
  because the line it comes from holds `TERMINAL_BUFFER_SIZE - 1`
  characters, the command word included. At the real sizes that is 249.

### `FsTableWithClear.tla`: fs.c's second delete

It extends `FsTable` with `fs_delete` (fs.c:364-383), the in-place clear
that nothing calls. The slot keeps its place below `file_count`, with an
empty name, type `FILE_TYPE_NONE` and parent -1. Children are not checked
and no slot is renumbered. `NoOrphans` asks that every live entry's parent
be a live directory.

### `Formatters.tla`: vga_put_dec, vga_put_hex, vga_put_bin

- **Operators.** The digit loops are RECURSIVE operators, translated as
  written:
  - `DecLoop` is the `while (num > 0)` of `vga_put_dec`;
  - `DoWhileLoop` is the `do ... while` of hex and bin.
  `vga_put_dec` keeps its `INT64_MIN` special case and its negation.
- **Width.** TLC's integers are 32 bits, so the arithmetic is done at a
  width `W` with two's complement wrap (`WrapSigned`). `INT_MIN_TEXT` is
  the literal the code prints, at that width.
- **Reference.** `Reference` computes the digits from powers of the base.
  `FormatsMatchReference` compares the two for every argument.

### `Keyboard.tla`: keyboard.c

- **Decoder state.** `shift_pressed`, `last_scancode` and `key_held`.
  `keyboard_read(sc)` has one disjunct per branch of the C function:
  - shift make and shift break;
  - another break (`IsBreak`, the `& 0x80` test), which clears the repeat
    state when `ReleaseMatches`;
  - a make, which is suppressed as a repeat or decoded by `Decode`.

  `Decode` covers the arrow and Delete codes and the two scancode tables.
  The MC module restricts the tables to the modelled keys.
- **The hardware around it.**
  - `Press`, `Release` and `Repeat` (typematic repeat of the last key
    pressed while it is held) queue bytes in `kbq`.
  - `Poll` is one `keyboard_get_scancode`. `keyboard_wait` tests status
    bit 1, not bit 0, so a poll takes the next queued byte or re-reads
    the stale byte in `port`.
- **Fairness.** `Poll` is split into `PollFresh` (a queued byte reaches
  port 0x60 and is read) and `PollStale` (the old byte is read again).
  `FairSpec` adds weak fairness on `PollFresh` only. See section 3.
- **Properties.** `OnePerPress` compares `presses` (fresh makes read) with
  `reported` (characters returned). `ShiftReflectsHeld` compares
  `shift_pressed` with the keys whose last byte read was a make.
- **Not modelled.** The `0xE0` prefix of the arrow keys is not modelled.
  Its code `0xE0` is read as the break of key `0x60`, which is never the
  last key, so it only returns 0.

### `LineEditor.tla` and `TextWithCursor.tla`: terminal_run

- **State.** `input_buffer` is a function on `0..TERMINAL_BUFFER_SIZE-1`
  of character codes, with `buffer_pos` and `cursor_pos`.
- **Actions.** `terminal_run(c)` has one disjunct per case of the switch,
  plus `Ignored` (`c = 0`, a case whose guard is false, a control
  character with no case, a full line). The shift loops are written as
  function comprehensions over the same index ranges.
- **Recorded effects.**
  - `execute_command` is recorded as `executed`: the C string read from
    the buffer after the terminator is written at `buffer_pos`.
  - The screen call a handler ends with is recorded in `echo`.
- **Refinement.** `TextWithCursor` is the abstract line: `InsertAt` and
  `RemoveAt` at the cursor, a capacity of `TERMINAL_BUFFER_SIZE - 1`, and
  `Submit` handing the line over. `LineRefinement` maps `text` to the
  first `buffer_pos` cells.

### `Console.tla`: vga.c

- **State.** `cursor_x`, `cursor_y`, and `vga_buffer` over the
  `VGA_WIDTH * VGA_HEIGHT` cells indexed `y * VGA_WIDTH + x`. `stray`
  records a write outside those cells, which `vga_putchar` makes without
  a check.
- **Operators.** `vga_putchar`, `vga_scroll`, `vga_set_cursor`,
  `vga_write` (a `FoldLeft` of `vga_putchar`) and `vga_clear` are
  operators on a console value. A caller that makes many calls in one
  step composes them.
- **Not modelled.** The colour attribute and the port writes that move
  the hardware cursor.

### `CStrings.tla`: the string helpers of fs.c

- **Operators.** `strlen`, `strcmp`, `strncmp`, `strcpy`, `strcat` and
  `strncpy` (fs.c:11-59) are RECURSIVE operators over buffers of `L`
  bytes, translated loop by loop. A write past the end of `dest` is
  recorded in `over`, not performed.
- **Harness.** One step calls one helper on any two C strings that fit,
  and `Return` goes back to idle. `StringHelpersMatchReference` compares
  each result with the C standard's definition: lexicographic order of
  unsigned chars, concatenation, NUL padding.

### `Printf.tla`: vga_printf

- **Operator.** `Scan` is the `while (*format)` loop of vga.c:200-238,
  one pass per recursion, with the `ll` look-ahead (`AfterLL`) and the
  `switch` (`Conv`). It calls the `Formatters` operators through an
  INSTANCE. The arguments travel in `st.va`; `next` is the va_arg
  cursor. A scan that steps over the NUL sets `over` and stops.
- **Harness.** A call prints a format built from `Tokens` (literals,
  every conversion, `%%`, `%ll`, an unknown `%a`) and a `Tail`, with one
  argument of the right kind per conversion. A `char*` argument is a
  pointer, an index into the constant `Strings`, so every argument is a
  number, as it is in the va_list.

### `Commands.tla`: execute_command's dispatch

- **Dispatch.** `Dispatch` is the if/else-if chain of terminal.c:122-316
  in its order: `strcmp` of the whole line against help, clear, exit,
  test-formatting, test-colors, version, color, pwd, then `strncmp` over
  the name's length for ls, cd, mkdir, touch, rm. It uses the CStrings
  operators on the NUL-padded `input_buffer`. `ParseArg1` is
  `parse_args`.
- **Effects.** `color` steps the static colour counter mod 16. `exit`
  either powers off (`halted`) or, where the ACPI write does nothing,
  faults on `int $0x15` in long mode and resets the machine, which
  re-initialises the counter. The other commands' effects are in Shell
  and Console.

### `EditorConsole.tla`: terminal_run on the console, the loop of `_start`

- **Step.** A step is `terminal_run(c)`, then the screen effect named by
  `echo'`:
  - `update_cursor_position` and `redraw_input_line`, translated
    line by line;
  - on Enter, the newline, the "Unknown command" message (its text
    abstracted to `MSG`) and the new prompt.
- **Init.** The prompt is printed on any row. It is row 0 after `clear`,
  and below the banner or a command's output otherwise.

### `UefiFirmware.tla`: the firmware the loaders run on

This module is not FoxOS code. It is the environment of the loaders,
written from the UEFI specification:
- `Protocols` lists the protocols each handle carries. The image's
  handle has LoadedImage, and the device it was loaded from has
  SimpleFileSystem. Its parent, the boot manager, has LoadedImage only.
- `HandleProtocol` and `LocateProtocol` look a protocol up by GUID
  (`SpecGuid`). GUIDs are `<<Data1 high, Data1 low, Data2, Data3>>`,
  because TLC's integers have 32 bits.
- `OpenResults` resolves a path split at `'\'`.
- `ReadCount` reads from the file position `pos`.
- Allocation and free change `mapKey`.
- When `Faulty` is TRUE, any device call may answer `DEVICE_ERROR` and
  any allocation `OUT_OF_RESOURCES`.

### `UefiLoader.tla`, `UefiBootloader.tla`, `FoxosUefi.tla`: the three `UefiMain`s

- **State.** Each `UefiMain` is a `pc` state machine with the locals
  that matter (`fileSize`, `readSize`, `loaded`, the status returned
  `ret`). The firmware's variables record what is open and allocated.
- **Actions.** There is one action per stretch of code between two
  tested statuses. An action takes the firmware's answers with `\E`,
  and the error path that follows, with its `Close` and `FreePool`
  calls, is part of the same action.
  - Unchecked calls are one action with all their outcomes: uefi_loader.c:61-64
    and foxos_uefi.c:127-131.
  - An uninitialised `UINT64` (`fileSize` after a failed GetPosition,
    `file_size` before foxos's GetInfo) takes any value of `Sizes`:
    below, equal to, or above the file's size.
  - uefi_bootloader.c reads `file_size` at byte 32 of EFI_FILE_INFO, so
    its value is any of `CreateTimeValues`.
  - `Terminating` stutters once `UefiMain` has returned or the kernel
    runs.
- **Separation from the layout.** Each call is taken to reach the
  service its member names. Whether it does is `UefiLayout`'s question.

### `UefiLayout.tla`: the loaders' struct declarations

- **Layout rules.** `Place` lays out a member list by the x86-64 C
  rules: each member at the next multiple of its alignment, and nested
  structs (`Struct`) aligned and padded. It is RECURSIVE.
- **The code's declarations.** Every struct the loaders declare is a
  member list, prefixed by its file:
  - `bl_` for uefi_bootloader.c;
  - `uh_` for Uefi.h;
  - `fx_` for foxos_uefi.c;
  - `ut_` for uefitest.c.
- **Uses.** `*Uses` lists each member the code calls or reads.
- **Reference.** `SpecOffset` gives the specification's offsets as
  numbers.
- **The check.** The state is one use, and `MembersAtSpecOffsets`
  compares the computed offset with `SpecOffset`.

### `MC_Units.tla`: the units side by side

MC_Units checks the unit modules together: Formatters, CStrings, Printf,
LineEditor, Console, Keyboard and UefiLoader. Their variables are
disjoint, and nothing here calls across them.
- **When a unit steps.** A step of one unit is taken only while every
  other unit is at rest. The libraries are at rest between calls. Every
  other unit is at rest in its initial state.
- **State space.** The space is the sum of the units' spaces, not their
  product.
- **Fairness.** Once the keyboard has moved, it is the only unit that
  can step. So Keyboard's weak fairness on `PollFresh`, now conjoined
  with the rest condition, means what it means in `FairSpec`.

## 3. Runs

| Run | Config | Expect | Checks |
|---|---|---|---|
| `fs_table` | `MC_FsTable.cfg` | pass | `TypeOK`, `ParentIsDirectory`, `SiblingNamesUnique`, `NamespaceRefinement` |
| `fs_compaction` | `MC_FsTable_compaction.cfg` | violation | `ParentIsDirectory` with 6 slots |
| `shell` | `MC_Shell.cfg` | pass | `ShellTypeOK`: `current_dir` stays an absolute path string through every command |
| `shell_touch` | `MC_Shell_touch.cfg` | violation | `NoEmptyNames` |
| `shell_path` | `MC_Shell_path.cfg` | violation | `FullPathFits` |
| `shell_cwd` | `MC_Shell_cwd.cfg` | violation | `CurrentDirIsDirectory` |
| `commands_prefix` | `MC_Commands.cfg` | violation | `CommandIsFirstWord` |
| `units` | `MC_Units.cfg` | pass | keyboard: `KeyboardTypeOK`, `OnePerPress` (one character per press, whatever the repeats and stale reads), `EveryPressTyped` (every press sent is eventually typed); line editor: `EditorTypeOK`, `LineRefinement` (terminal_run implements `TextWithCursor`); console: `ConsoleTypeOK` (only printable characters are stored), `ConsoleStaysOnScreen`; uefi_loader.c: `ReturnReleasesResources`; libraries: `FormatsMatchReference` for every 8-bit argument, `StringHelpersMatchReference`, `PrintfMatchesReference` for every format of up to 4 tokens |
| `editor_console` | `MC_EditorConsole.cfg` | violation | `NoWriteOutsideScreen` |
| `uefi_layout` | `MC_UefiLayout.cfg` (module `UefiLayout`) | violation | `MembersAtSpecOffsets` |
| `loader_status` | `MC_UefiLoader.cfg` (module `UefiLoader`, `Faulty`) | violation | `SuccessOnlyWhenLoaded` |
| `bootloader_boot` | `MC_UefiBootloader.cfg` (module `UefiBootloader`, no faults) | violation | `BootsUnlessFirmwareFails` |

The `shell` run does not check the table's invariants again. Every shell
command reaches the table through `fs_create_file`, `fs_mkdir` or
`fs_delete_file`, each with its own guards. So only a bug in fs.c could
break those invariants, and `fs_table` already checks them. The one
thing the shell adds to the table, `touch`'s empty leaf, is
`shell_touch`'s finding.

`units` takes about a minute: 204,280 states, with the temporal
properties checked over all of them.

Four more configurations reproduce defects that are not among the runs
PROJECT.json lists; their hazards say so:
- `MC_Keyboard_shift.cfg` (with `MC_Keyboard.tla`) violates `ShiftReflectsHeld` (finding A);
- `MC_FsTableWithClear.cfg` violates `NoOrphans` (finding B);
- `MC_Printf_tail.cfg` (with `MC_Printf.tla`) violates `PrintfStaysInFormat` (finding C);
- `MC_FoxosUefi.cfg` (module `FoxosUefi`) violates `ReturnReleasesResources` (finding D).

**Bounds.**
- Names are `{"a","b"}`, each of length 2, with `MAX_FILENAME = 3`.
- Paths go up to three components deep (`MC_FsTable`), and include
  `"/"`, a trailing `/` and a doubled `/`.
- `MAX_FILE_SIZE = 1`, and the inputs include a 2-byte write, so
  truncation happens. Reads ask for 0 or 2 bytes, so both clamps happen.
- `MAX_FILES = 5` gives 4 entries besides the root. That is enough to:
  - fill the table;
  - delete below a directory with children, so renumbering happens for
    parents 1 and 2 slots above the deleted slot;
  - nest 3 deep.

The run takes about 2.5 minutes. `MAX_FILES = 6` is the smallest table in
which a parent sits 3 slots above the deleted one. `fs_compaction` shows
that this is exactly where compaction goes wrong. So the passing
`fs_table` run says: for tables of up to 5 entries, fs.c implements the
abstract namespace, compaction included. The violation run shows that
this stops at 6.

- **Keyboard.** There are two character keys (`a` and Left) and both
  shift keys, each pressed at most twice. The keyboard queue holds 2
  bytes, so a byte can wait behind another, and stale re-reads happen
  after every byte. That is 85,776 states.
- **Line editor.** The buffer has 5 cells: 4 characters plus the
  terminator, so the full-line guard is reached. There are 2 letters, so
  a wrong shift changes the text. The inputs include every control
  character with a case, plus 0 and Ctrl-A, which are ignored.
- **Console.** The screen is 4 x 2. From every column a tab reaches the
  wrap, and the second row makes the scroll happen.
- **Editor on console.** The screen is 4 x 3 with a 2-character prompt.
  The line reaches a row boundary after 2 characters, the same
  arithmetic as 7 + 73 = 80 on the real screen.
- **Formatters.** `W = 8` gives all 256 values of each formatter,
  including 0, -1, 127 and the most negative value, -128.
- **Shell paths.** `MAX_FILENAME = 4` makes `full_path` 8 bytes, and
  arguments are at most 3 characters. So a path two names deep fits and
  one three deep does not. That is the proportion at the real sizes:
  `"/" + 249 + "/" + 249` fits in 512 bytes, and a third level does not.
  The passing `shell` run keeps `MAX_ARG_LEN = 5`, so every argument in
  its set can be typed.
- **String helpers.** Buffers of 3 bytes (strings of up to 2 chars)
  over the bytes 0, 'a', 'b' and 200, so an unsigned-vs-signed compare
  would order them differently (no caller depends on the order: every
  call site only tests `== 0`), a string can be a proper prefix of
  another, and strcat can fit or overflow. `n` runs over 0..3, from
  nothing compared up to past the NUL.
- **printf.** Formats of up to 4 of the 11 tokens, with the arguments
  0, 42, -128 for `%d`, 0 and 255 for `%x`, and so on, at `W = 8`.
  `MC_Printf_tail.cfg` has one token followed by `%` or `%ll`.
- **UEFI loaders.** The kernel is 2 units long, the file information 1
  unit, and an uninitialised size is any of 0..3. So a read can come up
  short, exact or long. In `units` and `loader_status` the firmware is
  `Faulty`, so every call that can fail does, at every step. In
  `bootloader_boot` and `MC_FoxosUefi.cfg` it is not, which shows that
  those loaders fail on a firmware that works. `INIT_KEY = 1` is a key
  the firmware could hand out; the only condition is that it is not 0.
- **Commands.** Ten lines: each exact command and each prefix command
  with and without an argument, and the prefix names with an extra
  letter. The buffer is 16 bytes, longer than every name.

**Findings of the violation runs.**
1. **Compaction bug (`src/src/fs.c:237`).** `fs_delete_file` decrements
   `parent_index` on every pass of the shift loop, not once. Take this
   sequence:

   ```
   mkdir /b, mkdir /a, create /a/a, mkdir /a/b, mkdir /a/b/a, rm /b
   ```

   Afterwards `/a/b/a` hangs under the file `/a/a`. I reproduced this by
   compiling `fs.c` with a small driver: `fs_parse_path("/a/b/a")`
   returns -1 and `fs_parse_path("/a/a/a")` returns 4.
2. **Unnamed entries (`src/src/terminal.c:294`).** `touch a/` creates an
   entry with an empty name. spec.md 4.1 calls this `InvalidName`. No path
   can name the entry, so it cannot be removed, and neither can its
   directory.
3. **Echo above the screen (`src/src/terminal.c:54`).**
   `redraw_input_line` subtracts `(prompt_length + buffer_pos) /
   VGA_WIDTH` rows, using `buffer_pos` after the insert but the cursor
   row from before it. When a character makes the line reach the end of
   a row, it redraws one row too high. Mid-screen, that overwrites the
   previous line. With the prompt on row 0 (after `clear`), the row is
   -1, and `vga_putchar` writes below `0xB8000`. I reproduced this by
   building `terminal.c` and `vga.c` with a buffer in place of video
   memory: the 73rd character writes 73 cells before the buffer, and the
   cursor ends at (0,0).
4. **`full_path` overflow (`src/src/terminal.c:104`).** `build_path`
   `strcat`s onto `full_path[MAX_FILENAME * 2]` without a length check.
   The model overflows it in 3 commands: `mkdir aa`, `cd aa/`, `mkdir
   aa/`. `cd` keeps the trailing `/`, so the path built is `/aa//aa/`.
   I reproduced this at the real sizes by building `terminal.c` and
   `fs.c` for the host under AddressSanitizer. Three levels of `mkdir`
   and `cd` with 249-character names give a stack-buffer-overflow write
   in `strcat`, called from `build_path`.
5. **rm of the current directory (`src/src/terminal.c:256`).** `cd`
   checks that its target is a directory, but `mkdir a`, `cd a`,
   `rm /a` leaves `current_dir` naming nothing. A later `mkdir` or
   `touch` of that name makes it name the new entry, a file included.
   spec.md leaves the current directory to the shell.
6. **Prefix dispatch (`src/src/terminal.c:230`).** `ls`, `cd`, `mkdir`,
   `touch` and `rm` are matched with `strncmp` over the name's length.
   So `lsx` lists and `rmx a` removes `a`. `help` lists commands as
   words, and the other commands are matched on the whole line.

7. **Loader tables at the wrong offsets (`uefi_layout`).** The loaders
   declare the firmware's tables themselves, and 17 member uses land
   away from the UEFI specification's offsets:
   - **uefi_bootloader.c, system table.** `_pad[52]` puts `ConOut` at
     56 and `BootServices` at 64. The specification has 64 and 96.
   - **uefi_bootloader.c, boot services.** Its `EFI_BOOT_SERVICES`
     starts without `Hdr`.
   - **Uefi.h, boot services.** `AllocatePool`, `FreePool` and
     `HandleProtocol` fall on `RaiseTPL`, `RestoreTPL` and
     `AllocatePages`.
   - **File protocol, in all three declarations.** `Read` falls on
     `Delete`, and `GetInfo`, `SetPosition` and `GetPosition` fall on
     `Read` and `Write`.
   - **foxos_uefi.c.** Its comment calls `LocateProtocol` the 16th
     function, so it falls on `HandleProtocol`.
   - **uefitest.c.** `_pad[60]` is aligned up to 64 and is right.
8. **uefi_loader.c reports success without loading (`loader_status`).**
   The statuses of `SetPosition(end)`, `GetPosition` and
   `SetPosition(0)` (uefi_loader.c:62-64) are not tested.
   - If the first fails, the size read is 0. A 0-byte read matches it,
     and `UefiMain` prints "Kernel loaded successfully!" and returns
     `EFI_SUCCESS`.
   - If the last fails, `Read` returns 0 bytes with `EFI_SUCCESS`. The
     short-read branch then returns `status`, which is 0.
9. **uefi_bootloader.c never reaches the kernel (`bootloader_boot`).**
   - It asks `LoadedImage->ParentHandle` for the file system. That is
     the boot manager, not the boot device (`DeviceHandle`).
   - Its file-system GUID also has Data1 `0x0964e5b2` instead of
     `0x964e5b22`.
   - So `HandleProtocol` answers `UNSUPPORTED` on every firmware.
   - With both fixed, `ExitBootServices(ImageHandle, 0)` fails, because
     no `GetMemoryMap` gave it the map key.
   - And `file_size` is read at byte 32 of `EFI_FILE_INFO`, inside
     `CreateTime`.

**Defects reproduced by the configurations outside the runs.**
- A. **Shift released too early (`src/src/keyboard.c:65`).** One
   `shift_pressed` flag serves both shift keys. Hold both, release one,
   and shift is off while the other is still down.
- B. **`fs_delete` orphans children (`src/src/fs.c:374`).** Run
   `mkdir /a`, `mkdir /a/b`, then `fs_delete /a`. Afterwards `b` has
   `parent_index` 1, and slot 1 is cleared. spec.md 9 calls this
   in-place delete a bug to eliminate. Nothing calls it today.
- C. **printf reads past its format (`src/src/vga.c:237`).** After a `%`
   that ends the format, the default case prints `%` and the NUL, and
   the `format++` at the end of the pass steps over the NUL. The loop
   then reads past the string. A trailing `%ll` does the same through
   `format += 2`. Building `vga.c` for the host under AddressSanitizer,
   `vga_printf("a%")` on an exactly sized buffer gives a
   heap-buffer-overflow read at vga.c:200. No caller passes such a
   format today.
- D. **foxos_uefi.c opens `/EFI/FOXOS/kernel.bin` (`src/foxos_uefi.c:119`).**
   - `EFI_FILE_PROTOCOL.Open` separates names with `'\'`, so the open
     fails, and `UefiMain` returns with the root directory still open.
   - With the path fixed, the rest of the code makes things worse. The
     statuses of `GetInfo`, `AllocatePool` and `Read` are ignored.
     `GetInfo` with a NULL buffer only reports the size of the file
     information, so that many bytes are read. The code then jumps to
     the buffer with boot services active, and `EntersKernelLoaded`
     fails.

**Fairness.** The user gets none: they may stop typing at any time. The
keyboard hardware gets weak fairness on `PollFresh`. `_start` calls
`terminal_run` forever (kernel.c:44-46), each call polls port 0x60, and
a byte the controller has received is latched there in finite time. So a
queued byte that stays queued is eventually read. `PollStale` gets no
fairness: a re-read of the old byte may happen any number of times.
In `MC_Units` the fairness condition is that of `FairSpec`, conjoined
with the condition that the other units are at rest, which holds from
the keyboard's first step on. The UEFI loaders run to completion and
need no fairness: the properties checked of them are invariants.
Under this, `EveryPressTyped` says that every press of a character key
is eventually returned by `keyboard_read` as a character. The property
needs all of the decoder's repeat handling to be right, because a
suppressed press is never retried.

**Mutants.** Each property of a passing run is broken by a plausible bug
in the code it is about:
- `fs_write` without the clamp breaks `TypeOK`;
- compaction without renumbering breaks `ParentIsDirectory`;
- `fs_create_file` without the duplicate scan breaks `SiblingNamesUnique`;
- `fs_delete_file` without the non-empty check breaks `NamespaceRefinement`;
- `cd` storing the raw argument breaks `ShellTypeOK`;
- a break test that misses (`IsBreakIgnored`) breaks `TypeOK` of the
  keyboard;
- comparing the break code without `& 0x7F` breaks `OnePerPress`;
- a capacity check with no room for the terminator breaks `EditorTypeOK`;
- a delete shift starting one cell late breaks `LineRefinement`;
- `vga_putchar` without its tab case breaks `ConsoleTypeOK`;
- a wrap test of `>` instead of `>=` breaks `ConsoleStaysOnScreen`;
- `vga_put_dec` without the `INT64_MIN` case breaks
  `FormatsMatchReference`;
- `keyboard_wait` with its status test inverted, so a pending byte is
  never read (`PollFreshInvertedWait`), breaks `EveryPressTyped`;
- `strcmp` subtracting signed chars breaks `StringHelpersMatchReference`;
- skipping `ll` one character short breaks `PrintfMatchesReference`;
- uefi_loader.c leaving `Root` open when `Open` fails breaks
  `ReturnReleasesResources`.

All the unit mutants run under `MC_Units.cfg`, and each one is found
within 45 s.

## 4. Not modelled, and why

- `fs_save`/`fs_load` are empty stubs. The on-disk format exists only as
  a contract in spec.md 6.
- `io.h` is inline assembly for port I/O, and has no logic of its own.
- The firmware's own behaviour is not FoxOS code. `UefiFirmware` states
  what the specification promises, and goes no further: the memory map
  is its key only, and files are the kernel and nothing else.
- What a call through a wrong offset does is not modelled: the loader
  modules assume each call reaches the service it names. `uefi_layout`
  shows that this assumption fails, and where.
- The text the loaders print (`Print`, `OutputString`) is left out.
  `uefitest.c`'s `UefiMain` does nothing else, so only its struct
  declarations are modelled.
- The print-only shell commands change no modelled state.
- The colour attribute of the console cells and `vga_set_color` are
  left out. Commands keeps `color`'s counter, not the cells it colours.
- Within FsTable and Shell the string helpers are abstracted to equality
  and concatenation of names; CStrings checks that the helpers really do
  that. Lengths are kept only where a buffer can overflow: `full_path`
  in Shell, and the listing buffer in FsTable.
- `vga_printf` reads `%x` and `%b` arguments as `uint64_t`. Every caller
  passes a non-negative constant, so the value read is the one passed;
  the model gives each conversion an argument of its kind.

## 5. Plan for further work

In order of importance:

1. **Keyboard feeding the editor.** Compose `Keyboard` with `LineEditor`,
   so that stale reads and the shift bug show in the typed line.
2. **Editor on console beyond the top row.** Check an invariant that the
   screen rows of the input show the prompt and the buffer. It is
   expected to fail mid-screen, from the same row arithmetic.
3. **`current_dir` after `rm`.** `shell_cwd` shows it can go stale;
   model what `ls` and `cd ..`-free relative paths then do with it.
4. **The loaders on their real tables.** Give each loader call the
   service at the offset its declaration gives it (through `UefiLayout`),
   to see what the binaries really do.
