# grub4dos: models, checks and proofs

TLA+ modules of the grub4dos loader (0.4.6a, `src/stage2`), the TLC runs that
check them on small instances, and theorems about them checked by TLAPS.  Line
numbers are those of the files under `src/`.

1. [The system](#1-the-system): components, state, operations, interactions
2. [What is hard](#2-what-is-hard)
3. [Modules](#3-modules): TrackCache and SectorStore, UsbEnumerate, UsbTransfer,
   PartitionWalk, FileRead and ByteFile, FileSystems, Heap, MenuFlow, DriveMap and
   DriveNames, BatchRun and BatchBlocks
4. [Runs](#4-runs): bounds, fairness, what each shows
5. [Disagreements found](#5-disagreements-found)
6. [Proofs](#6-proofs)
7. [Not modelled](#7-not-modelled)
8. [Plan](#8-plan)

## 1. The system

grub4dos is a single-threaded boot loader: one processor, no scheduler, the BIOS
(or its own USB driver) below, a menu and a command line above.  Almost all of
its state is in global variables, which is why its defects are seldom in one
function: they are in two functions, or two commands, that disagree about what a
global means.

| component | state | operations | correct when |
|---|---|---|---|
| raw sector I/O (`disk_io.c`, `bios.c`) | `buf_drive`, `buf_track`, `buf_geom`, 64 KB buffer, one scratch sector | `rawread` (read, write, list), `rawwrite`, `rawdisk_read`, `biosdisk`, `get_diskinfo` | a read returns what the drive holds, a write stores its bytes and no others, whatever was buffered |
| USB driver USB2DRI (`asm.S` 8010-10500) | device table (8 slots), drive table (4), `max_dev`, `usb_count`, `enum_retry`, `Cache`, error and stage bytes | `Initialization`, `Device_enumerate`, `Fill_device_structure`, `usb_probe`, `Drive_enumerate`; `Control_transfer`, `Bulk_transfer`, `SCSI_Command`, `Read_write_usb`; int13 functions | every stick plugged in becomes its drives, a drive is one LUN of one stick, the driver returns, a failed transfer is recovered or reported |
| partitions (`disk_io.c` 700-1100, `pc_slice.h`) | `current_drive`, `current_partition`, `part_start`, `part_length`, the walk's static cursor | `next_partition`, `next_pc_slice`, `next_gpt_slice`, `real_open_partition`, `devread` | every partition is visited once, with its extent; the walk ends; access stays within the partition |
| files (`disk_io.c` 1990-2407) | `filepos`, `filemax`, `blk_buf`, file system globals | `grub_open`, `grub_read`, `grub_seek`, `block_read_func` | a file is its bytes, in any order of seeks and reads |
| decompression (`gunzip.c`, `dec_*.c`) | window, Huffman state, second set of file globals | `gunzip_test_header`, `gunzip_read`, ... | the same, of the uncompressed content |
| heap (`common.c` 262-350) | descriptor list over the free memory | `grub_malloc`, `grub_free` | blocks are disjoint and cover the heap; freed memory is usable again |
| drive map (`builtins.c` map, `asm.S` int13) | `bios_drive_map`, `hooked_drive_map`, int13 vector | `map`, `map --hook`, `--unhook`, `--rehook` | a drive number means what the user mapped it to, before and after the boot |
| menu (`stage2.c`) | entries, `default_entry`, `fallback_entries`, `fallback_entryno`, timeout | `cmain`, `run_menu`, `run_script` | the right entry runs, fallbacks end |
| command lines and batch files (`cmdline.c`, `builtins.c`) | `errnum`, `prog_pid`, `p_bat_prog`, `brace_nesting`, `else_disabled`, the setlocal chain, history | `run_line`, `run_cmd_line`, `bat_run_script`, if, else, goto, call, exit, setlocal, endlocal; about 150 other builtins | a script runs the blocks, lines and commands it means to, and leaves its caller's variables alone |
| network (`fsys_pxe.c`, `fsys_ipxe.c`) | TFTP session, block number, UNDI state | open, read, seek by re-open, unload | a file over TFTP is its bytes |
| file systems (`fsys_*.c`) | superblock and inode buffers, the window of the FAT, the indirect blocks read last, the UDF entry | mount, dir, read | a file is found exactly if the volume has it, and reads give its bytes in any order of seeks |
| boot (`boot.c`), terminals (`char_io.c`, `console.c`, `graphics.c`, ...), `md5.c`, boot sectors and loaders (`*start.S`) | | | |

**Interactions.**  Commands and the menu open files; a file system reads through
`devread`, which adds `part_start` and calls `rawread` on `current_drive`;
`rawread` and `rawwrite` share the track buffer and go to `biosdisk`, which
executes int 13.  `map --hook` puts the loader's own int 13 handler below
`biosdisk`, and `usb --init` adds the USB driver's handler there; both change
what a drive number means while the buffer may describe it.  `buf_drive` is
cleared once at the start of every command line (`cmdline.c:363`), because "the
user may exchange removable disks" between two of them; commands that rewrite
or remap a disk clear `buf_track` themselves, in a dozen places.  Menu entries
and batch files run their lines through `run_line`; every builtin reports by
`errnum`, which the menu's fallback loop, the operators and the batch interpreter
each read in their own way.

## 2. What is hard

`PROJECT.json` lists each hazard at its line.  In short:

- *Stale state.*  One track buffer for all drives: after `rawwrite`, `map`,
  `geometry --tune`, a change of disk or a failed transfer, does it still hold
  what the drive holds?
- *Partial failure.*  Every BIOS call may fail after having moved part of its
  data; every USB transfer may fail at each of the ten or so steps of an
  enumeration, some with their status looked at and some without.
- *Numeric edges.*  Requests that start and end inside sectors, cross tracks and
  exceed the buffer; a 32-bit `buf_track` under 64-bit sectors; byte and 16-bit
  counters that wrap (`enum_retry`, the `loop` instruction's `cx`).
- *Persistent tables.*  The USB device table survives from one `usb --init` to
  the next; slot 0 is cleared for every root port.
- *Two accounts of one thing.*  The table of drive maps and the handler's copy
  of it; the menu's index into its fallback list and the list; the braces that
  the batch interpreter counts and those it searches the text for.
- *Something kept from the call before.*  The cluster a FAT read goes on from and
  the window it was found in; the indirect blocks that an ext2 read does not read
  again; buffers that a symbolic link, a directory and a file share.
- *Sequences.*  Seeks and reads in any order over a cursor and a window; maps,
  hooks and rehooks in any order; allocations and frees; scripts in scripts.
- *Termination.*  Loops over a device's answers, over partition chains, over
  fallback entries.

Nothing is concurrent in the loader itself and nothing is persisted except what
the user's commands write (the saved default entry among it, which outlives a
reset); the adversary is the hardware and the order of calls.

## 3. Modules

### TrackCache (`TrackCache.tla`): `rawread`, `rawwrite`, the track buffer

The content of a drive is a function from sectors to sectors of `SS` bytes; the
other data of the loader is not there.  `disk` and `geom` are the world,
`buf_drive`, `buf_track`, `buf_geom` and `buffer` the globals of `disk_io.c`;
`call`, `cursor`, `out`, `ok` are one call's arguments, local variables, result
bytes and returned value.

| action | code |
|---|---|
| `Call` | a command, a file system or `devread` calls `rawread` (read or write) or `rawwrite` |
| `SelectDrive`, `NoDisk` | "Reset geometry and invalidate track buffer if the disk is wrong", `get_diskinfo` |
| `SectorTooBig`, `Hit`, `LoadRest`, `LoadTrack`, `LoadRequired` | the four ways one turn of `while (byte_len > 0)` gets its sectors: not at all, from the buffer, the end of the track only, the whole track, and the smaller read after the whole track failed |
| `UseRead`, `WontFit`, `SkipWrite`, `UseWrite` | the same turn's use of them: move to the caller, compare, patch and write back |
| `SectorReadFails`, `SectorUnchanged`, `SectorWrite` | `rawwrite`: read into the scratch sector, compare, write, "Update the cache" |
| `ExchangeDisk`, `MapDrive`, `TuneGeometry`, `ForgetTrack` | `run_cmd_line`'s `buf_drive = -1`, `map --hook/--unhook`, `geometry --tune/--bios`, and the commands that clear `buf_track` before rewriting a disk |

`RawdiskRead` and `RawdiskWrite` are the BIOS: each may fail on any call, after
any prefix of the transfer.  The read includes `rawdisk_read`'s "BAD?" mark in
the last sector.  A sector that is itself marked on disk is left out of `Images`
(the loader then refuses it for ever, which is a failed call and not a wrong
one).

A virtual track is `VT` sectors on an LBA drive: 127 for 512-byte sectors, a
power of two otherwise; both are instances, since the code's `soff` is the
remainder in each case.  `Wrap` is 2^32 and `Int32` what an assignment to the
`int` `buf_track` leaves.

Two constants name behaviour that the code cannot rule out and that callers
mostly avoid: `LateErrors` (the BIOS reports an error for a write it did) and
`ChainedTune` (`geometry --tune` after another command in the same line).

**SectorStore** (`SectorStore.tla`) is what the callers believe: drives of
bytes, a read returns them, a write stores its bytes, a failed call may have
stored some of its own bytes and no others.  It has no buffer, no tracks and no
geometry.  `TrackCache!ImplementsStore` is `SectorStore`'s specification under
the mapping of the module's last section; it says that the buffer is invisible.

### UsbEnumerate (`UsbEnumerate.tla`): `usb --init`

`plug`, `addr` and `configured` are the world: what is plugged into which port,
the bus address each device answers to, which have a configuration.  Ports are
places `<<p, q>>`: root port `p`, port `q` of a hub there.  `slots`, `max_dev`,
`usb_count`, `drives`, `error`, `stage` and `enum_retry` are the driver's memory
cells (DevID and MaxLUN of `Dev`, DriID and DriLUN of the drive table,
`usb_count_error`, `usb_fail_stage`); `cache` is the part of `Cache` that the
driver reads whether or not the transfer into it succeeded.

| actions | code |
|---|---|
| `NoController`, `StartController` | `Initialization`, `Check_bus`, `host_initialization` |
| `EmptyPort`, `LowSpeedPort`, `ConnectedPort`, `Attempt`, `HandOff`, `PortsDone` | `Device_enumerate`: port status, companion hand-off, the retry loop with its clear of slot 0 |
| `TableFull`, `NoHead`, `NoDescriptor`, `NoConfiguration`, `Unsuitable`, `HubFound`, `StorageFound` | the exits of `Fill_device_structure`, each with what it leaves in the tables, on the bus and in `Cache` |
| `PassSlot`, `ProbeSlot`, `EmptyHubPort`, `ResetHubPort`, `HubPortStatus`, `HubDone` | `cl_jxq` and `usb_probe`: slots marked 0xff are hubs |
| `NoDevice`, `StartDrives`, `SkipSlot`, `AddDrive`, `UnitNotReady` | the end of `Initialization` and `Drive_enumerate` |

A transfer to an address that no device, or more than one, answers to may do
anything (`MayMiss`); otherwise it fails only if its step is in `Failing`.  The
driver looks at the status of some transfers and not of others, and the actions
follow it: SET_ADDRESS, SET_CONFIGURATION, Get_lun, Get_Hub and the hub's port
status go on with what `Cache` happens to hold.  The hub device 0 is asked at
`Stray`, the byte before the table that `Determine_device_address` reads for
DevID 0.  Left out: hubs behind hubs; interfaces and endpoints (a device is
suitable or not); TEST UNIT READY with its five attempts, INQUIRY, READ CAPACITY
and the choice of a drive number are one step; registers and qTDs.

### UsbTransfer (`UsbTransfer.tla`): reads and writes of a USB drive

The driver's side is `pc`, `req`, `mem` (the caller's buffer), `tries`, `sent`,
`htog` (the toggle of each pipe, bit 7 of `InProperty` and `OutProperty`), `csw`
(`csw_qq`) and the transfer at work, `xfer`; the device's side `dev` and `disk`.

| actions | code (`asm.S`) |
|---|---|
| `Read_write_usb` (by `Call`), `TryAgain` | the int 13 functions' common part: range check, three attempts |
| `SendCommand`, `CommandDone`, `NextChunk`, `ChunkDone`, `AskStatus`, `StatusDone`, `StatusFails` | `SCSI_Command`: command block, data in pieces of `One_transfer`, status and its second try |
| `ClearIn`, `ResetDevice`, `ResetIn`, `ResetOut` | CLEAR FEATURE after a stalled status, `Reset_Recovery` |
| `PacketOut`, `SectorIn`, `StatusIn`, `Unanswered` | one packet of `Bulk_transfer` against the device |
| `Slow`, `LostHandshake`, `MediumError`, `LateError`, `EmptyPacket` | faults |

The device is external: a bulk-only device that keeps the protocol.  A packet
carries a command block, a sector or a status, and `One_transfer` (0x4000 bytes)
is counted in sectors.  Left out: lost handshakes of packets from the device, the
EHCI registers and waits, CHS translation, the SCSI commands that the enumeration
sends itself.  Only a request's first sector is compared with the capacity
(`int13_02_03`); functions 42 and 43 compare nothing.

### PartitionWalk (`PartitionWalk.tla`): the partitions of a drive

`w[c]` is the cursor of a walk (its caller's variables), `pc[c]` where it is; the
two callers are `find`, which visits every partition, and `open`
(`real_open_partition`), which a command or the CONDITION of `find` starts in the
middle of `find`'s walk.  `gpt`, `gpt_max`, `primary` and `mbr` are the globals that
both share: what kind of table, the primary table, and the sector read last.

| actions | code (`disk_io.c`) |
|---|---|
| `NextPartition`: `BsdPartition`, `BsdOver`, `NotBsd` | `next_partition`, `next_bsd_partition` |
| `TooMany`, `MbrTurn` (`OverTable`) | one turn of `next_pc_slice` with its jump to `redo` |
| `GptFirst`, `GptAgain` (`NextGpt`), `GptAstray` | `is_gpt_part`, `next_gpt_slice` |
| `ReadFails`: `TableUnread`, `HeaderUnread`, `EntryUnread`, `LabelUnread` | the `rawread`s of the above that fail |
| `OpenPartition`, `OpenGot`, `OpenOver` | `real_open_partition` |
| `Find`, `FindPasses`, `FindLooks`, `FindOn`, `FindOver` | `find_func`'s loop |
| `Devread` | `devread` and its bound |

The reference (`Partitions`) is the set of a table's partitions, defined on the
chain of records without any walk: the k-th record is where k links lead.
`Cyclic` tables have a chain that comes back, `EmptyCycle` those of them without
a partition on the cycle.  A failed read of a table or of a GPT entry ends the walk,
one of a label may be ignored, and one of the GPT header leaves the walk to the
protective MBR as if the drive had no GPT: `Seen` is what a walk takes its drive for,
the drive or what its MBR alone says (`AsMbr`), and `Readings` are all of these.

What kind of table there is was said by the walk that made the last first call.  A
walk that `find` started inside its own may have said otherwise, of another drive or
after a failed read: then `find` reads on at the wrong place (`GptAstray`), and what
it finds there is any of `Stray`, which stands for entries of a GPT that no GPT has.
`Array` is where the entries are, as `entry` counts; it is one number for all drives
(`hdr_lba_table` is 2 on each) and one that `entry` may have in a table as well, so
that a cursor can be mistaken for one at the entries.  Left out: the shift of an emulated ISO,
`set_partition_hidden_flag`, the listing for completion.

### FileRead (`FileRead.tla`): block lists and gzip; ByteFile

`cur` is `blk_buf`, `gzip` and `inflate` the globals of `gunzip.c` (saved
position, block, code state, pending copy, window `slide`), `inbuf` and `bufloc`
its input; `call` and `io` are the calls of `grub_read` and `block_read_func` in
progress.  The actions are `Open`, `OpenFails`, `Test`, `TestDone` (`grub_open`,
`gunzip_test_header`), `Read`, `Chunk`, `ReadDone` (`grub_read`'s loop), `Seek`,
`BlockRead`, `BlockReturn` (`block_read_func`), and the decoder: `GunzipRead`
(restart or not), `NextWindow`, `Serve`, `ServeMore`, `GunzipReturn`, `Refill`
(`get_byte`), `Inflate`, `GetNewBlock`, `StoredByte`, `DecodeLiteral`,
`DecodeCopy`, `DecodeEnd`, `DecodePrefix`, `DecodeBad`, `DoCopy`, `WindowDone`.

A byte of a gzipped file is one symbol of it (a block's head, a literal, a copy,
an end, the trailer), so that input buffer and window have ends in the middle of
anything.  `WSIZE` and `INBUFSIZ` are equal, as in the code.  Left out: bit
packing, Huffman tables, the write direction, lzma, lz4 and VHD.  A caller is
taken to give up a compressed file after a failed read until it opens it again.

**ByteFile** is a file as its users see it: bytes and a position.
`ImplementsByteFile` says that lists, cursor, window and compression do not show.

### FileSystems (`FileSystems.tla`): FAT, exFAT, ext2-4, ISO 9660, UDF

A file system's functions are called one at a time and each runs to its end, so
each is an operator on a record `c`: the volume, the fault that strikes this call,
`filepos`, `filemax`, `errnum`, the buffers `buf` that stay from call to call
(`FSYS_BUF` and static variables), what has been read, the value returned.
`Device` is `devread` as they use it, `FatFs`, `Ext2Fs` and `IsoFs` the three
readers with their mount, dir and read; what they compute step by step is an
operator of its own.

| action | code |
|---|---|
| `Open` | `grub_open`: `attempt_mount` in the order of `fsys_table` (`AttemptMount`), `dir_func`, the look at the file's first bytes (`LookAtHeader`) |
| `Seek` | callers assign `filepos` |
| `Read` | `grub_read`, a caller that reads some bytes; with `Retry`, one that reads on after an error |

| reader | operators |
|---|---|
| `FatFs` (`fsys_fat.c`) | `FatMount` with `FatSuper` and `ExfatSuper`; `FatRead`: `FatRoot`, `FatContiguous`, `FatChain` (`Rewind`, `Along`, `Link`, `LoadFat`, `EntryAt`); `FatDir`: `FatComponents`, `NextEntries`, `LongName`, `ShortEntry`, `ExfatEntry` |
| `Ext2Fs` (`fsys_ext2fs.c`) | `Ext2Mount`; `Ext2BlockMap` (`SingleMap`, `DoubleMap`, `TripleMap`), `Ext4BlockMap` (`Closest`, `LeafOf`); `Ext2Read` (`Ext2Pieces`); `Ext2Dir` (`Walked`): `GetInode`, `Chase`, `LookUp`, `NextDirEntries` |
| `IsoFs` (`fsys_iso9660.c`) | `IsoMount`: `Scan`, `UdfMount` (`UdfStep`), `RockRidge`; `IsoDir`: `IsoComponent`, `LoadSector`, `NextRecord`, `RockItem`, `Match`; `IsoRead`: `IsoPiece`, `UdfPiece` |

A volume is given by what its sectors mean: `at` (cells), `fat` (digits), `block`
(ext2), `desc`, `dirs`, `susp` (ISO), with the boot sector or superblock as a
record.  A digit stands for the half-byte in which `fat_read` counts, so that a
FAT12 entry begins inside a byte's pair and lies across sectors; a cell stands for
a byte of a file or a 32-byte entry of a directory; a name is a value, a long name
a sequence of parts.  `tree` is the reference: the files there are, with their
bytes, written down apart from where they lie; `chain` is the list of a file's
clusters.  Left out: NTFS, initrd and FB; writes; `print_possibilities` (listing
for completion); comparison of names without regard to case; `fsmax`; UDF with
sectors of 512 bytes; Unicode; the drive's sector size; a block of which a failing read
has brought a part.  Loops over a directory or
a path are bounded by `DirLimit`, `LoopLimit`, `RecordLimit` and `UdfLimit`, each
above what any volume of the instance needs.

`ImplementsByteFile` maps to the same `ByteFile` as FileRead: the two modules meet
there, a block list or a window above, a file system below.

### Heap (`Heap.tla`): `grub_malloc`, `grub_free`

`blocks` is the list of descriptors in the order of addresses, `held` what callers
hold.  `TakeWhole`, `Split`, `MallocWontFit` are the exits of `grub_malloc` (the table
full among them), `Free` is `grub_free` with its joins on both sides.  Sizes are
in bytes, grains of 16; the compare with the next descriptor's address includes
its mark, as in the code (`NextWord`).

### MenuFlow (`MenuFlow.tla`): the menu, fallback entries, saved default

`menu` is the parsed menu file and `saved` the number on the disk: those two
outlive a reset.  The rest is `cmain`'s and `run_menu`'s state: `view`
(`first_entry`, `entryno`), `fallbacks`, `fallbackno`, `default`, `timeout`,
`tempNum`, the editor's `outer` and `lines`, `script`; `hist` is history for the
properties.

| actions | code |
|---|---|
| `LoadMenu`, `CheckFallback`, `CheckDefault`, `Restart` | `cmain`; the checks at the head of `run_menu` (`stage2.c:3060`-) |
| `Second`, `Timeout`, `KeyWhileHidden` | countdown, hidden menu |
| `Move`, `Digit`, `Boot`, `Edit`, `InsertLine`, `DeleteLine`, `LeaveEditor` | the keys |
| `BootTurn`, `RunCommand`, `RunFallback`, `CommandFails`, `ScriptEnds`, `BootKernel`, `PromptKey` | the boot loop over fallback entries and `run_script`; default, fallback, savedefault, goto as commands |
| `Crash`, `Reset` | the booted kernel dies; the machine is reset from outside |

Left out: passwords, hot keys, the stuck-key heuristic, dumb terminals, the keys
`c`, `^` and `v`, the text of an edited line, `savedefault` with a number and its
write in two sectors, scripts as entries, `errorcheck off`, graphics.

### DriveMap (`DriveMap.tla`): map, hook, rehook; DriveNames

`bios_drive_map` is the table that commands change, `hooked_drive_map` the copy of
the handler, `int13` whether the handler is in the vector table, `memory` what the
memory drives hold.

| actions | code |
|---|---|
| `MapRange`, `MapWhole`, `MapMemory`, `Unmap`, `Swap` | `map_func`: a range, a whole drive, `--mem`, `--unmap`, `--swap-drive`; `Through` follows the target through the hooked table, `Places` puts a memory drive where there is room |
| `Hook`, `Unhook`, `Boot` | `--hook`, `--hook=FIRST`, `--unhook`, `boot_func`'s own hook |
| `Rehook`, `RehookOne`, `RehookDone` | `--rehook`: all memory drives out of the table, highest first (`TakeHighest`), and in again one by one |

**DriveNames** is what a user is promised: a number means sectors; maps collect
and take effect together when int 13 is hooked.  Left out: fragmented images,
`--in-situ`, CD-ROM and probed geometry, `ram_drive` and fixed `(md)` maps,
compressed images, changes of `--mem-max` and `--mem-min`, read-only flags, writes
to mapped drives, maps of one sector, errors reading an image.

### BatchRun (`BatchRun.tla`): the interpreter of batch files; BatchBlocks

`prog` is `p_bat_prog` (text, lines, labels), `frames` the activations of
`bat_run_script` with their place and the local variables of `run_line`;
`errnum`, `result`, `brace_nesting`, `else_disabled`, `prog_pid` and the chain of
setlocal (`saved`, `sc`, `bc`) are the code's globals.

| actions | code |
|---|---|
| `OpenLine`, `CloseLine` | a brace at the start of a line: `bat_run_script` |
| `Open`, `Close` | a brace further on in it: `run_cmd_line` |
| `ElseSkipped`, `TestFails`, `Bare` | `else_func`, `if_func` |
| `Echo`, `DoTrue`, `DoFalse`, `DoError`, `Exit`, `ExitN`, `Set` | commands by their outcome |
| `Goto`, `Call`, `CallMissing`, `Run`, `RunTooDeep` | `goto_func`, `call_func`, a script as a command |
| `Setlocal`, `Endlocal` | with and without `@` |
| `NextLine`, `Interrupt`, `EndScript` | what `bat_run_script` makes of a line's `errnum`; Ctrl-C; its end |

`After` is what follows a command on its line: `run_cmd_line` treats `&&` and
`||`, `run_line` the others, and each decides by itself what becomes of `errnum`.
`Behind` is the search through the text for the brace that ends a block.

**BatchBlocks** is what a script means: its commands one after another, chains of
blocks, a stack of calls, and a reason why it stops.  It has no lines, no counters
of braces and no `errnum`.  `ImplementsBlocks` maps a place in a line to a command
of the script, and the bit of `else_disabled` to "a block of this chain has run".
Left out: pipes and redirection, expansion of variables and arguments, `call Fn`
and `call` of a command, `errorcheck off`, the debugger, `CMD_RUN_ON_EXIT`, braces
that are never closed.  There is one text, which may run itself.

### Instances

The MC modules hold the constants' values for TLC; a name that begins with the
name of an action and follows a comment `Mutant` is a variant of it that a
plausible slip would give, used to show that each property can fail.

## 4. Runs

All passing runs explore their whole state space; sizes are distinct states.

| run | instance | shows |
|---|---|---|
| `trackcache_two` (537k) | a floppy whose track length may be probed as 1 or 2, and a hard disk; `map`, exchange and `geometry` at any time | no drive is served another drive's, disk's or geometry's track; `SectorStore` is implemented |
| `trackcache_bytes` (423k) | two-byte sectors, CHS, `Wrap` 3 | byte offsets at every boundary, a sector too big for CHS, nothing outside the request changes, every call returns |
| `usb_hub` (33k) | one root port, a device or a hub of three; faults once a device has left address 0 | such a fault costs the device it strikes and no other; only hubs are probed; every configured stick has its drives |
| `usb_any` (519k) | two root ports with anything, every fault, two runs, tables of 3 and 2, counters of 2 and 4 | no LUN is listed twice, and the driver returns |
| `usb_transfer` (390k) | three sectors, two to a transfer, requests of 0 to 3 sectors (one past the end), two faults in each call | a success is one, one fault alone does not fail a call, no retry touches a sector outside the request, every call returns |
| `partitions` (229k) | 236 drives: MBR tables of two entries, chains of up to three records whose links lead anywhere, BSD labels, GPT arrays with holes and reserved entries behind three protective MBRs, one with a chain of its own | `find` visits each partition once, an open by number finds it or nothing, `devread` stays in it, the walks end |
| `files` (302k) | a plain file in two pieces, two gzipped ones (copies over the window's end, a stored block longer than it) and a broken one; any order of seeks and reads; disk errors | cursor and window are the file's; `ByteFile` is implemented; reads end |
| `fs` (6.3k) | ten volumes (FAT12, FAT16, FAT32 with its second FAT, exFAT, ext2 with holes, links and three levels of indirection, ext4 with a tree of extents, ISO 9660 plain, Joliet and Rock Ridge, UDF), 30 paths that exist and 27 that do not, a disk that fails for good at one of nine reads of a call | every file is found and nothing else is, what is kept of a file's blocks is this file's, `ByteFile` is implemented |
| `heap` (43k) | ten grains, a table of six descriptors, five sizes | what callers hold is disjoint, the list is in order and covers the heap, free neighbours are joined |
| `menu` (45k) | five menus: three pages with entries that cannot be booted, numbered titles with the editor, crashes with a saved fallback, a fallback list with an entry that is not there, entries that name each other | the highlight stays in the menu, fallbacks run once each and in order, the number saved is the one tried next, the menu comes up, boots end, a good entry is found |
| `drivemap` (87k) | two disks and a number without one, four slots, six pages of memory in three ranges, three commands with hooks, unhooks, rehooks and boots between | memory drives lie apart, a rehook finds room, a number means what it was mapped to |
| `batch` (575k) | 9610 scripts: chains of if and else in chains, braces in every place a line takes them, lines of three commands with every operator, subroutines, a script in itself, setlocals | blocks, operators, jumps and calls are those of `BatchBlocks`; nobody undoes a caller's setlocal |

*Why the bounds are enough.*  A request matters to `rawread` by where it starts
and ends in a sector, in a track and against the buffer.  In TrackCache requests
lie within a track, end at its boundary, cross one, and reach the cut-off last
track; with two-byte sectors each end falls on and off a sector boundary; a buffer
one sector longer than the track keeps a request longer than the buffer possible.
Content is two byte values: a stale byte is one that differs.  Two drives are
needed for aliasing and no property relates three.  In `usb_any` counters are
small on purpose (`Byte` 4, `Word` 2, `ConfigLength` 1) so that they wrap, and the
tables so that they fill; `MaxRuns` is the number of `usb --init` commands.

`usb_transfer` allows two faults since three attempts are what the properties are
about; with one per attempt a call may fail and with one alone it may not.  In
`partitions` a chain of three records is the shortest with a cycle that does not
come back to its start, `Last` (0xFE) and `Limit` (2^32) are in reach, a GPT of three
entries has room for a hole before, between and behind two in use, and protective MBRs
list partitions that the GPT does not have; `Stray` has one entry that lies on no
drive.  In `files`
the window is shorter than a file, so that each seek back is one of the two cases;
`MaxOpens` 2 lets a file follow another.  In `heap` the table is shorter than the
blocks that the memory has room for, so that it is used up.  `menu` has a box of
two rows and menus of 2 to 5 entries, a list of 4 places that is not full,
`MaxLines` 3 and one reset; `keys` limits which keys a user of a menu presses.
`drivemap` counts commands that change the table (`MaxCommands`), and hooks,
unhooks, rehooks and boots are free; the last page of memory is above 4 GB.
`batch` runs at most two scripts in one another (`MaxPid` 3, the code's 10),
`Word` 4 stands for the 32 bits of `else_disabled`; no script of the instance nests
deeper, so no shift wraps where the real one does not.

In `fs` a state is between two calls, and each call is some ten to forty reads of
the disk and steps of a loop, so that few states hold many steps.  `SS` 2 puts the
ends of sectors, clusters, blocks and entries everywhere; `Radix` 4 makes 64 the
number of clusters that a FAT12 has, and the window of the FAT is 16 digits, so
that a chain leaves it, comes back, and finds an entry over its end; `NDIR` 1 and
`ADDR` 2 reach the third level of indirection with a file of ten blocks;
`PATH_MAX` 14 and `MAX_LINK_COUNT` 3 are reached by the instance's links.  The
descriptors are looked for in sectors `FIRST`..`LAST` (16..31 in the code) and at
`ANCHOR` (256).

*What the passing instances leave out on purpose*, each with an instance of
section 5 that shows why: full fallback lists (`menu`), maps that name a hooked
memory drive and `--mem` while a hooked slot is unmapped (`Aliases`, `Untidy`),
full tables at a rehook (`FullRehook`), disk errors inside a code (`Failing`),
conditions of `find` that open other drives (`Conditions`), in `fs` a disk that
fails once, callers that read on after an error, faults on the UDF volume, a chain
through an exFAT volume's last cluster, full sectors of an ISO directory, a UDF
directory behind its parent's first extent, and in `batch` two
chains in one block, calls and scripts inside blocks, a goto out of a block,
commands that may fail before a closing brace on their line, and the operators
`;;`, `&;`, `|;` before the line's brace.

*Fairness.*  `WF(CallStep)` in TrackCache, `WF(Enumerating)` in UsbEnumerate,
`WF(Walking)` in PartitionWalk and `WF(Work)` in FileRead: the loader runs its own
code, nothing preempts it, and a BIOS or controller call returns with success or
failure.  UsbTransfer has `WF(Driver)` and `WF(Wire)`: a transfer that is not
answered times out.  MenuFlow has `WF(Program)` and `WF(Crash)`: the countdown and
the boot go on by themselves, and a machine whose kernel died is started again.
No command, no key, no fault and no reset from outside is fair; liveness rests on
the program's steps alone, and a wrapped counter is no excuse, since each turn of
a loop is a step.  Heap, DriveMap, FileSystems and BatchRun state no liveness and no fairness: what a
script runs is for its author, and a call of a file system is one step (the one of
them that may not return, the UDF mount, is in section 5).

*Deadlock* is checked except in UsbEnumerate, FileRead, FileSystems, MenuFlow and
BatchRun, where behaviours end (`MaxRuns` commands, `MaxOpens` files, a file that
is not there or cannot be read, a kernel that runs, the end of the script).

A type invariant `TypeOK` (`HeapTypeOK`) is in every module but FileSystems, whose buffers have no
more of a type than the volume; `trackcache_bytes` lists it, and the other instances
were checked with it as well; for eight of them it is a theorem.

## 5. Disagreements found

No run of `PROJECT.json` expects a violation.  The configurations of this section
reproduce one of the property they name with `tlc -config X.cfg MC<module>`; where
an item gives a passing run's configuration with other values, put these into a
copy of it.

Track buffer (`MCTrackCache`):

- `trackcache_window` (`disk_io.c:548`).  `rawwrite` updates the buffered track
  only within `buf_geom.sectors` (63) of its start, while an LBA track is 127
  sectors.  `geometry --sync (hd0)` reads with `rawread` and then writes with
  `rawwrite` the first sector of a partition in one command, so the case does
  occur; a later read in the line returns the old sector.
- `trackcache_wide` (`disk_io.c:385`).  A 64-bit track in a 32-bit `buf_track`.
  With 2^32 a multiple of the track (sector sizes other than 512) two tracks
  share a number.  It takes a drive of more than 2^32 sectors.
- `trackcache_tune` (`builtins.c:7707`).  `geometry --tune` installs a geometry
  without clearing `buf_track` when the line has already selected the drive:
  `cat (fd0)+1 && geometry --tune (fd0) && cat (fd0)+18`.
- `trackcache_lba` is not a disagreement but a larger instance that passes: one
  LBA drive, tracks of 3 against 2 sectors per CHS track.

A write for which the BIOS reports an error although it was done
(`disk_io.c:542`) also leaves the buffer stale; whether a BIOS does that is not
something the repository speaks about, so it is a hypothesis (`LateErrors`
FALSE) of the passing runs and the proofs.

USB (`MCUsbEnumerate`, `MCUsbTransfer`):

- `usb_two_ports` (`asm.S:10331`).  Before an attempt on any port, slot 0 is
  cleared, and slot 0 is the first stick.  Two sticks in two root ports: the
  first has no drive.
- `usb_low_speed` (`asm.S:10323`).  A low-speed device is reset 255 times instead
  of at most 3: the counter is initialised on another path.
- `usb_skipped` (`asm.S:10363`).  The cleared slot 0 of a skipped port is probed
  as a hub, 65536 times if `Cache` holds a zero: the hang that
  `handover/records/case4_notes.md` leaves open.
- `usb_shared_address` (`asm.S:10198`).  A device that fails its first descriptor
  stays at address 0, where the next one joins it.
- `usb_stale_status` (`asm.S:9089`).  With the IN toggle out of step, or a lost
  CLEAR FEATURE, the status of an earlier command arrives where a sector was due
  and the read reports success: every command has the same tag.  `SuccessIsReal`
  excepts these reads (`masked`).
- `usb_transfer.cfg` with `MaxFaults = 3` violates `SuccessIsReal` and
  `OnlyRequestedSectors` (`asm.S:9089`).  The handshake of a data packet is lost, then
  the bulk reset and the clearing of the OUT pipe: the device, one toggle ahead,
  drops the next command block as a repetition and takes that command's data for
  the first one's.

Partitions and files (`MCPartitionWalk`, `MCFileRead`):

- `partitions.cfg` with `Drives = {"hd0", "hd1"}`, `Disks <- TwoDrives` and
  `Conditions = {"hd1"}` violates `FindVisitsAll` (`disk_io.c:770`).  A CONDITION of
  `find` that opens a drive with another kind of table leaves its kind in the
  globals of the walk, which goes on astray.
- `partitions.cfg` with `INVARIANT OpensNothingElse` violates it (`disk_io.c:848`).
  `is_gpt_part` returns 0 when the header of the GPT cannot be read (`disk_io.c:801`),
  and the walk goes on over the protective MBR: its 0xEE entry is opened as `(hd0,0)`,
  and `errnum` is cleared before the comparison (`disk_io.c:1287`).  `OpenFindsIt`
  says what does hold: without a failed read the partition is the drive's, and with one
  it is the drive's or the MBR's.
- `partitions.cfg` with `PROPERTY AllWalksEnd` violates it (`disk_io.c:883`).  Two
  records that point at each other and hold no partition: the walk never ends.
- A request whose last sector wraps in 64 bits passes `devread`'s bound
  (`disk_io.c:491`): `partitions.cfg` with `Sectors = {255}`, where `Wide` is 256,
  violates `ReadsStayInside`.  The proof excludes such requests with `NoWrap`.
- `files.cfg` with `Files <- MCWide`, `Lengths = {5}` and `Failing = {"coded"}`
  violates `ImplementsByteFile` (`gunzip.c:530`).  `get_byte` ignores that
  `grub_read` failed: a disk error inside a code is decoded as data and `errnum` is
  cleared later.

File systems (`MCFileSystems`; `fs.cfg` with the values given):

- `Faults <- OnceFaults` violates `ImplementsByteFile` (`fsys_ext2fs.c:804`,
  `fsys_fat.c:482`).  The loops look at neither `devread`'s value nor `errnum`, and
  each `devread` begins with `errnum = 0`: a read that failed in the middle of a
  request and did not at its end is reported as a success.
- `Faults <- Fat16Faults`, `Retry = TRUE` violates it as well (`fsys_fat.c:440`).
  `cached_fat` names the new window before it is read; after a failure the next
  call takes the old bytes for it.
- `Volumes <- LastCluster`, `Faults <- NoFaults` violates `OnlyFaultsFail`
  (`fsys_fat.c:308`).  The exFAT field counts clusters from 2 on, and the code takes
  it for the number after the last one, as FAT's is: the last two clusters of a
  chain are refused as corrupt.
- `Volumes <- FullSector`, `Faults <- NoFaults` violates `OnlyFaultsFail`
  (`fsys_iso9660.c:360`).  Records end at one of length 0; those of a sector without
  room for it go on into whatever lies behind the buffer.
- `Volumes <- LateDirectory`, `Faults <- NoFaults` violates `OnlyFaultsFail`
  (`fsys_iso9660.c:266`).  `Allocation_offset` is not reset for the next directory of
  a path: a directory found in its parent's second extent is searched from its own
  second extent on.
- Also in the operators: `map < 0` is never true of an unsigned number
  (`fsys_ext2fs.c:788`), and an unmapped block is refused by `devread`'s bound; a
  hole of the size of an indirect block is read through block 0; a hole
  behind an extent is taken for the block after it, or refused
  (`fsys_ext2fs.c:730`); the
  UDF mount does not see that a sector could not be read and may look for
  descriptors without end (`fsys_iso9660.c:173`), and takes an entry that was not
  read (`fsys_iso9660.c:604`); the type bits of an extent's length are masked in one
  of two places (`fsys_iso9660.c:747`); the top four bits of a FAT32 entry are not
  masked.

Heap (`MCHeap`): `heap.cfg` with `INVARIANT UsedIsHeld` violates it
(`common.c:278`).  The size of a free block is taken
from the next descriptor's address with its mark, so that a free block of exactly
the size asked for, before a used one, is one byte too large and is split; the
rest, a free block of no bytes, has the address of the used block after it.  A
`grub_free` of that one finds the empty one first, and the block stays in use for
good.

Menu (`MCMenuFlow`):

- `menu.cfg` with `Menus <- FullMenus` and `MaxResets = 0` violates `MenuComesUp`
  (`stage2.c:3074`).  A list of `MAX_FALLBACK_ENTRIES` entries of
  which the last is not in the menu: its place is moved to by nothing and the
  menu never comes up.
- Met while modelling, and part of the actions as they are: an invalid entry
  before the last of a full list leaves the last twice; `fallback 1 1 2` reports
  an error with the list half rewritten (`builtins.c:4868`); a boot from the
  editor sets `current_entryno` to a line number (`stage2.c:1977`), and digits
  there are searched among the titles of the menu; a `fallback` command that names
  an entry the menu lacks (`+1` in the last entry) leaves the highlight below the
  menu, which is why `SoundMenus` is a hypothesis of the proof; `savedefault` returns without restoring
  `saved_drive` when the write is denied; "-N" as an argument of `fallback` is N
  minus the current entry; where some entries fail and others crash, the saved
  fallback is started from the head of the list again.

Drive map (`MCDriveMap`):

- `drivemap_full` (`builtins.c:9668`).  The search for the highest memory drive
  ends one slot early: with a full table whose last slot is the highest, a lower
  one is moved over it by `--rehook`, which then serves the other's sectors.
  `ChangeLog_GRUB4DOS.txt:196` says "fixed memory overlap issue on map --rehook".
- `drivemap_full.cfg` with `Aliases = TRUE, FullRehook = FALSE, DRIVE_MAP_SIZE = 4`.  A map of a part of a hooked memory drive leads
  into the memory of that drive, which `--rehook` moves and overwrites.
- The same with `Untidy = TRUE` for `Aliases`.  A memory drive that is unmapped while hooked still serves
  its memory, and the next `--mem` takes it; `README_GRUB4DOS.txt:3888` recommends
  a rehook.
- Also in the actions: `map --hook` with an empty table unhooks and returns an
  error without clearing `buf_drive`; `--hook=FIRST` never looks at the last slot;
  a `--swap-drive` that fails half way leaves the names swapped and the second
  mapping missing.

Batch files (`MCBatchRun`; `batch.cfg` with `Files` as given; each violates
`ImplementsBlocks`):

- `Files <- TwoChains` (`builtins.c:16093`).  In a block, the bit that one chain set in
  `else_disabled` is still set for the next chain: if its test fails, its else is
  skipped as well.  `ChangeLog_chenall.txt:142`: "大括弧内部可以嵌套" (braces may
  be nested).
- `Files <- CallInBlock` (`builtins.c:17480`).  A subroutine or a script called in a block
  resets `brace_nesting`; after it the block's closing brace counts to -1 and
  `1 << -1` is bit 31, so that a later else is taken or skipped by chance.
- `Files <- GotoOut`.  A goto out of a block does not count its braces down.
- `Files <- BeforeBrace` (`cmdline.c:330`, `cmdline.c:453`).  An error, a goto or an exit
  directly before `}` on its line is lost: the brace clears `errnum`.
- `Files <- BraceSkipped`.  `a &; b }` with b false skips the brace and stays in the block.
- The comment at `builtins.c:17273` allows ten scripts in one another; the tenth is
  refused without an error (`builtins.c:18011`).

## 6. Proofs

Thirty-five theorems in eight modules, checked by TLAPS with no proof left out.  A
module is named after the component it is about; `MemoryProofs` is about two, the
track buffer and the heap, and so is `BuiltinsProofs`, about the drive maps and the
scripts of `builtins.c`.  They hold for every value of the
constants that the module's own assumptions and the column *under* allow.

| module | theorem | states | under |
|---|---|---|---|
| `MemoryProofs` | `Types` | `[]TypeOK`: no access outside the 64 KB buffer, `byte_len` never below zero | `SafeUse` |
| | `Coherence` | `[]CacheCoherent`: the buffered track is what the drive holds | `SafeUse` |
| | `Reads` | `[]ReadIsCurrent`: a `rawread` that returns 1 has moved the drive's bytes, all of them, and stayed on the drive | `SafeUse` |
| | `Writes` | `OnlyRequestedBytesChange`: no step of a call changes a byte that the request does not name | `SafeUse` |
| | `Refinement` | `ImplementsStore`: every behaviour is one of the plain drives of `SectorStore` | `SafeUse` |
| | `HeapTypes` | `[]HeapTypeOK`: the descriptors stay in their table and in order | |
| | `Merging` | `[]NoFreeNeighbours`: nothing free is left in two pieces | |
| | `Covering` | `[]ListCovers`: the descriptors lie in order, from the heap's start to its end | |
| | `Disjointness` | `[]HeldDisjoint`: no byte is two callers', none outside the heap | |
| `UsbTransferProofs` | `Typing` | `[]TypeOK`: no sector moves past the end of the request's buffer or of the device | |
| | `Recovery` | `[]FaultsNeeded`: a call in range fails only after two faults, or one if the device was out of step when it began | |
| | `Success` | `[]SuccessIsReal`: a success has moved every sector of its request | two faults to a call |
| | `Confinement` | `OnlyRequestedSectors`: a write changes only its own sectors, and to its own content | two faults to a call |
| `UsbEnumerateProofs` | `Types` | `[]TypeOK`: tables and counters keep their ranges | |
| | `Distinct` | `[]DrivesDistinct`: no LUN is two drives | |
| | `Reality` | `[]DrivesAreReal`: each drive is a LUN of one storage device | no device lost at address 0 |
| | `OnlyHubs` | `[]ProbesOnlyHubs`: `usb_probe` speaks to hubs only | `LoneRoot` and at high speed, one run, no failure of "reset" or "device" |
| | `Found` | `[]SticksBecomeDrives`: a storage device that is configured gets a drive | `LoneRoot`, `MaxDri` < 128, no failure but of "reset", "config", "set config", "lun", "hub descriptor" |
| `PartitionWalkProofs` | `Typing` | `[]TypeOK`: no slice number passes the end mark, no offset leaves its 32 bits | |
| | `Confinement` | `[]ReadsStayInside`: `devread` stays in the opened partition | `RealDisks`, `NoWrap` |
| | `FoundByName` | `[]OpenFindsIt`: the partition opened is the one of that number, with its extent, of the drive or, its GPT header unread, of its MBR | `RealTables` |
| | `Visiting` | `[]FindVisitsAll`: `find` looks into each partition exactly once | `RealTables`, `Conditions` empty |
| `MenuFlowProofs` | `Highlighting` | `[]HighlightInMenu`: the highlight is on an entry and in the box | `SoundMenus` |
| | `FallbackOrder` | `[]FallbackInOrder`: an unattended boot tries the default entry and then the list, in its order, each once | `SoundMenus`, `OnceEach` |
| | `SavedNext` | `SavedFallbackIsNext`: `savedefault fallback` saves the entry that is tried next | `SoundMenus`, `OnceEach` |
| `BuiltinsProofs` | `Types` | `[]TypeOK`: both tables hold slots, memory keeps its size | |
| | `Placement` | `[]MemDrivesPlaced`: memory drives lie in usable memory, with no page in common | `Aliases` FALSE |
| | `Rehooking` | `[]RehookSucceeds`: a rehook finds a place for each memory drive | `Aliases` and `FullRehook` FALSE, `NoStraddle` |
| | `Implementation` | `ImplementsDriveNames`: a number means what it was mapped to, when it was mapped | `Aliases`, `Untidy` and `FullRehook` FALSE, `NoStraddle` |
| | `Scoping` | `LocalsScoped`: a script's setlocal is undone when it ends, its callers' are not touched | |
| `FileProofs` | `Typing` | `[]TypeOK`: the cursor stays in its list, the buffers keep their sizes | |
| | `Cursor` | `[]CursorRight`: `block_read_func`'s cursor is in the sector of the list where `cur_filepos` is | |
| | `Window` | `[]WindowRight`: the window a later read may be served from holds the file's bytes | `SoundStreams`, "coded" not in `Failing` |
| | `Implementation` | `ImplementsByteFile`: a read gives the file's bytes, all that were asked for or an error with the first of them | `SoundStreams`, "coded" not in `Failing` |
| `FileSystemProofs` | `CachedMap` | `[]CachedMapRight`: what `fat_read` and `ext2fs_block_map` keep of a file's place on the disk is what the disk says, until a read of the disk fails | `FatSound` |

Each inductive invariant below was an invariant of a TLC run on the instance of
its module in section 4 before it was proved.  Every module has a lemma for each
action, or group of actions that touch the same part of the invariant.

*TrackCache.*  `SafeUse` has four conjuncts, which the configurations
`trackcache_*` of section 5 show to be needed: sector numbers fit a positive
`int`; `rawwrite` is given only sectors within the window that its cache update
covers; an error means that the last sector was not written; `geometry` opens
its command line.  `CacheCoherent` is not inductive.  While a call is in
progress the buffer is about to be used on the strength of what the load step
found, possibly with no track remembered, and the write-back puts whole sectors
from it on the disk.  `IInv` therefore adds `Selected` (in mid-call the globals
describe the call's drive, and `buf_geom` is one of its geometries), `Loaded` (a
step about to use `num_sect` sectors has them, equal to the disk's, on the drive
and within the track) and `Aligned` (a remembered track starts at a track
boundary, so that `sector - soff` identifies it).  Two more invariants complete
it: `Placed` (the cursor stands just behind the bytes already served) and
`Served` (a read has moved a prefix of its bytes).  `Reads` rests on both;
`Writes` on `Placed`: the bytes that a step patches are in the request, and the
others are written back as they were, because by `Loaded` the buffer held the
disk's.  `Refinement` uses all of them: every action is mapped to a step of
`SectorStore` or to a stutter, the writes sector by sector, and the last step of
a call to the return it promises.

*Heap.*  `HeapInv` is `HeapTypeOK`, `List` (descriptors in the order of their addresses,
the same address twice being an empty block before one in use), `HoldsBlock` (each
caller's block is one of the list, in use, and long enough) and `OneOwner`.
`HeldDisjoint` follows and is not inductive: that a block just given is nobody's
rests on the order of the whole list.  `grub_free` joins on one side and then on
the other, so that its proof goes through lists merged everywhere but at one
place (`MergedBut`).

*UsbTransfer.*  `WellFormed` says that the transfer at work is the one its stage
calls for and that a device in a data phase has sectors left.  `Recovery` adds
`Budget`: the attempts left are worth the faults not yet had, whatever toggles
and halts the last one left behind, and a call that starts in step keeps that to
its credit.  With `DataInv` each sector that has moved is the request's: `Placed`
(what has gone over the wire lies in its place, in memory or on the disk),
`OutStep` (a device that waits for the sectors of a write does so in its data
stage, or a fault has struck and the OUT toggles agree, so that it takes no later
command for a sector) and `InStepUnmasked` (the IN toggles agree as long as no
clear of them can have been missed).  The bound of two is the theorems' and not only the
run's: with three faults in a call both properties fail (section 5).

*UsbEnumerate.*  `Distinct` needs no hypothesis on failures: a slot that may hold
drives carries its own number (`TableOK`), `Visited` says that the drives found so
far come from the slots and LUNs before the cursor, and `RetryOK` that the
attempts and `enum_retry` share one byte.  `Reality` asks that `Failing`
contains none of "head", "device", "address" and "hub status"; the other steps
may fail.  Its invariant `BInv` says that no two devices are at one address
(`Apart`), none at one that has not been given out (`Assigned`), and that, while
the table has room, at most the device being filled in is at address 0
(`Alone`).  `OnlyHubs` and `Found` ask that no two root ports have a device
(`LoneRoot`): the second clears the slot of the first (`usb_two_ports`, section 5).
The mark of a slot just cleared is the mark of a hub, so that `OnlyHubs` needs
more: TLC finds `ProbesOnlyHubs` violated when a reset fails, when the root device's
descriptor fails, when the device is at low speed (`usb_skipped`) and in a
second run, whose root device leaves slot 0 cleared.  Its invariant is `RootFirst` (the root device comes to an empty
table, at the first attempt, and is found at address 0) and `HubsMarked` (every marked slot has a
number at which a hub answers).  `Found` bears all of these except a failing descriptor.
`RootFresh` says that nothing is configured when the root device is reset;
`Counted` that a configured stick has the slot with its number, a LUN count and a
part in `usb_count`, so that Drive_enumerate is begun; `Entered` that it has a drive once
its first LUN has been visited, which answers because nobody else is at its address
(`Apart`) and "ready" does not fail.  With `MaxDri` of 128 a number of drives would be
taken for an error.

*PartitionWalk.*  `RealDisks`: every entry in use ends below 2^64.  `NoWrap`: nor
does a request's last sector pass 2^64.  `Bounded` says that the
partition that `real_open_partition` was told, and every entry of the sector in the
shared buffer, ends below `Wide`, whichever walk put it there.  That needs `Straight`:
nothing walks inside `real_open_partition`, so that behind its first slice the kind of
table is what its own first call said and its cursor is at the entries if that was a
GPT (it never goes astray), and the drive is seen as it is unless a read failed.
`devread`'s bound then compares numbers that have
not wrapped.

`RealTables`: a drive has finitely many sectors, an entry's start is of 32 bits, a
label has at most as many partitions as can be numbered (the format allows eight).
The cursor of a walk is compared with the chain of records by `Stands`: it is at an
entry of the k-th record, and its number counts the logical partitions up to that
entry (`UpTo`).  `TurnReports`, `TurnFollows` and `TurnEnds` keep this through a turn
over a table; where a link leads to no record, the cursor is `Lost`, with nothing left
behind it (`NoMore`).  `Sound` adds what the globals hold: the kind of table, the
primary table (`Known`) and the label in the buffer (`Labelled`).  Then each step of
`next_partition` reports the partition that follows, turns, or ends (`StepsOn`), for
either walk (`StepStep`).  All of it is said of any of `Readings`, so that it holds as
well for a walk over the MBR of a drive whose header was not read; `OnDisk` ties the
walk to the drive or to its `AsMbr`, and `Takes` says that the first call takes it so.

`FoundByName` is by `NotPassed`: nothing the walk has passed is what it looks for, nor,
for a BSD partition of the first BSD slice, a BSD slice.  It allows any walks before,
and any CONDITION.  `Visiting` keeps `visited` equal to what is wanted of the
partitions passed (`Finding`), while each look opens a partition: that leaves the kind of table
as it was (`KnownStays`; without a failed read it is the drive's, by `Straight`), and the label that `find` goes on with is in the buffer again,
because the partition found is the one it is at (`Nested`).  With `Conditions` not empty
this is false (section 5).

*MenuFlow.*  `SoundMenus`: the `fallback` commands of a menu's entries name
entries of it; the list of the menu itself does too, or it leaves room in the
table and names nothing twice.  The invariant is `Numbers` (types, in the
editor's list of lines as well), `Edited` (the editor keeps the view it was called
from), `Shown` (the view is on an entry, in the box once on the screen), `Booted`
(so are the entry and the view that a boot comes back to) and `Listed`: the
fallback list may hold entries that the menu lacks, but only while the check at
the head of `run_menu` has not reached them.

The order of an unattended boot has hypothesis `OnceEach`: a list that the entries do not
edit (`Plain`) names nothing twice and fits the table (behind a number that comes again
`fallback_func` stops with the list half rewritten, section 5).  The invariant
`Order` has two parts.  `Listing`: while the check of `run_menu` is at the entry
after the first j of the file, the table holds those of them that exist, then the rest of the
file (`Compressed`), and afterwards the existing entries only (`Complete`).
`InOrder`: what was tried is the first n of `Chain`, and `fallbackno` is the place in the
list of the next, one less than in the chain when the default entry is before them
(`Lead`), through every turn of the loop.  `SavedIsNext` then says that the place
where `savedefault` finds the running entry is the one before `fallbackno`.  Which
entries exist is a recursive function (`Present`), and what it gives for each
first part of a list (`PresentFacts`) is proved by a least counterexample.

*DriveMap.*  `Aliases` FALSE: no map without `--mem` names a hooked memory drive
(the second item of section 5; with it two slots lead into one range).
`MemDrivesPlaced` speaks of places that `map --mem` finds free by comparing pages,
so that the proof begins with pages: what `Down` and `Up` do (`DownFacts`,
`UpFacts`, `SumAligned`), that the highest base and the range of `--mem=BASE` are
whole pages apart from every drive of the table (`TopPlace`, `FixedPlace`).  What
the other commands do to a table is one relation, `Fewer`: its memory drives are
where some of the old ones were, each once; deletions, renamings, `--hook=FIRST`
and maps over a slot keep it, and it keeps `Placed`.  `PlacedInv` adds that the
drives which wait in a rehook (`Moving`) had a place.  `Rehooking` needs more:
`Ordered`, by steps of `TakenOut`, says that those taken out lie above those still
in the table, so that in a table that is not full none is left over and the list
is in the order of the old places, highest first.  `MovedInv` keeps the drives
that wait below those already moved (`Below`), so that the old place of the next
one is free (`OldPlace`), and the highest free base is not below it (`NewPlace`).
`NoStraddle`, that no usable range crosses 4 GB, is true of every PC, whose
firmware is below it; without it a drive that begins below 4 GB and ends above is
mapped again without `--top` and finds no place (`drivemap.cfg` with
`Regions <- StraddlingRegions`, `FourGB = 4` violates `RehookSucceeds`).  `FullRehook` is the first
item of section 5; `Untidy` may be TRUE in both.

`Implementation` shows that each step of the tables is a step of `DriveNames` or a
stutter, under a mapping that follows a number through its slot to the sectors
behind it (`Means`).  `NamesInv` adds to `MovedInv` that the tables are `Sane`: no number
has two slots, and a slot leads to sectors that exist, of a disk or of memory.
While a rehook is at work this is said of the pending table together with the drives that
wait (`ToMove`), so that what the numbers will mean does not change from one move
to the next.  The rest is two arguments.  A slot replaced, deleted or moved up
the table changes no other number's meaning, and a chain of maps ends in one slot
that leads where the chain did.  And a copy, of a new memory
drive or of one that moves, goes to a place that no slot of either table leads
to, so that no number's bytes change under it: this is where `MemDrivesPlaced`
comes in, where a waiting drive must be copied before another overwrites it
(`Below`), and where `Untidy` (a map --mem given while memory drives are hooked
that the pending table no longer has) must be FALSE.

*FileRead.*  `CursorRight` is not inductive: it is kept by a read that stays in the file,
and whether it does depends on whose positions `filepos` and `filemax` are.
`CursorInv` is `Kinds` (types), `CursorAt` (the cursor points into its list, entry
and sector), `Positions` (`filemax` is the list's size while a plain file is open or
`gunzip_read` has the positions swapped, and `gzip_filemax` is otherwise), `Calls`
(what is left of `grub_read`'s call and of `block_read_func`'s lies before
`filemax`) and `Inflating` (the decoder has room in the window, and a byte of a
stored block left, wherever it writes).  It holds for any data and any failures.  That
a position leads to the sector the list says is `AheadAt` and `Located`, that the
bytes moved from there are the file's is `FlatFacts` and `Bytewise`.

`WindowRight` speaks of the time between calls; within one the window is half
old, half new.  `ReadInv` adds to `CursorInv`:

- `DecoderInv`: as long as `errnum` is 0 there are a piece of the file, which is in
  `inbuf` as far as it has been read, and a symbol q of it, the next one, such that
  the decoder is in the block that the stream is in before q (`InBlock`), and the window ends
  with what the symbols before q mean (`Shows`), but for the rest of a copy that the
  window's end has cut off (`From`);
- `Faulty`: an error stops the decoder before it asks for input;
- `Answering`: what the caller has been given is the content from the position it asked
  at (`OutIs`), `Got` bytes of it, and the position is behind them;
- `Reading`: the positions, the size the trailer gives and the window fit together, so
  that a position before the window makes `gunzip_read` start again.

The decoder writes into a ring and reads what it has just written; the stream's
meaning is a sequence that grows.  `Copying` takes the two through a copy byte by
byte, `WindowPlace` and `OtherPlace` are the arithmetic of the ring, and
`DecodingGrows` says that what one symbol has given the later ones do not change.
`Implementation` maps each step to a step of `ByteFile` or to a stutter: the end of
a call is `Read` or `ReadFails` (`FirstBytes`), and a file is the caller's when
`gunzip_test_header` is done with it.

`SoundStreams`: a gzipped file's data ends with its last block and is as long as the
trailer says, or it breaks off and is not longer than that; and no copy goes back to before
the data's beginning.  The code checks neither: it takes `filemax` from the trailer
(`gunzip.c:337`) and compares it with nothing, and a copy from before the beginning
moves what an earlier file has left in the window.  `"coded"` is the case of
section 5 in which a failed read is decoded.  The files of `files.cfg` are sound,
one that breaks off among them.

*FileSystems.*  A call is one step of the model, and inside it is a walk through
directories, a chain or a tree of blocks, every loop of which is a recursive function of its
number of turns (`Repeat`).  For each loop there is a lemma that what one turn keeps
the loop keeps (`AlongLoop`, `FatPiecesLoop`, `NextEntriesLoop`, `WalkLoop`, ...), for
any number of turns: `Upward` is the induction, by a least number that is
missing.  So the theorem is for any length of chain, depth of directories and number of
entries, and for `DirLimit` and `LoopLimit` of any size.

`CachedMapRight` is not inductive.  On a FAT the current cluster is right only if the
links that led to it were, and those are taken from `FAT_BUF`: `FSInv` adds that the
window holds the digits of the FAT on the disk from `cached_fat` on (`FatWindow`),
that `cached_fat` is where a group of entries begins, so that a window is known by it
(`Typed`), and that the cluster number is one of the chain's (`OnChain`, with the chain
on the disk as `FileOf` the call has it).  A 12-bit entry may cross two sectors; that the
window loaded for an entry holds all of it is `WindowFits`, that the entry's value is the
disk's wherever the window begins is `DigitRight` and `EntryRight`.  Of a file of length 0
nothing is read, and its first cluster need not exist.  `cached_fat` is set before the
window is read (`fsys_fat.c:440`), so that after a failed read it names a window that is not
there: this is why nothing is claimed after a disk error (`struck`).  On ext2 the marks are set after
the read.  `Ext2Maps` says that `mapblock1` and `mapblock2` say what is in
`DATABLOCK1` and `DATABLOCK2`, through the three levels of indirect blocks, the
extents (which use `DATABLOCK1` without a mark, and never look at one), and the
directories, which read their own blocks into `DATABLOCK2` and so clear its mark.  A
new inode clears both (`InodeReadRight`).  In the model a block that cannot be read leaves its
buffer as it was; in the code one that lies across two tracks may be half there under
the old mark, which is one more reason to claim nothing then.

`FatSound`: on a volume that `fat_mount` accepts, the entries of the FAT have 3, 4 or
8 digits and a cluster has at least one sector, and a file that `fat_dir` finds has a length of 31 bits
and, unless that is 0, a first cluster from which the FAT on the disk leads along the
file's chain to an end mark, within the partition.  This is what the file's chain *is*; the
code checks no more of it than the range of each link.  `cached_fat` is then where a group of
entries begins, or -1: part of the hypothesis, since of the clusters of directories, which set
it on the way, nothing is said.  TLC finds `FatSound` TRUE on
the volumes of `fs.cfg` (a module that extends `MCFileSystems` and `FileSystemProofs`
with it as an assumption), and `FSInv` invariant there, with the `Nat` of `FatWindow`
and `Typed` cut to what the instance reaches.  Of ext2 and ISO 9660 volumes nothing is
assumed but `FileSystemsAssumption`: numbers are numbers, and no path is the model's "no file".

*BatchRun.*  `Stack`: each activation keeps its caller's `bc` and began with at
least as much saved as its caller; `Scopes`: the innermost one began at `bc`, and
`sc` and `bc` are places of what is saved.  `LocalsScoped` is a property of
steps and follows from the two.

*Least elements.*  Where the model chooses a least number (`CHOOSE`: the first place of
the list that is free, the next record), and where an argument would be an
induction, the proof takes a least counterexample: lemma `Least`, from the well-foundedness of < on
the naturals.  The library's induction theorems have an operator as parameter,
which the provers at hand cannot instantiate.

*Left to TLC.*

- Liveness (`CallsReturn`, `EnumerationEnds`, `WalkEnds`, `ReadsEnd`,
  `MenuComesUp`, `BootEnds`, `GoodEntryRuns`): it needs fairness and `ENABLED`,
  which the provers do not know.
- `OnlyFaultsFail` and `ImplementsByteFile` of FileSystems say what whole calls give
  for a volume, its directories and its files put together: induction over data, where
  `CachedMap` needs only what every turn keeps.  MCFileSystems has the one RECURSIVE operator.
  What a gzipped file's symbols mean is a recursive function as well (`Decoded`);
  FileProofs uses how it grows by one symbol, for all files, and not what it gives
  for any.
- `ImplementsBlocks`: a refinement whose mapping reads the whole text of a script,
  and which holds only for the scripts on the other side of section 5.

## 7. Not modelled

See `components` in `PROJECT.json` for the reason of each.

- *NTFS* (`fsys_ntfs.c`), the initrd and FB file systems, and what FileSystems
  leaves out of the others.
- *Computation on data*: codecs, MD5, fonts and escape sequences, the boot
  protocols.  They are functions of an image or a text with
  little state of their own, and most of the repository's lines; a model of them
  would repeat the code.
- *Below a state machine of the loader*: BIOS trampolines, A20, mode switches, the
  boot sectors and loaders, EHCI registers.
- *Commands* that parse arguments and call the components above, about 150.
- *Network boot*: TFTP and the PXE stack are the largest part with protocol state
  that has no module yet.
- What each module leaves out of its component is said in section 3.

## 8. Plan

1. Proofs: `ImplementsByteFile` of FileSystems for FAT and ext2, on the invariant of `CachedMap`:
   the bytes of a read are those of the chain, piece by piece.
2. Modules: NTFS with attribute lists and compressed runs (`fsys_ntfs.c`), a menu
   file's parser (`stage2.c` 2680-2845), `dd` (`builtins.c` 3517-4035), TFTP reads
   (`fsys_pxe.c`), `savedefault` as two writes (`builtins.c:13680`).
3. Composition: UsbTransfer below TrackCache's BIOS, `devread` of PartitionWalk
   above it, with the geometry of the drive used last (`disk_io.c:472`).
