# Verification of Cromwell

Cromwell is a free BIOS for the Xbox. A first-stage loader in the flash ROM
checks and unpacks the image; the image initialises the processor, the buses and
the video encoder, starts an interrupt-driven USB stack, detects the IDE drives
(and unlocks the hard disk), shows an icon menu and boots Linux or ReactOS from
CD, from a FATX partition, from native partitions or over the network. It can
also lock and unlock the hard disk, and replace its own image in the flash.

This directory holds TLA+ models of the parts of the program that keep state,
TLC configurations that check them on small instances, and TLAPS proofs of what
holds for every instance. `PROJECT.json` lists the components, the runs, a mutant for
every property, the source lines of every definition, the hazards and the theorems.

    tlc -workers 2 -config heap.cfg BootHeap      # any run of PROJECT.json
    tlapm BootHeapProofs.tla                      # any *Proofs module

Paths in this file are relative to the root of the repository.

## 1. Inventory

The program is one thread of control plus interrupt handlers: the timer
(`IntHandlerTimer0`), the SMC (`IntHandlerCSmc`: tray, power, AV cable) and USB.
There is no scheduler and no lock; components talk through global variables
and ordinary calls, and the only protection is `cli`/`sti` in `malloc` and `free`.

| Component | State | Operations | Hard behaviour | What makes it correct | Module |
|---|---|---|---|---|---|
| memory manager, `lib/misc/BootLibrary.c` | the table of 16 KB sectors | `malloc`, `free` | called from handlers as well; the length of a block is known only from marks in the table | blocks disjoint and large enough; free releases its block and no other | BootHeap, BlockPool |
| SMBus, `drivers/pci/i2cio.c` | registers of the controller | `ReadfromSMBus`, `WriteToSMBus` | the SMC handler uses the registers in the middle of a transfer; poll loops, retries | a successful call did its transfer; calls return | SmBus |
| SMC interrupt and DVD tray, `drivers/pci/BootInterrupts.c` | `DVD_TRAY_STATE`, `VIDEO_AV_MODE`, `fSeenPowerdown` | handler, eject, close | reports collected and read as one set; a failed query | the state follows the tray | TrayBoot |
| CD boot loop, `boot/BootFromDevice.c` | attempt, list of systems | `DetectSystemCD` | polls state set by interrupts, no timeout | a good disc is found, or the user cancels | TrayBoot |
| flash, `drivers/flash`, `BootLoadFlashCD` | the chip, retry counters, descriptor | identify, erase, program, verify | every step may fail; nested retries | success means the image is there; nothing else is touched | Flash |
| input, `drivers/usb/sys/{xpad,usbkey,xremote,risefall}.c` | current keys, history, URBs | probe, URB callbacks, `risefall_xpad_BUTTON`, disconnect | callbacks between two statements of a poll; plugging; repeats | one press, one event; edges are not lost | Input |
| USB descriptors, `drivers/usb/core/{config,message,usb}.c` | parsed configuration, bound drivers | `usb_parse_*`, `usb_get_string`, matching | lengths a device lies about | the interface is served by its driver | UsbDevice (partly) |
| USB request queues, `drivers/usb/host`, `core/{hcd,urb}.c` | endpoint descriptors, schedule, done list, URBs | submit, frame, interrupt, unlink, control message | the controller works on the same lists; a death of the controller | every URB comes back once and nothing freed is used | UsbQueue (partly) |
| USB hubs, `core/hub.c`, `host/{ohci-hub,hcd}.c` | tree of devices, address map, port status | `hub_events`, `usb_new_device`, `usb_disconnect`, start, stop | plugging between any two calls, lost answers, hubs below hubs | one address, one device; the tree settles | UsbHub (partly) |
| USB wrapper, `drivers/usb/sys/linuxwrapper.c`, `BootUSB.c` | wait flag, timers, drivers | waits, polling, start, stop | one global wait flag | waits end | UsbQueue, UsbHub, UsbDevice (partly) |
| menus, `menu/` | icons, selection, timeout, nested menus, dialog result | `IconMenu`, `TextMenu`, `DrawBootMenu`, `Confirm`, actions | globals shared by nested loops, timeout against user | unattended boot, confirmation | Menu, Settings, Console |
| start-up, `boot/BootResetAction.c` | phase | EEPROM, picture, backdrop, menus | the order | the console comes up as its EEPROM says | Console (partly) |
| EEPROM, `lib/eeprom` | the chip and its copy | read, two settings, checksums | several writes per setting | captions, copy and chip agree; settings survive a power-off | Settings, Console |
| hard disk password, `drivers/ide/BootHddKey.c`, `lib/crypt` | RC4 state | `HMAC_hdd_calculation` | stream cipher used in pieces, four versions | the drive's password | Console, Sha1 (partly) |
| video, `drivers/video` | mode, encoder and GPU registers | mode choice, timings, registers | fields cut into registers, three encoders | one picture size for GPU and encoder | Video, Console (partly) |
| pictures, `lib/jpeg` | tables, bit stream | decode | damaged files, restarts | the bitmap | Jpeg |
| IDE driver, `drivers/ide/BootIde.c` | drive table, passwords and error bit of the drive | init, security change, sector read | failing and late commands, power loss between commands, three address formats | no lock-out, truthful results, right sector | Ide (partly) |
| GRUB filesystems, `fs/grub` | buffers, current file | open and read on FAT, ext2, UFS2, ReiserFS | caches between files, bad sectors, a journal after a crash | the file's bytes or an error | GrubDisk, FatFs, Ext2Fs, Ufs2Fs, ReiserFs, Files |
| FATX, ISO 9660, `fs/fatx`, `fs/cdrom` | chain map, sector buffer | find, load | damaged chains and sectors | the file's bytes | CromwellFs, Files |
| boot configuration, `lib/misc/BootParser.c` | list of entries | `ParseConfig` | lines in any order, default by prefix | what the author of the file means | BootFlow |
| boot flow and loaders, `boot/` | staging memory, merged lists | detect, load, exit | what a failed attempt left in memory | the system chosen is started with its own parameters | BootFlow, Boot |
| ROM loader, `boot_rom/2bBootStartBios.c` | bank, try | copy, SHA-1, unpack, jump | bad reads and banks | only a whole Cromwell starts, and one does | BootRom, Boot |
| decompression, SHA-1, `lib/gzip`, `lib/crypt` | window, tables; context | `gunzip`, `SHA1*` | window wrap, overlapping copies | the bytes that were packed | Inflate, Sha1 |
| image tools, `bin`, `xbe`, `vml_startup` | – | `romcopy`, `xberepair`, stub | layout | the loader finds what the tool wrote | BootRom (partly) |
| Etherboot, `etherboot`, forcedeth | ring, ARP table, `dhcp_reply`, TFTP state, ELF state | DHCP, ARP, TFTP, load, start | lost, repeated and late frames, several servers | granted address, file in order, whole kernel | Etherboot (partly) |
| start-up code, processor and bus set-up, LED, version, library functions, decoding tool | – | straight sequences | – | – | not modelled |

How they interact. The menu calls the boot loop, the flash and the drive
security code; all of them poll buttons through `risefall_xpad_BUTTON`. The tray
commands and the SMC handler use the SMBus; the handler may also switch the video
mode and with that allocate memory. The filesystems read sectors through the IDE
driver, the boot flow reads files through the filesystems, the ROM loader
starts what the decompression leaves in memory. Where two components are not composed in one
module, the caller's module takes the callee's result as a choice over the
outcomes the callee's module allows: Menu takes the result of a boot as a choice, TrayBoot
has a step in which the query on the SMBus fails, Ide has reads asked for at any time.

## 2. Modules

Ghost variables (what was asked, what was handed out, bounds that were used) are named in
each module's head. An operator after a comment beginning with "Deviation" is a plausible
mistake in the definition after it and is used only as a mutant: with it in place, the
property must fail.

**BootHeap** splits `malloc` and `free` where an interrupt could fall: entering
the critical section, scanning the table, writing marks and `sti`. `memsmall`
is the table, `intr` the interrupt flag, `depth` and `call` the stack of
handlers. A scan also reads the entries behind the heap, as the code does.
**BlockPool** is what callers rely on: a pool of disjoint blocks. BootHeap
implements it with `blocks <- live` (`ImplementsPool`).

**SmBus** makes each access to a controller register one step of the context that
runs (`who`): register number and data are two steps, as are the read of the status and its write-back.
The handler may start between any two steps of the main program and runs to its `iret`; it queries the reason
first (`Query`) and then makes further reads and writes, of the PIC or the encoder. The controller and the devices (`flight`, `status`,
`mem`) are external.

**TrayBoot** composes the CD boot loop, the SMC handler (one step, interrupts are
off in it), the PIC with its set of pending reasons, the tray motor and the user. `told`
is a ghost: whether the last query that spoke of the tray failed, or returned CLOSING with other reports of it.

**Flash** is the whole path from the CD: reading `/image.bin`, identifying
the chip, erasing with its counted retries, programming with its retries,
verifying, and the outer loop of `BootReflashAndReset`. A cell is the set of its bits that
read 1; erasing sets, programming only clears.

**UsbDevice** turns the bytes a device sends into its settings and finds the drivers;
**Input** has the probe, the callbacks and the disconnect of the three drivers and the poll as
separate steps: a poll compares the keyboard's key and clears it, tests the remote's flag,
compares its key, clears it and resets the flag, and callbacks may run between any two of these
(`match` says where it is).

**UsbQueue** has the driver's lists, the controller that walks them one frame at a
time (`HcFrame`), the done list and the interrupt, unlinking over two frames, and
control messages that wait and time out. A round of the loops of `dl_done_list` and
`dl_reverse_done_list` is one step, and the controller may run between two.

**UsbHub** has the bus as a tree (`Places`: a port of a hub), what is plugged where
(`plug`), which ports are on (`on`), what listens to which address (`addr`), and the
driver's side: `child`, the address map, the hub being worked on and where `hub_events`
is in it. Every message may be lost: the read of a status, also during the debounce and after a reset, the
request to reset, disable or power a port, the descriptor and the status of a hub. `struct usb_hub` is one per port a hub can be plugged into, because a hub moved
to another port before its end was noticed is a second one while the first still exists.

**Menu** is a stack machine: `stack` holds the callers that wait, `run` the call
that executes. **Settings** puts the EEPROM behind it: the chip, the copy in RAM, and what the
items of the video menu write to both. **Console** puts that between the start of the machine and its
power-off: the password of the drive, the picture (**Jpeg**), the mode and its registers (**Video**).

**Ide** has detection, the unlock at boot, `LockHdd`/`UnlockHdd` with
`DriveSecurityChange` command by command, the register values of
`BootIdeReadSector` and what a drive makes of them, and a drive that may
refuse, fail, be late or lose power.

**GrubDisk** is `disk_io.c`: partitions, sectors, block lists; **FatFs**, **Ext2Fs**, **Ufs2Fs**
and **ReiserFs** are the filesystems over it, **CromwellFs** has the two that Cromwell reads itself, FATX and ISO 9660.
**Files** opens and reads files on all of them while sectors fail and heal; what cannot be read leaves the
old bytes of the buffer where the code goes on with them.

**BootRom** is the ROM loader, with the tools that build its images; hash, decompressor and the
answer to the SMC are constants of it. **Sha1** and **Inflate** are functions on bytes, **BootFlow**
has the parser of the configuration file, the lists made of it and the loaders. **Boot** is the
machine from power-on to the entry of the system, and gives those constants the real functions.

**Etherboot** has the client with DHCP, ARP, TFTP and the ELF loader (a turn of the loop of
`elf32_download` is one step), the receive ring, and servers and a network that lose, repeat and
delay. `bootp()` sends whatever is in its buffer: the DISCOVER at first, after an offer the REQUEST that was written
over it (`bp`). `ImagesAssumption` says what a linker guarantees of a kernel: its segments lie in
the file and overlap neither there nor in memory, nor the place the ramdisk is moved to.

The MC modules (MCBoot, MCConsole, MCEtherboot, MCFiles, MCFlash, MCIde, MCInput, MCSmBus,
MCUsbHub, MCUsbQueue) give the constants that a cfg cannot write; BootHeap and TrayBoot
are checked directly. The modules named `*Proofs` hold the theorems (section 4).

## 3. Runs

Distinct states in parentheses. All runs pass; each takes from seconds to three minutes.

* `heap` (138,276): `BlocksDisjoint`, `TableAccounted`, `ImplementsPool`. Malloc and free at three
  nesting levels. Eight sectors with sizes on both sides of every boundary of `t_malloc` (1
  sector, 4 sectors, runs of 5 and 6, refused) make every layout of neighbours happen,
  including runs over the heap's end.
* `smbus` (339,450): `TransfersServed`, `CallsReturn`. Two devices with two registers, two attempts
  instead of 50, two interrupts with two further transfers each, two errors: an interrupt inside a retry and
  two inside one call occur.
* `tray` (196,575): `TrayStateTrue`, `GoodDiscBoots`. Two attempts instead of 32, three actions of
  the user, one failed query. Reports merge in every way, because a pending interrupt may be taken late:
  `TrayStateTrue` covers them all, and names the three cases in which the state is wrong (CLOSED before the
  first report or after a failed query, CLOSING when that report was merged with another).
* `flash` (15,972): `SuccessMeansImage`, `OutsideUntouched`, `EventsPaired`, `Reflashes`, for ten
  chips: block and chip erase, as large as the image and larger, known, unknown, locked, not
  writable, too small, and one whose content begins with its own ID. Five faults exceed the
  four retries, so that a page can exhaust them and the outer loop is used.
* `input` (130,210): `PressTakenOnce`, `DevicesServed`, `PadNoticed`. Two controllers at once, of two kinds,
  keyboards, one of them with a controller's identity so that two drivers match, a remote, and devices whose descriptions
  are wrong, class descriptors longer than what is left among them; plugged twice, two presses, two keys
  down at once, one failed URB. `PressTakenOnce` counts three kinds of reports as another press, because the drivers
  cannot tell them apart: the first of two keys of a keyboard reported again, a button of a controller
  that another one has hidden, a repeat packet of the remote between two accesses of a poll. `MaxSlips` bounds the last two by one.
* `usbqueue` (949,482): `NoLostUrb`, `FreedIsReturned`, `TreeSound`, `WaitsEnd`. A period of two frames
  instead of 32 (`NUM_INTS`), with a device polled in every frame and one in every second, and
  control messages of two descriptors: enough for two endpoints on one branch, a removal while
  the controller stands on the endpoint, and a timeout that races with the answer. `MaxDrift = 0` leaves out
  that a second unlink of one endpoint takes its load from the branches twice; with one such drift there are 2,383,636
  states and the properties hold, in five minutes.
* `usbhub` (690,214): `AddressesExact`, `Settles`. Two root ports, one port of an external hub, one
  pad, five addresses instead of 127: the hub moves, is replaced by the pad and the other way
  round (two moves), and two messages of any kind or reports are lost. One move more than one port, one
  fault more than one retry can absorb. `AddressesExact` excepts the ports the driver leaves on without
  looking (`stray`): a lost request to disable a port or to reset it again, and a failed `hub_reset()`.
  `Settles` excepts what the driver gives up or never sees (`lost`).
* `menu` (42,282): `FlagsConfined`, `CaptionsTrue`, `EepromRight`, `ScreenRight`,
  `TimeoutOnlyOnce`, `UnattendedBoots`, for 89 consoles (every encoder, cable and standard, four versions, damaged
  EEPROMs, boot lists with and without a default) and thirteen keys on an attended one, enough to
  lock a drive, go through a second dialog and return; three icons and two items per screen scroll.
* `ide` (341,902): `SuccessIsTrue`, `OpenAtMenu`, `SectorRight`, `NeverLockedOut`, `BootReachesMenu`.
  Three boots (locking, the boot that must open the drive, one after another power cut), a CHS
  disk, a 28-bit and a 48-bit disk, blocks at the ends of every register field.
* `netboot` (1,668,931): `AddressGranted`, `FileInOrder`, `KernelWhole`, `EtherbootEnds`. Two servers (one
  behind the gateway), a ring of two, one frame of the client on the wire, any frame lost, any
  block repeated without end, two sessions, block sizes of 1 to 3 bytes and block numbers that wrap at 3, so that blocks of an earlier
  transfer meet the next one and a file is longer than its numbers. A repeat comes when the ring is empty, and not from a
  transfer a round of numbers behind the client (`RoundBehind`). `EtherbootEnds` says that only
  a network that repeats frames for ever keeps the client: a repeated block is answered and
  waited past without a count, and timeouts are looked at only when the ring is empty.
* `files` (57,831): `FilesExact`, `LoadExact`. Fourteen volumes with fragments, links, holes, indirect
  blocks, a journal of two transactions; three operations and one sector that fails and heals,
  so that what the first file left in the buffers, also of a CD's directory, meets the second.
* `boot` (130,013): `CromwellWhole`, `StartedAsConfigured`, `MachineStarts`. Three tries per bank instead of
  25, two bad reads, a window of sixteen bytes, configurations with every keyword, two attempts,
  one unreadable file. Kernels, ramdisks, loaders and configurations are below, at and above the
  limits of each way of loading: a file of exactly the limit is whole on a disk and is not loaded as such from a CD. (A configuration
  of 64 KB or more is left out: reading it overwrites the descriptor tables before it is cut at `MAX_CONFIG_FILESIZE`.)

The small tables stand for the large ones because the code treats their members alike: a
retry, a sector, a port or a block is compared with its neighbours and with its limit
only, and each bound leaves room for a first, an inner and a last one, or (retries) for
one that succeeds after a failure and one that exhausts them. Deadlock is not checked in `boot`, `files`,
`input`, `netboot` and `usbqueue`: there the machine is handed over, or the bounded script of the
environment runs out.

### Fairness

Weak fairness, on steps of a program that nothing can stop: the processor in the
main program and in the handler, and the SMBus controller's completion (SmBus); the loop, a
pending interrupt and the tray motor (TrayBoot); the flashing program, the user excluded
(Flash); the driver and a late drive that answers (Ide; the retry loop of a
failing read is deliberately left without, since it makes no progress); the load of a file
(Files); the client, its waits and the work on a block (Etherboot); the start of the bus, `hub_events` and the
interrupt and error reports of a hub (UsbHub). In Console, Etherboot, Boot and UsbQueue some of this
is written `[]<>P`: "the program does not stay for ever in a state in which its next step is always
possible", which is weak fairness of that step without naming it. Input needs strong
fairness for polls, `SF(Poll(b))`: menus poll all buttons in turn, and the poll of one is disabled
while that of another clears its key. The user, the one who plugs and pulls, and the
network never have an obligation.

## 4. Proofs

Every theorem is for all values of the constants, from the assumptions the modules state by
name (TLC evaluates them in the runs). Each proof has the same shape: the property is not inductive, an invariant that
is, is found with TLC, proved action by action, and implies it.

**BootHeapProofs.** That `free` stays inside its block follows from the marks in the table, and
that the run `malloc` marks is still free follows from the exclusion of critical
sections. `HeapInv` carries the types, `CriticalSectionsExclude`, `BlocksSized`, `MarksIntact`,
`BlocksDisjoint` and `CallConsistent` (what the pending call has established).
`ClearedInside` shows that the entries `t_free` clears for a block with intact
marks lie in the block; `RoundingLemma` relates the request to the sectors. `TableInv` adds what the
table says of sectors no block owns. Theorems: `TypeCorrect`, `NoSharedSector`,
`MutualExclusion`, `RoomForRequest`, `MarksKept`, `NeighboursUntouched` (an action property),
`SectorsAccounted` (`TableAccounted`) and `HeapImplementsPool` (the refinement of BlockPool).

**SmBusProofs.** The registers are shared without a lock. `SmBusInv` says of the context that
owns the controller (`Owns`) that the registers hold its request as far as it has
written them, that the status it writes back is the one
it read, that the transfer in flight is its own, and that the done bit it polls speaks of
it. The handler always owns what it uses, because it spins until the bus is free and the main
program stands still; the main program owns it as long as no interrupt fell into its call.
Theorems: `SmBusInvariant`, `TransfersAlwaysServed`.

**FlashProofs.** `FlashInv` follows a cell through erase and program: behind the write position it is
the image's, before it erased or old, outside it as it was; and the phase the callback
believes in is the one the code is in. Theorems: `SuccessAlwaysMeansImage`,
`OutsideAlwaysUntouched`, `EventsAlwaysPaired`.

The second part is the other end, the loader that finds the image (`RomSpec`, which Boot runs with the
operating system behind it): `CromwellAlwaysWhole`. First, where `imagebld` puts every byte: the patches it makes
one over the other leave in each bank the loader with its header, and the checksum with
Cromwell behind it or nothing (`BankIs`, `LoaderIs`, `ImageAtIs`). Then what a right hash
means. A copy of the loader whose hash is right has the header that was built (`SoundLoader`): a wrong byte in
the checksum gives a hash nobody computed, one behind it another section, and one in the
size a section of another length. A copy of an image whose hash is right comes from an undamaged bank
and is the image (`AcceptedImage`), so that what `decompress_kernel` leaves is what was packed.
`RomInv` carries `HeaderRight`, that once the loader has passed its check the header it goes by is the built
one, through the tries. The hypotheses are the named assumptions of BootRom: `HashAssumption`, that
the hash tells apart the sections that occur; `UnpackAssumption`, that the decompressor gives back
what was packed or nothing; `RomsAssumption` and `LoaderAssumption`, what the linker script guarantees and that Cromwell
fits the bank, which `romcopy()` does not check. `FaultsAssumption` leaves out a bad read of the upper bytes of the
header's size, with which the loader would hash memory behind its copy. The run
`boot` evaluates all of them with the real SHA-1 and inflate.

**UserProofs.** What the person at the machine drives, in four parts.

*Menus.* `timedOut` and `breakOutOfMenu` do not say who will read them. `MenuInv` adds what the
functions on the stack can be: a dialog's answers run over the dialog only, what an icon or an
item of the settings opens is never a list of boot entries, and the timer runs only before
anything was selected (`FlagsAlwaysConfined`, `TimeoutFiresOnce`, of `MenuSpec`, the menus by themselves).

*Settings.* An item of the video menu computes the new setting from the caption that shows the old
one, and writes the chip and the copy by different ways. `CaptionsInv` relates the three: outside the checksums the copy is the
chip's content, and the captions are what `VideoMenuInit` would write from it. It needs `MenuInv`, because which items can be on the screen says which settings can be
changed (`CaptionsAlwaysTrue`). `SettingsKeepMenus` shows that `SettingsSpec`, the menus with the EEPROM,
implements `MenuSpec`, so that the theorems on the menus hold for it. Console itself uses recursive operators and cannot be
reasoned about here; its steps are steps of `SettingsSpec` or leave its variables unchanged as long as the menus are
shown, by the way its actions are written.

*Tray.* `TrayInv` says that as long as reports are pending the one of the last movement
is among them, and if the tray turned back while OPENING was pending so is CLOSING; with what the last query told (`told`) that
gives the state for every set of merged reports (`TrayStateAlwaysTrue`, `LastMovementReported`).

*Buttons.* `PressInv` says where a press can be that no poll has returned yet: in the key a driver reported and the
poll that has matched it, in a key held whose first packet is still to come, in a key behind the first of the keyboard, in a
rising edge seen or to be seen on each controller; and that for every button there are no more of these than presses and
look-alikes not yet taken (`PressesTakenOnce`). It holds for any number of controllers and of keys held.

**IdeProofs.** `DisksAssumption` says that a disk has more than the three blocks read at boot,
fewer than 2^32, and in CHS mode no more than its geometry can name; it is what a
drive reports of itself. `AddressExact` shows that the registers name the block
in all three modes, by division with remainder. `Inv` adds to the
types: a security command under way has a computed password and nothing has been
reported (`ChangeInv`), where a boot can be (`BootInv`), the drive has obeyed
before the final IDENTIFY (`DoneInv`), a drive locked with this console's key is
locked for a reason (`KeyInv`), a drive in the wrong addressing mode is locked
(`ModeInv`), queued blocks exist on the disk (`ReadInv`). `ModeInv` is the
delicate one: a corrupt EEPROM makes `BootIdeDriveInit` return before it sets the
addressing mode, and only because such a drive is locked is no sector read from
the wrong place. Theorems: `SuccessAlwaysTrue`, `SectorAlwaysRight`,
`AlwaysOpenAtMenu`, `NoLockout` (an action property), `AddressExact`.

**EtherbootProofs.** Every reply reconfigures the client whichever it waits for, and a REQUEST sent again by `bootp()`
can bring an ACK where an offer is awaited. `BootpInv` says that from the
moment a reply is decoded, through the transfer of its extension file, until `bootp()`
looks at `dhcp_reply`, the configuration in force is the one `dhcp_reply` speaks of or is no
offer (`AddressAlwaysGranted`). `OrderInv` relates every block that is
in the ring, on the wire or at a server to the transfer it belongs to: each request opens a fresh
port, and `tftp()` waits for the block after the last one it took, so that a late block
is a repeat of one already taken (`FileAlwaysInOrder`). `KernelInv` follows the kernel into memory
(`KernelAlwaysWhole`): the blocks are the kernel's (`RightFile`), each is as long as the protocol says
(`LengthInv`), and the loader, which knows its place in the file only by counting, stands where
the bytes so far have brought it (`LoadInv`). Between two blocks its position, with the
sectors and bytes left to skip, is the end of the last block (`Between`); in a block it is the offset
in the block (`InBlock`); memory holds of each segment the bytes before that position
(`Have`, `Placed`), clear bss, and is otherwise as it was. Lemmas say what a turn of the loop
places, that borrowing sectors keeps the skip, and that `ImagesAssumption` makes the
order of the offsets the order of the placing. These two theorems have the hypothesis
`FilesFit`: a file has fewer blocks than there are block numbers, 65535 of 512
bytes in the code (about 32 MB). What happens at a wrap is covered by the run only, where the numbers wrap at 3.

**UsbQueueProofs.** The controller retires descriptors while the driver unlinks them, and a
completion may arrive in each of six places: the controller's queue, the list it has written
back, the list the interrupt took over, its reversed half, the unlink list, the wait. `QueueIInv`
says of a request in progress how its descriptors divide (`Busy`): those before the head of its endpoint
are in one of the done lists, exactly once and in order (`QueueInv`), the others are still the controller's; where an
endpoint halted, and that one which is skipped without being unlinked has a descriptor in a done list, so
that somebody will unskip it; and that somebody with polls left waits for every unlinked request (`WaitInv`).
Theorems: `UsbQueueTypes`, `UrbsFreedAreReturned` (`FreedIsReturned`), `DoneListsSound`, and
`UrbsOnTheTreeAreNotLost`: `NoLostUrb` whenever the operational interrupt endpoints hang on the periodic
tree. That they do is the run's `TreeSound`; the tree's branches are linked through the descriptors, and that a walk along
a chain reaches what a splice left in it is an induction over the chain.

**UsbHubProofs.** `HubInv` is the conjunction of named parts: what the wire can look like (`WireInv`), which
hub structures exist (`TreeType`, `TreeInv`), what the hub being worked on can be in each place of
`hub_events` (`WorkInv`, `WorkedInv`, `SteadyInv`), that addresses in use are exactly those
of the tree, those being assigned and those given back (`AddrInv`, `FreshInv`, `CcInv`), and what can hang
below a port nobody looks after any more (`QuietInv`, `StrayInv`, `ErrorInv`, `AboveInv`).
Theorem: `AddressesAlwaysExact`, for any number of hubs, ports, devices, addresses, retries, moves and lost
messages, with the exceptions for a port left on after a lost request to disable it or to reset it
again and after a failed `hub_reset()`, which cover also what hangs below a hub on such a port. A hub that moves
before its end is noticed is a second `struct usb_hub`; this was found while proving it.

What stays with TLC, and why:

* every liveness property (`CallsReturn`, `GoodDiscBoots`, `Reflashes`, `PadNoticed`, `UnattendedBoots`,
  `BootReachesMenu`, `EtherbootEnds`, `WaitsEnd`, `Settles`, `MachineStarts`): the provers handle neither
  fairness nor ENABLED;
* what is parsed, decoded, summed or found by walking a chain, which is induction over data:
  `DevicesServed` (what the descriptors of a device parse to), `EepromRight` (the sums over the EEPROM,
  RC4 and SHA-1), `ScreenRight` (the picture), `FilesExact` and `LoadExact` (the
  filesystems), `StartedAsConfigured` (the parser of the configuration) and `TreeSound`.

## 5. Observations without a run

What the models showed, or what had to be modelled as it is, and no statement in the repository
contradicts plainly enough to be a finding. Lines are in `PROJECT.json`.

Memory, bus, tray.
* A block of five sectors stays marked after `free`; a run granted in the last sectors reaches
  behind `MEMORYMANAGEREND`; `malloc` returns 0x100 rather than NULL when the heap is full;
  `free(NULL)` returns with interrupts disabled (`BootLibrary.c:452-454`).
* An SMC interrupt inside a call of the main program lets the call report success for the
  handler's transfer. A failed query of the interrupt reason counts as "tray closed".

Flash.
* An abort by the callback leaves START without END, against `BootFlash.h:16`. A 28xxx chip whose
  content begins with its own ID is taken for a 29xxx chip.

Menus, settings, picture.
* `Confirm_Result` survives: leaving the dialog with B repeats the earlier answer. A Hdd or Flash
  menu without a drive has no items and a null `selectedMenuItem`. With more than three icons the
  preselected one may be off the screen.
* The Hdd menu's item is decided once; "This drive is now unlocked" is printed after a failure
  too (`HddMenuActions.c:58-61`). `DrawBootMenu` allocates the size of a pointer for an item
  (`MenuActions.c:79`); the rounding of `malloc` hides it.
* EEPROM: results of writes are ignored; power lost between a value and its checksum leaves a bad
  checksum; `EepromSetWidescreen` wipes the letterbox bit; the copy's checksum fields are not updated.
* The key of the drive is computed and used even if no version was confirmed.
* JPEG: restart interval and tables survive from one picture to the next; SOF2 ends the search as if
  it were SOF0; a bad Huffman code leaves the run at 10 raw bits; runs past a block and `huffvals[256]` are unchecked.
* Video: VGA on Focus and Xcalibur frees an uninitialised `encoder_regs`; a failed PLL search is
  reported as success by `focus_calc_mode`; a bus error selects the wrong encoder.

IDE.
* A refused master password goes unnoticed (`BootIde.c:569`). A read whose data fails is repeated
  for ever without a new command (`BootIde.c:983`). A sticky error bit makes `DriveSecurityChange`
  give up before its first command. `BootIdeWriteSector`, which nothing calls, uses the 28-bit
  command beyond 2^28.

USB.
* Two controllers share `XPAD_current[0]`, and a repeat packet of the remote that comes between the test of the flag (`risefall.c:53`)
  and that of the key, or between `:81` and `:82`, is a second press. `xpad_irq` ignores the status of its URB; the remote and the
  keyboard stop polling after one error. `usb_kbd_probe` returns no value. The remote's second
  interface reads `endpoint[0]` past its array.
* A generic driver registered last becomes the device's driver; `hub_disconnect` is never called
  for a root hub.
* A device plugged in between the read of the status and the clearing of the change is lost until it
  is pulled, and so is one whose status cannot be read once while it is debounced (`hub.c:906-911`). After a lost request
  to disable a port, a lost second reset or a failed `hub_reset()` a port stays enabled, and the device behind it keeps an
  address that may be given to another.
* `ed_schedule` sets the endpoint operational before `balance` can fail; a stalled endpoint is
  never cleared; `add_timer` drops a timer when 20 are set.

Network.
* A repeated TFTP block is answered and passed over without a count (`nic.c:596-599`). Received frames not yet polled are lost at a reset. The cached ARP node is not cleared. The
  source port of TFTP data is unchecked. At a wrap of the block number `tftp()` takes block 0 for
  "nothing received yet". A file that ends before its last segment does is
  started all the same (`elf_loader.c:308`). `xstart32` has a `char length` that is negative from 128 on.

Boot.
* Tries 50 to 99 of the ROM loader read the two banks into which the image builder puts no image; its `cromloadtry` is always 1. The results of
  the PIC commands and of `decompress_kernel` are ignored. `writeBiosIdentifier` and `xberepair` rely on
  sizes nobody checks.
* Kernels above 8 MB are cut or overwritten; ELF kernels get neither append line nor initrd; a second,
  shorter append line keeps the tail of the first.
* FAT32 entries are not masked to 28 bits; ext2 holes read block 0; a failed sector is reported as
  success by `rawread`; cyclic chains never end (FATX) or recurse without bound (extended partitions).
  UFS2 cannot be mounted from the menu. ISO 9660 drops one-character directory names and loads a
  directory as a file.

## 6. Not modelled, and why

Drawing, texts, logging and delays are left out everywhere, except what `ScreenRight` is about. The compiler is assumed to keep
the order of accesses to globals written by interrupt handlers.

* Start-up code, processor and bus set-up, LED, version and library functions: straight sequences
  with no state another component reads back. The decoding tool runs on the build machine.
* USB: suspend, over-current, transaction translators, bulk and isochronous transfers have no user
  here; the timers of the wrapper only drive polls that the modules take at any time; locks are
  empty. Interrupts that call `USBGetEvents` while it runs are not modelled.
* IDE: ATAPI, transfer modes, El Torito, a second disk, `BootIdeWriteSector`.
* Network: PCI probing, the restart loop, the answers to ARP requests, the contents of options,
  the command line; NFS, TFTM and multicast are not compiled in.
* Files: JFS, XFS, `common.c` and the completion functions of `disk_io.c` are not compiled.
* Video: the Xcalibur's tables, fixed GPU registers, text and blending of pixels.
* At the hand-over: transfer mode of the drives, descriptor tables, screen text.

## 7. Plan

Next: lemmas about the functions of the readers that need no induction, and BootFlow's loaders split from its
parser as Settings is from Console, so that what they leave in memory can be proved.
