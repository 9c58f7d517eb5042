# A formal model of SystrixOS

TLA+ models of the kernel's own logic, checked with TLC on small instances and,
where TLAPS reaches, proved for every size of the tables. Every module names in
its header the C or assembly files it is translated from.

## 1. The system

SystrixOS is a one-processor x86-64 kernel with a shell in the kernel, programs
loaded from disk, and drivers. Two facts about its structure decide what can
interleave and what cannot:

* A system call runs with interrupts masked (`SFMASK` clears `IF`), and so does
  every interrupt handler. Only four places of the kernel turn interrupts on
  again: the shell's loop, the read of standard input, the loop of `FUTEX_WAIT`
  and the end of `kernel_panic`. So a call is one step of a model, except where
  it waits there; `sys_yield` does not schedule.
* Several interfaces run inside the timer interrupt: scheduling, the sound
  mixer, key repeat. They interleave with everything that runs with interrupts on.

What remains concurrent is the hardware: disks, cards, controllers and the
network work at their own pace while a driver polls, and go on after the driver
has given up. They are external to this repository and modelled from how the
drivers use them.

| Component | State it keeps | Operations | Interacts with | Hard behaviour | What makes it correct |
|---|---|---|---|---|---|
| processes, scheduler (`process.c`, `isr.S`, `scheduler.c`) | `PROC_TABLE`, `current_pid`, CR3 | create, run, destroy, timer, exit | everything that asks for "the" RUNNING process | preemption, stale pointers in slots that are used again | one live process, on memory of its own |
| loading, fork, exec (`elf.c`, `fork_exec.c`) | none of its own | `elf_load`, `sys_fork`, `sys_execve`, `sys_exit_group` | process table, address spaces | pid against slot, partial failure | a process that runs has an image |
| futex (`futex.c`) | state of the caller, deadline | wait, wake | timer | sleep against timer | a timed sleep ends |
| message passing (`ipc.c`) | 64 inbox rings, registry | send, receive, register, look up | process table, `current_pid` | receivers that wait, processes that die | FIFO inboxes, true senders |
| panic, watchdog, locks (`resilience.c`) | watchdog tick, lock words | `oom_kill`, `kernel_panic`, mutex, RW lock, dispatch | allocator, process table | running out in the middle of a call | the dead do not run |
| page allocator (`pmm.c`, `pmm_enhanced.c`) | buddy lists, free bitmap, reference counts | alloc, free, ref, unref | page faults, slabs, page tables | merging across orders | no page is free and used |
| kernel heap (`heap.c`, `heap_enhanced.c`) | block list, slab pages | malloc, free, realloc | all of the kernel | coalescing, telling the tiers apart | blocks tile the heap, no block is used twice |
| address spaces (`vmm.c`, `vmm_enhanced.c`) | page tables, VMA tables | map, unmap, protect, brk, fault | page allocator, process table | demand paging, splitting of areas | areas are disjoint; a page belongs to one space |
| kernel virtual allocator (`vmalloc.c`) | page bitmap, tracking list | vmalloc, vfree | page allocator | failure half-way | bitmap and list agree |
| memory checks (`mem_safety.c`, `security.c`) | quarantine, tracking table | tracked malloc and free | heap | reuse after free | a quarantined block is not handed out |
| swap (`swap.c`) | sector bitmap on disk, swapped-page table | out, in | disk, page tables | write order | a swapped page is found again |
| signals (`signal.c`) | pending sets, handlers | send, deliver | nobody calls it | | |
| files (`vfs.c`, `pipe.c`) | descriptors, inode table, mounts, pipe rings | open, close, read, write, dup, pipe | file systems, heap | shared ends, stale inodes | counts match references; a pipe is FIFO and freed once |
| journalled file system (`jfs.c`) | super block, bitmaps, inodes, journal | create, unlink, read, write, readdir | disk | crash between writes | no block has two owners |
| FAT32 (`kernel.c`) | allocation table, directory entries, open files | find, create, read, write, rename, delete | disk, `vfs.c`, shell | cached copies of start and size, cluster boundaries | a cluster is in one chain; a file holds what was written |
| shell (`kernel.c`, `shell.c`) | current directory, as a cluster and as a path | cd, mkdir, rm, write, cp, ... | FAT32, `vfs.c`, console | two records of one place | a command changes the file its user means |
| screen and line editor (`kernel.c`) | ring of rows, view, cursor, line, history | output, paging, editing | shell, pointer | paging while output goes on | the screen shows the latest rows |
| sockets of programs (`tcpip.c`) | socket table, ports, epoll watches | socket, bind, connect, accept, receive, poll, epoll | nothing delivers packets to it | numbers that are used again, reads in parts | a socket reads its own bytes; a watch is of the socket it was made for |
| network stack (`net.c`) | connection table, accept queue, ports, ARP table | listen, accept, connect, receive, close, HTTP get and serve, DNS, DHCP, ping | the card, which it polls; the shell's commands | loss, repetition and reordering of segments, slots that are used again | data of a connection is its peer's, in order; the queue points to open connections |
| network driver (`e1000.c`: E1000, RTL8139) | descriptor rings, their tails | send, poll | the card, which works at its own pace | full rings, slots given back too early | each direction is first-in first-out |
| input (`input.c`, `ps2.c`, `usb_hid.c`) | key and mouse rings, held key, grab | push, poll, tick | interrupts against the shell | full rings | releases are not lost |
| sound (`sound.c`) | channels | start, stop, mix in the timer | programs that exit | stale user buffers | a channel plays its own samples, each once |
| USB (`usb.c`) | devices, class tables, disks, xHCI rings | enumerate, command a disk, poll reports | controllers, devices, disk calls | devices that do not answer, commands that fail half-way, rings | one address per device, a sector holds what was written |
| disks (`ahci.c`, `nvme.c`) | command slots, queues with phase bits | read, write | file systems | late completions, blocks larger than a sector | an answer belongs to its command; a read returns what was written |
| graphics (`fbdev.c`, `gfx.c`, `gui.c`) | mode, two pages, window table, widgets, what is held | draw, flip, open, close, drag, resize, menus | input, the console | figures cut at the edges, pages after a change of mode, slots used again | nothing is drawn outside the figure; a flip shows what was drawn; windows own their widgets and move only while held |
| pictures, inflate (`png.c`, `jpeg.c`, `bmp.c`, `tga_pcx_qoi.c`, `inflate.c`, `image.c`) | none | decode, scale | files, heap | bit streams, sizes at the boundary | a picture comes out as it went in |
| libraries of programs (`libc/`, `user/`) | streams, containers, locks, TLS connections | strings, numbers, printf, sort, stdio, mutex, condition, join, handshake | system calls, futex | short reads and writes, overflow, full buffers, a wake-up between a look and a sleep | each does what its header says |
| browsers | | an application | | | |

`PROJECT.json` lists all components with their sources and their status.

## 2. How the modules fit together

The plan was to model the most important behaviour first: processes, message
passing, memory, files, devices, the network, and then what programs are linked
with. It has been carried out up to the components that section 7 names.

| Layer | Modules | Composition |
|---|---|---|
| processes and messages | `Proc`, `Ipc`, `Mailbox` | `Ipc` extends `Proc`; it implements `Mailbox` |
| memory | `Pmm`, `Heap`, `Vmm` | `Vmm` uses what `Pmm` promises: any free frame |
| files | `Jfs`, `Vfs`, `Pipe`, `Stream`, `Fat`, `Shell` | `Vfs` extends `Jfs` with descriptors and pipes; `Pipe` implements `Stream` |
| screen, keys, sound | `Console`, `Input`, `Gui`, `Draw`, `Sound` | |
| disks | `Nvme`, `Ahci` | `Ahci` with the sector calls of `kernel.c` above it |
| USB | `Usb`, `Msc`, `Xhci` | enumeration, then the disks and the rings it finds |
| network | `Nic`, `Tcp`, `Net`, `Sockets` | `Nic` holds both cards and the choice between them; either implements two queues of `Mailbox` |
| libraries and decoders | `Library`, `Containers`, `Threads`, `Stdio`, `Tls`, `Inflate`, `Images`, `Jpeg` | `Threads` calls the futex of the kernel; `Images` extends `Inflate` |
| proofs | `ProgramProofs`, `FileProofs`, `NetProofs`, `DeviceProofs`, `MemoryProofs`, `ThreadProofs` | each extends the modules it is about |
| model checking | `MCPrograms`, `MCServices`, `MCMemory`, `MCFiles`, `MCDevices`, `MCLibrary` | |

An `MC` module holds several settings: modules it extends, and instances
with constants of their own, which share no state. The variable `part` picks one
in the initial state and only that one moves, so the states of the settings add
up and do not multiply. A property of such a module says, setting by setting,
what it is about.

Some modules have a constant `Careful`, `Patient` or `Tidy`. When it is TRUE, programs,
users or peers keep to what the code silently relies on: a buffer stays valid
while it is played, a file is open once, a slot of the card is not handed out
while it is being sent. What happens otherwise can be seen by setting it to
FALSE; section 4 says which properties break.

## 3. Modules

### Proc, processes and the scheduler

One variable per global of the kernel: `pcb` is `PROC_TABLE`, `current_pid` the
global, `cpu` what the processor executes and CR3. Memory is three pools with
identities: address spaces (`spaces`, and `loaded` for those that hold a
program), kernel stacks and VMA tables. Identities are handed out again after a
free, so stale pointers are visible.

| Action | Code |
|---|---|
| `RunProgram` | `elf_load` / the `run` command: `process_create`, map, `process_run` |
| `ShellOutOfMemory`, `OutOfMemory` | `pmm_alloc` fails: `oom_kill`, then `kernel_panic` |
| `SysExit` | `sys_exit_handler` and `scheduler_exit` |
| `SysExitGroup`, `SysExecve`, `SysFork` | the calls of `fork_exec.c` |
| `FutexWait`, `FutexTimeout` | `sys_futex`: going to sleep, waking at the deadline |
| `UnhandledFault` | an exception no VMA helps with: the fault screen |
| `TimerTick` | `timer_isr`: save, round robin, `current_pid`, CR3 |

`Calls` says which of the calls programs make. An empty path (a call that
returns an error and changes nothing) is no action.

### Mailbox and Ipc, message passing

`Mailbox` is the promise: inboxes are bounded queues, a message enters at the
back of one and leaves once, from its front. `Ipc` extends `Proc` with
`g_queues` (ring, head, tail, count, waiting) and `g_servers`. A message is a
member of `Types` with two stamps: `from`, what the kernel writes
(`current_pid`), and `src`, a history of who really sent. A name is a stem (its
first 15 characters) and a tail (0 or more), which is all that the two
comparisons of the code tell apart.

### Pmm, physical pages

`heads`, `node`, `bfree` and `refcnt` are the tables of `pmm.c`: heads of the
lists by order, the links stored in the free pages, the bitmap and the reference
counts. `used` is a history of the blocks clients hold. `pmm_alloc_order` and
`Free` (`pmm_free_order` and `pmm_unref`) are the two actions; the loops that
split and merge are the functions `SplitTo` and `Merged`. `pmm_ref` has no
caller, so a count is 0 or 1. The allocator is exact only while no two blocks
are merged by a wrong bit: see the run `pmm_deep`.

### Heap, slabs and blocks

Memory in units of 16 bytes. `mem` is the block heap unit by unit, `slabs` the
slab pages by page number, `cache` the heads of the chains. `live` is a history
of what clients hold and what they wrote. `Malloc`, `Free` and `Realloc` are the
entry points with the client's writes; below them `block_malloc`, `block_free`,
`slab_alloc` and `slab_free` are functions on the state. `LooksLikeSlab` are
contents that `ptr_in_slab` takes for a slab header, `WORD` the page numbers
that fit `next_slab`; the run has none of the former and only pages below the
latter.

### Vmm, an address space

One level of page tables: an entry of the directory is nothing, a huge page of
the kernel's identity map, or a table. Mapping the first page of a huge one
splits it into identity entries. `vma` is the table of areas, `brk` and
`mmap_bump` the two ends that grow. The actions are the calls (`sys_mmap`, `sys_munmap`,
`sys_mprotect`, `sys_malloc`, `BrkGrow`, `BrkShrink`), a store, the two page faults
(copy on write, and on demand), `Fork` and `NextProgram`, which tears one space
down and makes the next. `child` is the space a fork made. A page holds a value,
so the copies of copy on write can be told apart. A loop over pages is a sequence
of functions applied one after the other (`InTurn`).

A call that finds no frame goes the way of the code: `pmm_alloc` runs `oom_kill`,
which finds no victim and panics; `kernel_panic` marks the program dead, destroys
its space while CR3 still leads to it, and returns; the allocation is tried again
with one of the frames just freed, and the call goes on. `OutOfMemory` is the end
of every such call: `running` is FALSE from then on, the entries stay, and of the
frames freed up to `MaxRest` are taken by the rest of the call, whichever they are.
The dead program may still store (`Store`), until `NextProgram`, which does not
destroy a space twice. `Killed` is the outcome as a set. `sys_malloc` moves the
break or not, as the missing frame was one for a table or for a page.

`Careful` is what the
properties need of a program: it forks, protects and gives back only pages it was
given, and forks before it has pages in the identity map (section 6 says what the
code does otherwise).

### Jfs, the journalled file system

`fs` is one record: the super block in memory and on disk, inode types, pointers
and sizes, the block bitmap, the data blocks, the journal ring and the journal
sectors. The helpers of `jfs.c` are functions from record to record, so a call
is their composition in the code's order. `Restart` is `jfs_init` after a power
loss at any point, the super block found or not. `written` is a history of what
was stored where. Block 0 can be allocated and cannot be pointed to.

### Vfs, descriptors on top of Jfs

`Vfs` extends `Jfs` with `fd_table`, `inode_table` and the heap blocks that
hold pipes. It starts after the first directory has been made, which uses up
block 0. Paths lead to JFS, which is mounted at `/jfs`.

### Fat and Shell, the volume at the root and its commands

`Fat` is the FAT32 code of `kernel.c`: `fat` the chains, `dir` one directory,
`sec` the data sectors, `fds` the open files with their own copies of start,
size, cluster and offset. Positions count sectors. `text` is a history of what a
file should hold. An append that starts behind the chain of its file (section 6)
writes into the cluster that follows the last one; `Careful` leaves it out.

`Shell` is the commands above it and the walk along a path. A cluster is a row of
cells of 32 bytes: entries, if it is a directory's, pieces of text, if it is a
file's, and what was left in it, if it is nobody's, for nothing clears it. A file
takes its cluster at its first write and has one; longer chains are `Fat`'s.
`cwd_clus` and `cwd_path` are the two records the shell keeps of its directory;
every command uses the one the code uses. An entry has, as a history, what the
user of the commands meant it to hold.

### Stream and Pipe

`Stream` is the promise: bytes leave once, in the order they came in, and no
more than the capacity are inside. `Pipe` is the ring of `pipe.c`: a write or
read of several bytes is one step.

### Console, Input, Gui, Sound

`Console`: `con` is the ring of rows (`backbuf`), the screen, the cursor, the
view and the pointer drawn by inverting a cell; `edit` the line of `read_line`,
`hist` the lines it remembers. A character, Enter or backspace brings a paged view
back first (`Live`), also where it does nothing more (`Snap`); the arrows and
Delete are returned before that and edit the line in the view as it is. `rows`,
`said` and `paged` are histories.

`Input`: keys and mouse put bytes on one wire (`wire`), a decoder takes them off
it, and there are four of them (`Readers`): the console's two, the desktop's
loop and `ps2.c`, each with its own modifier flags and its own piece of a
packet. What they make of the bytes goes to `key_ring` and `mou_ring`, which
programs poll. `Tick` is key repeat in the timer, of the key that is held with the
shift it was pressed with (`held`). `Slide` is a movement of the
mouse of which bytes may be lost.

`Gui`: `wins` and `wgts` are the two tables, `hold` what is dragged or resized,
`menus` and `shell` the rest. Places are horizontal and the part of a window
that is hit stands for the vertical one. With `Tidy` a slot is used for one window
only and nobody takes hold of an edge: `gui_window_create` takes a slot that is
not visible with the widgets it had, and `gui_cursor_move` reads the codes of the
edges as bits.

`Sound`: `mix_ch` are the eight channels, advanced by `sys_snd_mix_tick` in the
timer; a channel has the address of its samples, so it plays those of the
program whose space is loaded (`running`).

### Nvme and Ahci, disks

`Nvme`: `ioq` is the pair of rings with the driver's indices, phase and command
identifier, `dev` the controller with the commands it has fetched, `media` what
it holds, `call` the sector read or write under way. The controller is external:
`Fetch` takes entries in order, `Execute` carries any of them out and posts the
completion, also after the driver has given up (`GiveUp`). `disk` is a history
of what a read should return, `got` of what the latest answer was.

`Ahci`: one command slot and one buffer a port. The drive is external: `Move`
moves one sector between buffer and cache, `Destage` one from the cache to the
platter, `Complete`, `Break` and `PowerCut` end a command or the machine. `kept`
is a history: the values each sector may hold, one after an answer, two while a
write is under way or was broken off.

### Usb, Msc, Xhci

`Usb` is enumeration: controllers are started in the order of the PCI bus, ports
are scanned, and `todo` is the stack of what `usb_enumerate_device` is in the
middle of, since a hub calls it again; `at` is the stage the first of them has
come to. Devices are external: `bus` is the address each listens to. `BusFaults`
names, stage by stage, the transfers that may be lost, answered too late or
refused.

`Msc` is a command to a USB disk: wrapper, data, status. The drive is external:
its phase, what it holds, the endpoints it has halted. Every transfer may time
out, with or without having reached the drive.

`Xhci` is the command ring, the event ring and the slots, entry by entry with
cycle bits; the controller takes commands, may refuse one and posts events.

### Nic, network cards

For the E1000, `rx` and `tx` are rings of descriptors with the card's index
(`head`) and the driver's (`tail`). The card is external: `Arrive` fills a
receive descriptor, `Transmit` sends one. `Poll` and `GiveBack` are the two
halves of a round of `e1000_poll`, the delivery and the return of the slot;
`Send`, `SlotFree`, `Submit`, `Drop` and `SendReturns` are the steps of
`e1000_send`, between which the card works on. `ImplementsQueues` maps both rings
to two queues of `Mailbox`: what the card owns or has filled, in order.

The RTL8139 has four transmit slots (`tsd`, `cur_tx`) and one receive
buffer in words, into which the card writes at `cbr` and from which the driver
reads at `rx_ptr` and tells the card by `capr`. The steps of a poll are actions
of their own (`Look`, `Acknowledge`, `ReadCbr`, `Deliver`, `Drained`), because a
frame may arrive between any two of them.

### Tcp, Net, Sockets

`Tcp`: `conns` is `tcp_conns`, `queue` the accept queue from its head, `port` the
next local port, `task` the command that runs and how far it has come: `serve`
and `netcat` listen, accept, receive and close; `wget` connects, asks, waits for
the end and looks at the answer. A packet is handled when somebody polls the
card, one packet a step (`Receive`, with the branches of `handle_tcp` below it).
The peers follow scripts: `sent` and `heard` count the packets of a conversation,
`told` is what we sent that they wait for. With `Faulty` any packet a peer has
sent may arrive at any time, any number of times or never. Sequence numbers are
left out, because the code compares none. A unit of data carries the
conversation it was sent in and its place there, so a property can tell whose
it is.

`Net`: `arp_table`, the flags `icmp_got_reply`, `dns_txid`, `dns_result` and
`dhcp_offered_ip` that the handler of received frames writes and the waiting
call reads, `call` the one that waits. `air` are the frames under way: they
arrive in any order, twice, late, or not at all. `claimed` is a history of what
each host last told.

`Sockets`: `socket_table`, `next_port`, the watches of one epoll instance, and
`wait`, the call that waits in its loop. `came` and `took` are histories of the
bytes a socket was sent and read, `asked` of the watches. `epoll_ctl` takes any
number, also one that no socket has. Nothing calls
`tcpip_handle_packet`, so the module says what the code does once something does.

### Library, Containers, Threads, Stdio, Tls

`Library` is functions: a string is a sequence of characters, a word a number
below `2^W`, and what wraps around in C does here. It holds the strings and
numbers of `systrix_libc.c`, the copies and conversions of `user/libc.c` that
differ from them, the two printf cores for whole numbers, and what the commands
of the shell do with texts, names and dates. `Containers` is bitmap, list,
builder, sort and search. `Stdio` is the streams of `user/libc.c` over `read`,
`write` and `lseek`, each of which may fail or do less than it was asked. `Tls`
is the handshake with perfect ciphers against an external server; what goes `up`
and `down` may be cut off at any place.

`Threads` is what the threads of a program share. `lock`, `seq` and `done` are
the words of a mutex, of a condition and of those who join; `at` says where in
`pthread.h` a thread is, and `c` what it saw of a word. One step is one access to
a word, so all orders of two threads occur; `sys_futex` is one step, because a
call runs with interrupts masked, and `futex_table` are its slots. A call that
finds no slot returns at once, which the callers take for a wake-up. The second
half of the module is `SRing` with the two accesses of either side.

### Draw

A surface is a screen with a colour for each pixel. The functions of `fbdev.c`
and the sprite and tile calls of `gfx.c` map one surface to the next. The second
half is the state the two files keep: the mode, the line the hardware shows
(`y_offset`), and the two pages `gfx.c` derives from the height once. `video`
says for every line of memory which frame it was painted with last, `shows`
which frame the latest flip put on the screen.

### Images

The decoders as functions from a file to a picture, and, for the runs, encoders
with all the freedom the format leaves: how runs are cut, which filter a row
has, which predictor or table is used. An encoder is part of what is checked
against, not of what is modelled. `Inflate` is `inflate.c`, which PNG uses.
`Images` is all other decoders but that of JPEG, the choice between them by the
first bytes (`image_probe`), and scaling; `Jpeg` is `jpeg.c`. A BMP, TGA, PCX,
QOI or JPEG file is its bytes, header and all, so what each refuses, and with
which error, is part of the decoder; a PNG is the sequence of its chunks. What a
table that was not filled or a byte behind the end holds is `Junk`.

## 4. What the runs check

Six runs pass. Each has one `MC` module and asks a few properties of all its
settings.

### `programs` (MCPrograms)

With all calls, execve, fork and memory exhaustion (`every`): one live process
at most (`OneLiveProcess`), on memory of its own (`LiveResources`), and DEAD
slots never change (`DeadIsFinal`). With programs that only exit, sleep and fault
(`plain`): their memory is accounted for (`PlainSpaces`), `current_pid` catches up
with the program that keeps the processor (`PlainPids`), a timed sleep ends
(`PlainSleeps`).

Bounds: 4 slots, 2 spaces, 3 stacks and VMA tables. That is one more program than
fits, so reuse and failure happen.

### `services` (MCServices)

| Setting | What it is | Bounds |
|---|---|---|
| `ipc` | messages while programs start, exit and are preempted | 2 slots, rings of 2 that wrap and fill up, 2 entries for 3 names |
| `lossy` | two clients of one host and a download on a faulty network | 3 connections, a queue of 2, 1 unit of data |
| `ordered` | longer streams on a network that keeps packets | a queue of 1, so that it overflows, 3 units, a buffer of 3 |
| `lookups` | queries for two names, answered late and twice | 8 identifiers, 2 attempts, 2 calls |
| `table` | hosts that change their cards | 3 hosts, a table of 2, 2 changes |
| `leases` | DHCP with two offers | 3 attempts, 2 calls |
| `reader` | one socket read in parts | 3 bytes, reads of up to 2 |
| `watcher` | two sockets watched, closed and opened again | 2 watches |

Messages: inboxes implement `Mailbox` (`ImplementsMailbox`), a message never names
a live process that did not send it (`NoForgedSender`), a lookup finds the latest
registration (`LookupFindsLatest`). `QueueSound`: the accept queue points to open
connections, once each. `OwnData`: data stays in its conversation. `TableTrue`: a
host is in the ARP table once, with the card it told of last. `ResolvesRight`: a
name resolves to its own address, whatever comes late or twice. `StreamsKept`: a
stream is read from its start without a gap where the network keeps packets, a
socket reads its own bytes, a watch is of the socket it was made for, a ping is
answered by the host itself, the address taken from DHCP is the one asked for.

### `memory` (MCMemory)

| Setting | Bounds |
|---|---|
| `pair`, pages | 5 pages in blocks of 1 and 2, freed in any order |
| `stack`, pages | 7 pages in blocks of 1 to 8, the last freed first |
| `heap`, blocks and slabs | 10 units of blocks, 2 slab pages of 4 units, requests of 1 to 3 units, 2 contents |
| `space`, address space | regions of 2 pages, one below and one above the end of the identity map, 5 frames, 1 area, requests of 1 and 2 pages, one frame at most for the rest of a call (`MaxRest`) |

`PagesAccounted`: a page has one user or a set bit and is on the right list.
`FramesAccounted`: a frame has one use, as a page, a table, the child's or the
kernel's, or is free once. `PagesKeep`: what a program stored in a page stays, and
a child has what its parent had stored, whatever either does. Both hold when the program is killed for want of a frame as
well: what it had is free once, its successor is given nothing twice, and the
child of its fork keeps what it had. With five frames, one of them the kernel's,
they run out for a page, for a table, in the middle of a fork of two pages and
in the middle of a `malloc` of two; the rest of the call takes one of those that
are freed, or none. `ContentsKept`: what a client of the heap
wrote stays, through `realloc` as well. `HeapSound`: the blocks tile the heap, a
slot is free or used, chains are complete. The heap is full of blocks at five of
one unit and at two of three, and small requests reach it once both slab pages
are taken, so all merges, first fits and moves between the tiers happen.

### `files` (MCFiles)

| Setting | Bounds |
|---|---|
| `tree`, JFS | 4 inodes, 4 blocks, 2 names, one restart |
| `across`, JFS | 2 pointers, ranges from one block into the next and past the last pointer |
| `files`, descriptors | 3 inodes and blocks, 3 free descriptors, 2 open inodes, units of one file written and read one at a time |
| `dups`, descriptors | 3 free descriptors, 2 open inodes, 2 pipes |
| `volume`, FAT32 | 2 clusters of 2 sectors, 2 entries, 2 open files, a file of exactly one cluster at the start |
| `shell` | 2 clusters of 3 cells, so a directory or a text in another and one that is full, texts of 1 and 2 pieces |
| `pipe` | a ring of 3 bytes, writes of up to 4 |

`BlocksOwned`: a block or cluster is in one file or free. `NamesLive`: names stand
for inodes in use, the counts are true, the journal on disk has the latest entry,
and the two records of the current directory agree. `TextsKept`: files hold what
was written, through any descriptor, and what the commands of the shell were
asked to put there; a descriptor stays on its file. `RefsMatch`: an inode is in
the table as often as descriptors lead to it. `NoPipeLeak`: no pipe is lost. The
pipe implements `Stream` (`ImplementsStream`).

### `devices` (MCDevices)

Twenty-one settings. `hist`, `line` and `paged` are the screen with a ring of 3 or 5
rows, so it goes round; `keyboard`, `mouse`, `loop`, `lossy` and `wheel` the input
with rings of 3 and 2, which overflow (in `loop` two decoders share the wire, in
`lossy` the desktop has it alone and a byte of the mouse may be lost); `windows` three slots for windows and two for
widgets; `mixer` two channels and two programs; `drive` one disk of two sectors
with timeouts, errors, memory that runs out and power cuts, `drives` two disks
behind the sector calls; `failing`, `late` and `native` the NVMe queues with
errors, with commands carried out after the driver gave up, and with two
sectors a block; `nic` both cards, with frames of one and two words, which take three and four, in a buffer
of eight: two frames wait in it, and go round its end; `ports` and
`quiet` the enumeration of ten devices on four controllers with and without lost transfers; `stick` a
USB disk of two blocks and four commands, any transfer of which may fail;
`refused` and `givenup` the xHCI rings, which go round.

| Property | Says |
|---|---|
| `ConsoleTrue` | the ring holds the latest rows, the screen shows them or older ones in order, the line and its history are what was typed; the key that repeats is held, events are marked with the shift they were translated with, packets are whole, all but one when a byte is lost |
| `InputKept` | keys arrive in order and each once, the latest packets can be polled |
| `WindowsSound` | windows stay on the screen, move only while held, own the widgets they show |
| `SamplesOwn` | a channel reads inside its sound, in the memory of its program, each sample in turn |
| `AnswerIsOwn` | an NVMe command that is answered gets its own answer, whatever was given up before it and completed late |
| `SectorsKept` | NVMe, SATA and USB disks answer the command that waits; a sector holds the latest write that was answered, or one that failed since, across resets and, back to the latest flush, power cuts |
| `BusSorted` | no two devices listen to one address, entries lead to devices of their class, what did not fail is found; no entry of the xHCI rings is left out or read twice |
| `NothingForgotten` | no frame stays in the buffer of the RTL8139 without the status that makes the next poll look |
| `ImplementsCardQueues` | both directions of either card implement `Mailbox` |

### `library` (MCLibrary)

Functions are called with every argument of a small set (strings of up to 6
characters over 2 or 3, words of 8 or 16 bits with the values around each
boundary, every combination of printf flags, pictures of up to a few pixels in
every format and depth) and compared with a definition of what they should give.
For the decoders that is an encoder: they undo it, and refuse or cut short a
file that was damaged or truncated. For a figure it is the set of its pixels,
cut at the edges of a screen of 6 by 5 that is kept inside a margin of 16, and
for a layer of 3 by 2 tiles the pixel of the tile that lies there.

The rest are state machines in the same run:

| Setting | Bounds |
|---|---|
| `ring` | 2 slots, indices that wrap at 4, 5 pushes |
| `pair` | 2 threads that join each other, one slot to sleep in, 2 signals or broadcasts |
| `crowd` | 3 threads on a mutex, of which one joins, 2 slots |
| `bitmap`, `list`, `builder` | words of 3 bits, 3 nodes, a builder that doubles twice |
| `stdio` | a file of 3 bytes and buffers of 2 |
| `tls` | one handshake, cut off anywhere |
| `pages` | modes of 2 and 3 lines, one refused, 6 lines of memory, 3 frames |

Properties: `CallsRight` (strings and numbers), `StoresRight` (the state
machines), `PicturesRight` (decoders and drawing). Of the threads `StoresRight`
says that one at most holds the mutex, that who sleeps is in the table and the
table holds no one else, and that nobody sleeps on a word whose change has been
waked for.

### Where the code and what it says of itself part

Each of these runs checks one property that a document or a comment of the
repository states, and TLC finds it violated.

| Run | Property | What happens |
|---|---|---|
| `proc_fork` | `RunningHasImage` | the child of fork has no image: its pages go to the slot after it |
| `pmm_deep` | `FreeCountReal` | with three orders and frees in any order, pages in use count as free |
| `jfs_restart` | `SurvivesRestart` | names do not survive a restart |
| `vfs_pipeend` | `PipeHeld` | closing one end of a pipe leaves the other on freed memory |
| `tcp_download` | `DownloadHasBody` | a download that lasted until the server's FIN returns no body |
| `tls_handshake` | `Connects` | a server that accepts the client is given up on: its ChangeCipherSpec is decrypted |

### Deadlock and fairness

Deadlock is not checked: the machine may halt on a fault or a panic, the shell
has nothing to do once the table is full, and bounded scripts of calls end.

`TimerTick` is weakly fair: the PIT fires every tick, and its handler runs
whenever interrupts are on, which is when the action is enabled. `FutexTimeout`
is weakly fair: the loop polls `pit_ticks`, which the same timer advances.
Nothing else is fair: a program need not make any call, the user need not type
one, and a drive or a peer need not answer.

## 5. What is proved

Fifty-six theorems in six modules. Each is proved for every value of the
constants that satisfies the assumption named; the run of the same component
checks the formula on a small instance. All of them are proved alike: an
invariant that is inductive, one lemma for each action or call that keeps it,
and the property from it.

### Programs and messages

`ProgramProofs`, for `Proc` from `ProcAssumption` (the table has a slot, the
pools are of any size):

* `Typing`: `ProcSpec => []TypeOK`.
* `SingleProcess`: `ProcSpec => []OneLiveProcess`.
* `OwnedResources`: `ProcSpec => []LiveResources`.
* `DeadForEver`: `ProcSpec => DeadIsFinal`.

`OneLiveProcess` is not inductive: an exit leaves no live process only if the
RUNNING slot it finds was the only live one and the only RUNNING one, and the
timer keeps that only if no slot was READY before it. The invariant `ProcInv`
adds that no slot is READY between two steps, that the space of an image is
allocated, and that a live process is the one on the processor and owns its
resources, as long as the machine can execute. The condition is needed: after a
fork two slots are RUNNING, but the child cannot execute an instruction
(`loaded` does not hold its space) and the fault screen follows. There is one
lemma per action; `TimerKeeps` shows that the timer, with one RUNNING slot,
comes back to it round the table and changes nothing but `current_pid`.

* `NoSpaceIsLost`: `ProgramsSpec => []PlainSpaces`, for the programs that exit,
  sleep and fault.

`PlainInv` adds to `ProcInv` that a program that runs or sleeps has an image, so
it is the live process whatever happens, and the space an exit frees is the one
in CR3. With execve or fork that is false, and spaces are lost.

For `Ipc`, from `IpcAssumption` as well:

* `IpcTyping`: `Spec => []IpcTypeOK`.
* `Rings`: `Spec => []RingConsistent`.
* `IpcIsMailbox`: `Spec => ImplementsMailbox`, the refinement, for every depth,
  table size and number of programs.
* `Lookups`: `Spec => []LookupFindsLatest`.
* `HonestSenders`: `Spec => []NoForgedSender`.

`IpcInv` adds to `ProcInv` that a waiting receiver spins with the processor, so
that the branch of `sys_ipc_send` that makes a receiver READY is never taken;
it would break `ProcInv`. `EnqueueAppends` and `DequeueTakes` hold the arithmetic
of a ring modulo its depth: storing at the tail appends to the contents read from
the head on, and moving the head takes their first element. `Lookups` rests on
`RegistryInv`: a stem has one entry at most, it holds the latest pid registered,
and a stem without one was never registered. `HonestSenders` is the argument that
is easy to get wrong. `current_pid` lags behind the program that runs, so the
stamp of a message may be that of an earlier program; `SenderInv` says it is then
the pid of a process that is DEAD, `GoneStays` that DEAD ones stay so, and
`PidsKept` that no later process is given its pid.

### The kernel heap

`MemoryProofs`, for `Heap` from `HeapAssumption` (sizes are positive, a slot of
each class fits a page, pages are finitely many) and `Clean` (no contents look
like the header of a slab page, page numbers fit `next_slab`):

* `HeapContentsKept`: `HeapSpec => []ContentsKept`.
* `HeapIsSound`: `HeapSpec => []HeapSound`, that is the types, `BlocksTile`,
  `SlotsAccounted` and `ChainComplete`.

`Clean` is what the code relies on without a check; section 6 says what it does
otherwise.

`BlocksTile` speaks of the headers that a walk from the first unit finds, and a
unit in the middle of a block may hold what was a header before a merge, with
its `free` bit set. The invariant `Good` therefore names the set of headers: it
tiles the heap (`Tiles`), no two free ones follow each other (`Apart`), and the
used ones are those of clients, whose contents lie in them (`Owned`). Of the
slab pages it says that some list of distinct slots, linked from `free_head` to
the end, holds exactly the slots no client has (`Listed`, `Spare`), and that a
list of distinct pages links those of a class from its `cache` (`Chained`).
No two clients hold one pointer (`Distinct`).

The walks of the code are recursive functions. `WalkExists` gives the function,
and `BlocksFound`, `ListWalked` and `ChainWalked` show that the walk visits what
the invariant names. `block_free` merges with everything free behind the block;
`RunOfOne` shows that this is one block at most, for the invariant held before.
A request is shown to grant a place nobody has and a release to give up one
place, first for each tier and then for `heap_malloc` and `heap_free`;
`heap_realloc` is a grant, a copy and a release.

### The address space of a program

`MemoryProofs`, for `Vmm` from `VmmAssumption` (a region has a page, the identity
map lies within memory, the kernel's frames are frames) and `Careful`, for any
number of regions, pages, frames and areas and requests of any length:

* `SpaceTyped`: `VmmSpec => []VmmTypeOK`.
* `FramesHaveOneUse`: `VmmSpec => []FramesAccounted`.
* `PagesAreKept`: `VmmSpec => []PagesKeep`.

The three need each other: a store is seen in one page only if no two share a
frame, and a frame is given back only once if the tables say whose it is. The
invariant `SpaceInv` is `VmmTypeOK` and, while the program runs, `SpaceGood`,
that is `Shaped`, `Keeps` and `Disjoint`. `Disjoint` takes the place of the counts
of `FramesAccounted`: no two uses have one frame, a frame in use is not free, none
is free twice; `DisjointCounts` derives the counts. `Shaped` is what the walks of
the tables rely on. Identity entries are in low regions only, which is why taking
down a space may give back every user page and no other; a region without a table
has no entries.

A call is a loop over pages, and `InTurnEnds` is the induction for all of them:
what holds at first and is kept by each step holds at the end. A step is the move
of one frame: taken and not used yet (`TakeSound`, `Unused`), made a table
(`WithTableSound`), mapped (`MapSound`, `FreshSound`), given back
(`UnmapSound`). `vmm_destroy` is not a chain of these, for it clears no entry:
`DestroyLeaves` says of the uses not yet visited that they are `Disjoint` still.
Fork copies region by region, page by page (`CopyRegionSound`, `CopyPageSound`)
into tables of the child, which has none in the identity map because its parent
has none there.

A call that finds no frame has left the invariant when it comes to that
(`CallEnds`), and the kill ends it: the entries are there still, but count no
more. `Dead` is what holds from then on: the child's frames and the kernel's are
disjoint and not free, none is free twice, and no entry of the dead program leads
to a page of the child, so what it still stores (`DeadStore`) harms nothing that
is promised. `KillSound` is the kill, with any number of frames taken by the rest
of the call; `DeadEnds` says that the next program starts with the invariant
again, and with an empty directory.

### Files

`FileProofs`, for `Pipe` from `PipeAssumption` (the buffer has a byte, 0 is one):

* `PipeTyping`: `Spec => []TypeOK`.
* `PipeRing`: `Spec => []RingConsistent`.
* `PipeIsStream`: `Spec => ImplementsStream`, the refinement, for every buffer
  size and every request. Typing and `RingConsistent` are the inductive
  invariant; a write that goes round the end is shown to append to `Contents`
  and a read to take its first bytes, index by index, from one lemma on
  positions modulo the size.

for `Vfs` from `VfsAssumption` (the tables are not empty):

* `ReferencesCounted`: `VfsSpec => []RefsMatch`.
* `NoPipeIsLost`: `VfsSpec => []NoPipeLeak`.

They hold for any number of descriptors, inodes, pipes and for any file system
below. `RefsInv` says of every slot of the inode table that it is valid exactly
when a descriptor leads to it, and then counts them. No handler counts: an open,
a duplicate and a close add or take one and rely on the rest. `Gains` and `Loses`
are the two ways in which the set of a slot's users changes, and every handler is
a chain of them; `dup2` onto a descriptor of the same inode loses a user and
gains one, in that order, so the slot may be given back in between. `PipesInv`
adds that a pipe that was not freed is reached by a descriptor. It needs
`RefsInv` for the shape of the entries only, and it says nothing of the other
direction, which is false (`vfs_pipeend`).

for `Jfs` from `JfsAssumption` (the tables are not empty, ranges
begin at 0 or later and have a length):

* `JfsTyped`: `JfsSpec => []JfsTypeOK`.
* `BlocksHaveOneOwner`: `JfsSpec => []OneOwner`.
* `NamesAreLive`: `JfsSpec => []EntriesLive`.
* `CountsAreTrue`: `JfsSpec => []CountsTrue`.
* `TextsAreKept`: `JfsSpec => []ContentsKept`.
* `LogIsWhole`: `JfsSpec => []LogHoldsRest`.

They hold for every number of inodes, blocks and pointers, any ranges read and
written, and for volumes that fill up in the middle of a write. `JfsInv` says of
the record of the file system: the root is a directory; a block that a pointer
leads to is marked in the bitmap and belongs to no other pointer, an inode that
is free has none, and neither has an entry of a directory block an inode that is
free (`Owners`, `Entries`); the journal on disk is the ring in memory up to what
a restart has forgotten (`LogTrue`); free counts are right until the first
restart (`Counted`); a file holds zeros where nothing was written and the latest
write elsewhere (`Texts`). A call is a composition of functions on the record,
and the proof goes along it: one lemma for each helper, then one for each call,
and `MountSound` for the start and the restart. `jfs_write` is a loop, a
function by recursion over the pointers. `Iteration` shows that a function with
the equations of its definition exists, and `NatSetInduction` (see below) carries the
invariant along; `Partly` says what holds in the middle of a write, and `Prefix`
that a write which found the disk full stored what it says it did.

and for `Ahci` from `AhciAssumption` (drives are numbered from 1; any
numbers of sectors and ports; any of the failures):

* `AhciTyping`: `AhciSpec => []AhciTypeOK`.
* `WritesAreKept`: `AhciSpec => []SectorsKept`.
* `ReadsAreOwn`: `AhciSpec => []ReadsOwn`.

The drive moves sectors while the driver waits, after it has given up, and from
its cache to the platter whenever it likes; timeouts, errors and power cuts come
at any step. `DiskInv` says that the ports counted lead to drives (`PortsLead`),
that while a call waits the slot holds its command and nothing else
(`CommandHeld`), and how far it has come: the sectors moved by a write are the
call's, and every sector of the call may already be (`Written`); those moved by a
read are in the buffer with a value the sector may have (`Fetched`); and when a
flush has ended cache and platter agree (`Flushed`). `LiveKept` ties what a read may return to
what may be there after a power cut.

### Devices

`DeviceProofs`, for the E1000 in `Nic` from `E1000Assumption` (a ring has two
slots at least, there is a frame):

* `DoneBits`: `NicSpec => [](NicTypeOK /\ RxMarked /\ TxMarked)`.
* `RingsAreQueues`: `NicSpec => ImplementsQueues`, the refinement, for every size
  of the rings.

The driver tells what waits by the done bits alone and the card by head and tail
alone. `RingInv` says that both agree: from the slot after the receive tail as
many slots are done as the card has filled, and from the transmit head as many
are not done as the driver has handed over. A transmit ring whose last slot is
taken has head and tail in one place and looks empty to the card; `TxCount` tells
the two cases apart by the bit of that slot, and `Submits` and `Transmits` go
through them. `FromAppends` and `FromTakes` show that a slot filled behind the
others is appended and that moving the first place takes the first frame; they
rest on `Turn` and `Steps`, the arithmetic of places modulo the size.

For the RTL8139:

* `FramesNoticed`: `CardSpec => []NothingForgotten`. The invariant `DrainInv`
  follows a poll: once the status is lowered, whatever came before is seen by the
  question that follows, and what comes after it raises the status again.

For `Nvme`, from `NvmeAssumption` and `MaxCid < CIDS`:

* `OwnCompletions`: `NvmeSpec => []AnswerIsOwn`.

Commands time out at any time and the controller carries them out and posts
their completions at any later time, for rings of any depth. The driver compares
the identifier, and `AnswerInv` says why that is enough: an entry of the
completion ring is either of a command that was carried out, or has never been
posted, and then it lies ahead of the driver in the first lap with the other
phase. A match with the latest identifier is therefore its completion. The
second assumption says that the sixteen bits of `next_cid` have not come round;
after 65536 commands a completion that is still late could be taken for another.

* `NvmeTyping`: `NvmeSpec => []NvmeTypeOK`, from `NvmeAssumption` alone.
* `WritesReachTheDrive`: `NvmeSpec => [](AnswerInPlace /\ WritesLand)`, where the
  driver never gives up (`"timeout" \notin Faults`).
* `ReadsReturnWrites`: `NvmeSpec => []ReadsBack`, where moreover a block is one
  sector; where it is several, it does not hold (section 6).

These are for rings of any depth, drives of any size, blocks of any number of
sectors and any number of commands, whose identifiers may come round. `NvmeInv`
says where the one command is (`Stage`: in the queue, in the drive, or posted at
the entry the driver looks at), that the completions of this lap have its phase
and the others the other (`Laps`), and what the buffer holds there: the block as
read, or the block with the sector put in. That a write of the buffer changes one
sector (`MergedLands`) is arithmetic: a sector is its block times their size plus
its place, and in one way only.

For `Sound`, from `SoundAssumption`:

* `SoundsInOrder`: `SoundSpec => []SamplesInOrder`.
* `SoundsOwn`: `SoundSpec => []SamplesOwn`, when programs are `Careful`.

The mixer of the timer goes over the samples and, for each, over the channels,
two loops in one another. `SoundInv` is about one channel: its position is the
number of samples it has played, modulo the length if it is a loop. Both loops
carry it along by induction over their counts.

For `Gui`, from `GuiAssumption` (two slots or more, a screen wider than the least
window, an application beside the terminal) and `Tidy`:

* `WindowsAreSound`: `GuiSpec => []WindowsSound`.

`WindowsSound` is not inductive. `GuiInv` adds that the title of a slot is that of
all its widgets even when its window has gone, that the slot the terminal
remembers is one with its title, that a maximized window has a place on the
screen to go back to, and that a window is dragged only while the button is down
and it is shown. The last one is why it cannot be closed under the pointer: a
click needs the button up, and `gui_stop_drag` lets go with it.

For `Input`, from `InputAssumption` (each ring has a place, packets have 3 or 4
bytes, no letter or arrow has the name of another kind of byte):

* `InputIsKept`: `InputSpec => []InputKept`.

`InputInv` says of the ring of keys that what was polled and then what lies
between head and tail is what was stored, and of the ring of the mouse that it
holds the last `waiting` packets; the rest is what a decoder may hold: bytes of
one kind on the wire, and never a packet that is complete. What lies between head
and tail is a sequence, so the lemmas about it (`BetweenPush`, `BetweenPop`) are
about a ring of any size and any contents: a push adds one at its end unless the
ring is full, a poll takes one from its front, and a push into the full ring of
the mouse does both.

For `Msc`, from `MscAssumption` (the faults are among those named), for a disk of
any size and any number of commands:

* `UsbDiskIsSound`: `MscSpec => [](MscTypeOK /\ AnswersOwn /\ BlocksKept)`.

Neither half is inductive: that the status of a command says what became of its
own data rests on what the drive was left in by the commands that failed before.
`MscInv` says it by tags. A drive that is in a command has a tag that was given;
until the wrapper of a command has arrived it is not that command's; and a drive
that has the tag of the command that waits is in that command, has not passed
its data before they were moved, and reports success only when they were. The
one step at which a drive waits for data of another command is a wrapper that
"went through" a halted endpoint, and there the endpoint still refuses the data.

For `Xhci`, from `XhciAssumption` (each ring has two entries or more, ports and
slots are numbered from 1 and there is a port):

* `EventsKeepOrder`: `XhciSpec => [](XhciTypeOK /\ EventsInOrder)`.
* `RingsAreSound`: `XhciSpec => [](RingsInOrder /\ NothingStuck /\ SlotsOwn)`, if
  `Roomy`: the command ring has three entries or more, and if a wait may end
  early, more than the four commands of each port need.

With the 32 entries of the code `Roomy` holds for any number of ports where no
wait ends early, and for seven ports where one may. Beyond that the driver, which
does not look how far the controller has come, can write over commands that were
given up and not yet fetched; the run `devices` has such a ring (`givenup`) that
is not filled in the time the setting allows.

The cycle bits are what a reader of the code has to believe in, and
`EventsPlaced` and `CommandsPlaced` say what they mean: before the producer's
place stands the bit of its round and behind it the other, so the entries that
the consumer takes for new are those between the two places, with the numbers
that come next; the link at the end of the command ring counts as one of them,
until it has been followed. `EventsPlaced` holds however the driver waits.
`CommandsPlaced` needs room for the next command: `FewSent` counts the commands of
each port for the case with timeouts, and `OneAtATime` says that without them a
command is sent when no other and no answer is on its way. From that follows
`SlotInv`: the command and the answer on their way are those of the step
`x2_enumerate_port` is in, so a slot is new when its number is read out of the
event that was already given back, and has an address when its endpoint is set
up.

For `Usb`, from `UsbAssumption` (a device is in one place, or at a second port of
a controller that leaves it to the first; tables of any size), for any controllers, hubs and
devices:

* `EntriesStayTrue`: `UsbSpec => [](UsbTypeOK /\ AddressesOwn /\ EntriesTrue)`, if
  `Orderly`: no transfer fails that would leave a device at address 0.
* `NothingOverlooked`: `UsbSpec => []AllFound`.

The transfers of all controllers go to the first EHCI one, so an entry leads
where it should only if it was made for a device that listens there. `UsbInv` says
that addresses given on it are below the next one and one device at most listens
to 0, the one whose turn it is (`AddressesGiven`), what stage the search is in and
for whom (`SearchSound`), and that entries are of devices with an address.
`NothingOverlooked` follows the stack of ports: a device of high speed is in
an entry, or behind a port still to be looked at, unless the table is full.

### Network

`NetProofs`, for `Tcp` from `TcpAssumption` (the tables have a place, the server
is not one of the clients):

* `TcpTyping`: `TcpSpec => []TcpTypeOK`.
* `QueueHoldsOpen`: `TcpSpec => []QueueSound`.
* `DataOfConversation`: `TcpSpec => []OwnData`.

They hold for every size of the table, the queue and the buffers, any number of
clients, and on a network that loses, repeats and reorders packets as well; the
run `services` checks the same formulas in the two settings `Lossy` and
`Ordered`. Neither invariant is inductive. `TcpInv` adds what a command relies on
without looking: while it waits for clients somebody listens, its own connection
stays open because only the command closes it, and a slot that is not in use is
zero (`Commands`, `FreeSlots`). The closing of a connection is then safe although
`tcp_close` does not look at the queue: a queued slot is never the one a command
works on. `Removed` shows that taking the k-th entry out by rotating the queue
keeps the others, each once; `FirstFits`, that a scan finds what it looks for, by
the well-founded order of finite sets.

and for `Net`:

* `NamesResolve`: `NetSpec => []ResolvesRight`, from `NetAssumption` (query numbers
  do not come round in the calls made, names are not dotted addresses).
* `AddressesKnown`: `NetSpec => []TableTrue`, from `NetAssumption`.
* `PingsAreRight`: `NetSpec => []PingTrue`.
* `LeasesAreAsked`: `NetSpec => []LeaseAsked`.

Answers come late, twice or not at all, to any number of attempts. `ResolverInv`
rests on the numbers: an answer on its way has a number that was used, so only
those with the number of the query under way are taken, and these are about its
name. `Used` bounds the numbers by the attempts of all calls, and with the
assumption no number is used twice. `TableInv` is `TableTrue` with what the
frames may carry: an entry is replaced in place, and a host without one has
told of no card, or the table was full. `PingInv` has the condition that the code
has not: `icmp_got_reply` is set by any echo reply, so a ping is true only if
answers come in time or never.

### Threads

`ThreadProofs`, for the locks, conditions and joins of `Threads`, for any set of
threads and any number of slots:

* `OneHolder`: `ThreadSpec => []MutualExclusion`.
* `SleepersInTable`: `ThreadSpec => []TableTrue`.
* `NoLostWakeUp`: `ThreadSpec => []WokenUp`.

`ThreadInv` has four parts. `SleepOK` is the table of the kernel: who sleeps is
in one slot. `LockInv` says that the word of the mutex is not 0 while somebody
holds it, which the fast path needs and the slow path must not break: it may
mark a lock as contended that was given back in between. `CondInv` compares the
number a sleeper read with the counter, and `JoinInv` says that a thread that
has ended writes its word before it wakes. A full table makes `sys_futex` return
at once, and the theorems hold then as well, for the callers look again.

For `SRing` from `RingAssumption` (the size divides the word in which the indices
wrap, and is less):

* `RingIsQueue`: `RingSpec => []FirstInFirstOut`.

Producer and consumer each read the other's index without a lock. `RingInv` says
how many elements lie between the two indices when they have wrapped, and that
an element is stored before its index moves. The lemmas are arithmetic: a
difference modulo the word is a difference while it is at most the size, and
adding one modulo the word is adding one modulo the size, because one divides
the other.

### Induction

The theorems of the library on induction take an operator as a parameter, which
the provers cannot instantiate. `NatSetInduction`, in `DeviceProofs`,
`FileProofs` and `MemoryProofs`, states induction for sets of numbers instead: a
set that has 0 and the successor of each of its members has every number. It is derived from the
well-foundedness of inclusion among finite sets, applied to `0 .. n`. Where a
loop of the code is a recursive function, `Iteration` gives a function with the
equations of the recursion, and the numbers for which the invariant holds of its
value are such a set. A walk along a list can be proved about where the
invariant names the list, as that of the heap does; where it does not, induction
has nothing to go along.

### Only model-checked

* Liveness under fairness, which the prover cannot express: `PlainSleeps`,
  `PlainPids`.
* The refinement of the RTL8139 to `Mailbox` (`ImplementsCardQueues`), of which
  `RingsAreQueues` is the part for the E1000.
* Of `StreamsKept`, the order of a stream (`InOrder` of `Tcp`) and all of
  `Sockets`; pings and leases are proved.
* `PagesAccounted`: `Pmm` splits and merges blocks through orders, and is exact
  only where no wrong bit merges two of them (the run `pmm_deep`), a condition
  that the two settings meet and no state names.
* Of `BlocksOwned`, `NamesLive` and `TextsKept`, the settings of `Fat` and `Shell`,
  whose chains are walks as well, and what `Vfs` adds to the texts of `Jfs`.
* `ConsoleTrue` and `BusSorted`: `Console`, the decoders of `Input`, the steps of
  the RTL8139 along its buffer, of `Usb` the faults that `Orderly` leaves out, and
  of `Xhci` a command ring that timeouts could fill. `SectorsKept` is proved setting
  by setting, by the theorems about `Ahci`, `Nvme` and `Msc` above.
* The functions of the libraries (`CallsRight`, `PicturesRight`): what a
  recursive function computes for every input. Of `StoresRight`, threads and the
  ring are proved.

## 6. Seen while modelling

Behaviour of the code that the models show and that no run of section 4 singles
out. Where a property leaves one of these out, its comment or the `Careful` or `Tidy` of its
module says so.

* Processes. `scheduler_exit` leaves the VMA table of a program allocated
  (`process.c:131` says all resources are freed). `oom_kill` is to "kill the
  highest scorer" and never finds one: it counts pages from the second 512 GB of a
  space on (`resilience.c:450`), where no program has any. `kernel_panic` kills the
  RUNNING program instead, destroys the space that is loaded, and returns to it
  (`resilience.c:569`: "caller's context is gone; scheduler will pick next").
  `sys_ipc_register` gives a name that is taken to the later caller, for which
  `ipc.c:137` promises -1 (`LookupFindsLatest` says what the code does). A message sent before the first
  tick of a program carries the pid that ran before it (`ipc.c:35`); a receive
  from an empty inbox never returns, for interrupts are masked (`ipc.c:111`); a
  server whose name has 16 or more characters is not found by it (`ipc.c:182`).
* Memory. A block whose page starts with what looks like a slab header is not
  freed (`heap.c:236`); slab pages above 4 GB fall off their chain (`heap.c:100`).
  Fork of a program with a split region lets both spaces write over frames of the
  identity map; `malloc` on such pages maps nothing (`syscall.c:125`), `munmap`
  and `mprotect` there act on the identity map; an area that is cut is dropped
  whole, one that finds the table full is forgotten.
* Files. The first name made in JFS after a start is not found (`jfs.c:121`,
  `jfs.c:295`); the first journal sector is the super block's (`jfs.c:7`,
  `jfs.c:9`); `vfs_read` and `vfs_write` refuse the descriptors of a pipe
  (`vfs.c:205`), and `pipe_read` does not block (`docs/kernel.md:67`).
  `sys_open` fails for every path (`syscall.c:74`). On FAT32 two descriptors of
  one file overwrite each other, and a directory never grows. "Advance cluster at
  a cluster boundary, allocating a new one if needed" (`kernel.c:1141`) is done
  after a write only: an append to a file that other tools left with exactly
  full clusters starts behind the end of its chain and writes outside it. The runs
  leave that out (`Careful`).
* Shell. The line is not cut after its first word, so `write a text` opens
  "A TEXT" and `rename a b.txt` looks for "A.TXT". `write` and `cp` do not
  truncate. `rm` removes a directory with all it holds; `rmdir` looks at one
  entry and removes the first of the name. `..` leads to the root. A path is cut
  at 127 characters. `mkdir` leaks its cluster when there is no room for the name, and does not clear
  it: in one that was a file's the text is read as entries (`kernel.c:1450`).
* Network. A client that repeats its SYN gets a second slot, and the first packet
  after the first is freed makes a connection of it that nobody opened
  (`net.c:638`); a connection that finds the accept queue full, or is closed by
  its peer while it is queued, is never accepted and never freed (`net.c:549`,
  `net.c:950`); `net_tcp_recv` waits for ever for a silent peer; a repeated or
  overtaking segment is read as it comes (`net.c:684`), so the order of a stream
  is a property of the setting `ordered` only. A full ARP table learns nothing
  more, any echo reply answers any ping, and `dhcp_run` takes an address that
  was not acknowledged. In `tcpip.c` a SYN|ACK is taken for a SYN, so `connect`
  cannot succeed, and closing a socket leaves its watches.
* Cards. A transmit ring of the e1000 that is filled completely looks empty to
  it (`e1000.c:416`), and nothing is sent any more. A frame that goes round the
  end of the RTL8139's buffer is read on behind the end (`e1000.c:724`), and a
  transmit slot not let go after 100000 looks is overwritten.
* Disks. After a command that timed out the queue of the NVMe driver stays
  blocked by the late completion (`nvme.c:142`); with native blocks larger than
  512 bytes the first sector of the block is read back (`nvme.c:342`, against
  `nvme.c:327`). `ahci.c:586` asks for the size of a drive before its port is
  counted, so the size is 0; a failed AHCI call falls back to PIO (`kernel.c:541`).
* USB. All control transfers go to the first EHCI controller (so devices on the
  second are not reached), STALL passes for success, the halt of the
  in-endpoint is cleared with the wrong address, a device whose first requests
  fail keeps address 0, and `x2_cmd` takes any completion for its own.
* Threads. Nothing starts one today: `sys_clone` is fork. In the slow path of
  `pthread_mutex_lock` a thread that takes the lock does not return but goes on to
  sleep on the lock it holds (`pthread.h:245` to `262`). `sys_futex` compares
  eight bytes of a word of four (`futex.c:62`), so it may return at once although
  the word is right, and its timeout is whatever `rcx` holds: the entry of system
  calls never moves `r10` there (`isr.S:404` to `428`), which every call with four
  arguments feels.
* Screen and input. The arrows and Delete do not bring a paged view back
  (`kernel.c:1671` to `1675`), and edit a line that is not shown; moving left rubs out what is left of the cursor (`kernel.c:1744`). A mouse
  with a wheel sends packets of 4 bytes to decoders of 3 (`kernel.c:155`,
  `ps2.c:407`). A closed window's widgets show in the next window of its slot.
* Drawing. The pages of `gfx.c` keep the height they were derived from, so after
  `fb_disable` and `fb_enable` with another mode, or a change of mode that was
  refused, they overlap. The desktop draws on the hidden page after an odd number
  of flips. `fb_enable` on a screen that is on leaves the watchdog suspended
  (`fbdev.c:158`). `fb_blend` with 255 is not quite the colour it is given
  (`fbdev.c:215`), `fb_draw_circle` with radius 5 draws (3,2), and tiles of size 0
  divide by zero. `render_layer` of `user/gfx.h` passes the scroll in other
  registers than the kernel reads.
* TLS. The client's Finished is missing from the transcript against which the
  server's is compared (`tls.h:770`); a handshake that fails leaks its socket.
* Pictures. `image_load` asks for 48 MB of a heap of 2 MB (`image.c:138`), so it
  never succeeds. PCX takes literals from 64 to 191 for runs; TGA swaps its types;
  RLE of BMP loses a byte at every other end of line; transparent pixels of a PNG
  with a key become black, with no alpha where it is grey (`png.c:11` has "tRNS
  transparency for types 0, 2 and 3"). `huff_build` takes an under-subscribed code,
  for which `inflate.c:77` has it return -1. `PicturesRight` asks neither. JPEG does not look whether the tables it uses were
  defined, and four components with a certain marker are written beyond a
  buffer of one.
* Libraries. `path_normalize` makes ".//a" absolute and drops a leading "..";
  `path_dirname` returns -1 nearly always; `sat_sub_i64(a, MIN)` is wrong;
  `ftell` and `fseek` forget what is buffered, `fflush` what a short write left;
  the sort drops partitions when its stack of 64 is full; `fopen` with "a"
  truncates. Width "and precision" are supported by the words of `user/libc.h:146`;
  `printf` uses the precision of a string and not that of a whole number, and the
  formats tried for numbers have none.

The properties of `library` are about the other arguments: the conditions stand
in `MCLibrary`, `Images` and `Jpeg` beside what is compared.

## 7. What the models leave out

Contents of memory, ELF segments, the register frame (except which program it
belongs to), logging and fonts. Of the modelled components:

* `Jfs` leaves out the sizes of directories, which only grow; a write beyond the
  last pointer stores nothing and reports success; a write that runs out of
  blocks returns what it wrote and does not update the size. `Pipe` leaves out
  the flags for open ends, which nothing clears, and with them the end of file.
* `Vmm` leaves out file mappings and the upper levels of the tables, and with them
  that the frame found missing may be one for such a table. Of a call in which
  the program is killed it follows what the frames become: which of those freed the
  rest of the call takes, not what it writes into them, nor what fork still
  copies out of the destroyed space; if that needs more than is free nobody is
  left to kill and the machine halts. A program that was killed may go on to make
  calls until the timer comes; here it only stores, and only by the entries it
  had. `Pmm` leaves out the statistics of `pmm_enhanced.c`.
* `Tcp` leaves out the texts of HTTP, segments that fit the buffer only in part
  and the wrap-around of local ports; `net_tcp_accept` has no caller. `Sockets`
  leaves out what this side sends and all but one epoll instance.
* `Nic` begins after the reset of the card and leaves out frames the card marks
  as bad; `Nvme` leaves out the admin queue, identification and
  `nvme_read_4k`; `Usb` leaves out transfers without a caller and what the audio,
  video and Bluetooth probes ask; `Msc` drives that check data toggles.
* `Library` leaves out floats, `strrchr` of the NUL, and `memcmp`, `memchr` and
  `strcmp`; the ciphers and large numbers of `Tls` are perfect; `Inflate` leaves out
  the window, which no caller gives, and the sum of Adler, which no decoder checks;
  `Images` and `Jpeg` always find room on the heap, and leave out a TGA of more than
  32 bits a pixel and DC values of more than 15 bits. `Draw` leaves out the circle. `Threads` leaves out attributes,
  keys and what `pthread_create` does before the child runs.

Not modelled at all:

| Component | Why |
|---|---|
| `vmalloc.c`, `swap.c`, `signal.c`, `pkgmgr.c`, `mem_safety.c`, `security.c` | nothing calls them: no command, system call or interrupt reaches a state change in them. A reader of `swap.c` should know that its bitmap of 1024 bytes goes through a buffer of 512, and that the first page swapped out is written over the bitmap |
| `heap_enhanced.c`, `vmm_enhanced.c`, `usb_hid.c`, `user/malloc.c` | superseded: `usb.c` starts the xHCI itself, `malloc.c` does not compile (`0xUSEDCANE`), the others have no caller |
| `scheduler.c` | keeps priorities that nothing reads |
| mutexes, RW locks and the mailbox of a second processor (`resilience.c`) | nothing takes them, and there is no second processor |
| ACPI and PCI | tables parsed once at start, no state that changes after it |
| browsers | an application; parsing and layout of HTML |
| examples, tools, assets | no code of the running system |

`PROJECT.json` lists every component with its sources and its status.
