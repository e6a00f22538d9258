# Verification of the xv6 kernels

The repository holds three variants of the teaching kernel xv6, each with its
own additions: `Enhanced-Shell-xv6` (login, command history, blocked system
calls, chmod), `Memory-Swap-xv6` (page swapping with an adaptive policy) and
`Signal-Scheduler-xv6` (keyboard signals, deferred start, execution limits,
aging priorities). They share the rest of the kernel. This directory holds TLA+
modules of their core, TLC configurations that check them, and proofs.

| module | what it is | code |
|---|---|---|
| `Spinlock` | acquire, release, pushcli, popcli, sched and swtch under the timer interrupt, on several CPUs | Enhanced-Shell `spinlock.c`, `proc.c`, `trap.c`, `trapasm.S` (the same in all variants) |
| `SleepLock` | sleep-locks over two spinlocks, sleep and wakeup, instruction by instruction where others can see it | Memory-Swap `sleeplock.c`, `spinlock.c`, `proc.c` (the same in all variants) |
| `Mutex` | what a sleep-lock promises | |
| `Proc` | the process table: fork, exit, wait, kill, sleep, wakeup, history, blocked calls | Enhanced-Shell `proc.c`, `trap.c`, `syscall.c`, `init.c` |
| `PageSwap` | page swapping: faults, sbrk, fork, exec, exit and wait as far as they move user pages, one disk access at a time | Memory-Swap `pageswap.c`, `kalloc.c`, `vm.c`, `trap.c`, `proc.c`, `exec.c` |
| `Log` | the file-system log, its commit and recovery, with crashes | Signal-Scheduler `log.c` (the same in all variants) |
| `AtomicDisk` | what the log promises: calls that take effect together or not at all | |
| `SigSched` | the process table under signals, execution limits and deferred starts | Signal-Scheduler `proc.c`, `trap.c`, `console.c` |
| `PrioSched` | the aging priorities of the scheduler | Signal-Scheduler `proc.c` |
| `SchedTable`, `PrioAccounts` | the slots that SigSched and PrioSched share; the numbers PrioSched keeps for each, and `WaitBounded` | `proc.h` |
| `Bcache` | the buffer cache and the disk driver, with the disk and its interrupt | Enhanced-Shell `bio.c`, `ide.c`, `log.c` (the same in all variants) |
| `BlockStore` | what the cache promises: one copy of each block, used by one caller at a time | |
| `Fs` | inodes, directories and the calls that name files | Enhanced-Shell `fs.c`, `sysfile.c`, `sysproc.c`, `file.c` |
| `Files` | the file table, descriptors and pipes | Memory-Swap `file.c`, `pipe.c`, `sysfile.c`, `proc.c` (the same in all variants) |
| `Console` | the console's line editing and its readers | Memory-Swap `console.c` |
| `Terminal` | what the console promises: whole lines, edited, in order | |
| `Shell` | the shell over `Files` and `Console`: init, sh, echo and cat as processes | Memory-Swap `sh.c`, `init.c`, `echo.c`, `cat.c`, `ulib.c`, `proc.c` |
| `ShellOutput` | what a line of the shell is to print | the same |
| `MC*` | what TLC needs beyond constants: sets of negative numbers, scripts, the fair specifications | |
| `*_proofs` | inductive invariants and theorems | |

## Inventory

**Processes** (`proc.c`, `trap.c`, `sysproc.c`, `syscall.c`). State: `ptable`
(per slot: state, pid, parent, killed, channel, and in the variants the block
list, rss, or suspended, ticks and limits), `nextpid`, and each CPU's
`proc`, `ncli` and `intena`. Operations: allocproc, fork, exit, wait, kill,
sleep, wakeup, yield, sched, scheduler; `custom_fork`, `scheduler_start`,
`sendsig`; `gethistory`, `block`, `unblock`. All of it is under `ptable.lock`,
but for the tests of `killed`, the construction of a child between `allocproc`
and RUNNABLE, and the parts of exit before the lock. Hard: wakeups against
sleeps, exits against waits, parents that die first, kills at any moment,
signals that rewrite states and parents from an interrupt. Correct when no exit
or wakeup is lost, every process can be reaped, nothing dead or half-built runs,
states agree with CPUs, and killed processes exit.

**Locks** (`spinlock.c`, `sleeplock.c`). State: `locked` and the holder; per CPU
the depth of pushcli. Correct when they exclude, lose no wakeup, are never held
across a switch (but `ptable.lock`), and someone always gets in.

**The log** (`log.c`). State: the header and blocks on disk, `log.lh`,
`outstanding`, `committing`, the pinned (B_DIRTY) buffers. Operations: begin_op,
log_write, end_op, commit, recovery at boot. It meets processes through sleep
and wakeup on `&log` and the buffer cache through bread and bwrite. Hard:
crashes between any two disk writes, several calls in a transaction, log space.
Correct when what is on disk after recovery is the last committed transaction.

**Buffer cache and disk** (`bio.c`, `ide.c`). State: an LRU list of NBUF
buffers with reference counts, flags and sleep-locks; the request queue.
Correct when a block has at most one buffer, the driver serves requests in
order, and every request is answered once.

**Inodes, directories, files** (`fs.c`, `file.c`, `sysfile.c`). State: the inode
cache, the file table, per-process descriptors; on disk inodes, bitmap,
directories; mode bits in Enhanced-Shell. Hard: the last iput of an unlinked
inode against lookups, unlink against open, exhaustion. Correct when an inode
is freed exactly once and only when nothing names or uses it.

**Pipes** (`pipe.c`). State: two counters of 32 bits, 512 bytes, two open flags.
Correct when the bytes come out as a FIFO, nobody sleeps for ever on progress
already made, and the page is freed once.

**Page swapping** (`pageswap.c`, and `kalloc.c`, `vm.c`, `trap.c` of
Memory-Swap). State: 800 slots with free flags and permissions, page-table
entries, rss, `threshold` and `npages_to_swap`. Operations: swap out, fault in,
duplicate at fork, clean at exit; entered from kalloc at any depth. Hard: every
disk access sleeps, so victims run, exit or fault in the middle; no lock is
held. Correct when each page has exactly one place and keeps its contents,
slots and frames are neither leaked nor freed twice, and the policy stays
within its limits.

**Memory** (`kalloc.c`, `vm.c`, `exec.c`). Free list, page tables, images.

**Console, keyboard, serial line** (`console.c`, `kbd.c`, `uart.c`). A ring of 128
characters with read, write and edit positions; control keys send signals.

**Signal handlers** (Signal-Scheduler `trap.c`, `sysproc.c`). One pending flag
and handler address per process.

**User space** (`init.c`, `sh.c`, `ulib.c`, `umalloc.c`, test programs), **mkfs**,
**boot and devices**.

The hazards of this code are listed, each at its line and with the properties
that cover it, in `PROJECT.json`.

## How the modules fit together

`Spinlock` is the bottom: with it SleepLock may take what a spinlock protects as
undisturbed by interrupts and by other CPUs, and `myproc()` as who calls it. `SleepLock` justifies that the other modules take `sleep` and `wakeup` as atomic under
`ptable.lock`. `Proc` and `SigSched` are the process table of two variants; `PrioSched` is the
reason for SigSched's fairness to ready processes. `Bcache` implements one copy of each
block, which `Log` starts from; `Log` makes the calls of the file system atomic, which is
why `Fs` has no crashes in it. `Shell` EXTENDS `Files` and `Console`: its run is the
composition of the three, and the console in it is shown to implement `Terminal`.

## The modules and their runs

### Spinlock

`pc[t]` is a place in the code of a thread (a process, or the scheduler of a CPU) and a
step within it: acquire is `Read` (of the flag), `Push` (the rest of pushcli, with
interrupts off), `Unheld` (the panic of `holding`), `Xchg`, `Mark`; release is
`Held`, `Clear`, `Unlock`, `Pop`; myproc is a pushcli, `Mycpu`, `Load` and a popcli.
`Flow` gives the places in the order of the code: sys_sleep with sleep, fork with
allocproc, the timer's part of trap with wakeup and yield, the scheduler's loop, and forkret.
`Interrupt` comes between any two steps where the CPU's flag is on, and pushes a frame that `Iret`
takes off; trap gates leave the flag as it is. `SchedCall` and `Scan` are the two
sides of swtch, which changes `run` and leaves `ncli`, `intena` and the flag to the
CPU: all the properties are about what that does. Memory is sequentially
consistent; kill, exit, and devices' interrupts with their own locks are left out.

Run `spinlock` (two CPUs, two processes): `MutualExclusion` across the switches that hand
`ptable.lock` on; `NeverPanics` (none of acquire's, release's, popcli's, mycpu's and
sched's panics, among them "sched locks": no thread leaves its CPU with a second
spinlock); `InterruptsRight` (interrupts are on exactly where the running thread is in no
pushcli and in no handler, though each CPU has one `intena` and the thread may come back
on another); `MyprocIsCaller`. Deadlock is checked: two CPUs that spin for each other's lock
with interrupts off would be one. The exceptions in `InterruptsRight` are real: a child in
forkret inherits the `intena` that the last process left on the CPU, and may
run with interrupts off up to its iret, as a scheduler may up to its sti. An interrupt
handler is never interrupted, so `MaxNest`, which is 2, stops nothing. Two
CPUs and two processes are enough for a thread to leave a CPU in every one of its
switches, another thread to run there, and the first to come back on the other CPU.
The properties are safety properties only: nothing is assumed, or claimed, of who wins a race of xchg.

### SleepLock

One action per access that another CPU can observe: xchg on `lk->lk` and
`ptable.lock` (`AcquireSpin`, `SleepSpin`, `WakeupSpin`, ...), the tests and
assignments under them, `sleep` releasing `lk->lk` after it has `ptable.lock`,
`sched`, the timer's `yield`, the schedulers of `NCPU` CPUs, and `kill`'s wakeup.
`pc` is where a process is, `lk` and `ptlock` hold the spinlocks' holders.

Run `sleeplock` (three processes, two CPUs): two CPUs are
where two processes are between locks at once, and the third is one that waits
for a CPU, for the lock or in `sleep` meanwhile. It checks that
no wakeup is lost (`NoLostWakeup`), some contender gets the lock (`Progress`), and that the
lock implements `Mutex`, which is mutual exclusion and more.
Fairness: a process that is on a CPU again and again executes its next
instruction, the timer interrupts it, the scheduler scans round the table, all
strong because preemption disables them for a while; nobody is obliged to call
acquiresleep. Individual starvation is possible in the code (wakeup wakes
all), so progress is stated of the lock and not of each process.

### Proc

One step is one critical section of `ptable.lock` or the code between two of
them; SleepLock justifies taking sleep and wakeup as atomic there. `ForkAlloc`,
`ForkRun`, `ForkNoMemory`, `ForkFull` are fork; `ExitCall`, `ExitZombie`,
`ExitPanic` exit (files and the current directory closed in between);
`WaitReap`, `WaitFail`, `WaitSleep` a round of wait; `NapCall`, `NapSleep`,
`NapReturn` any device wait that tests `killed` (the sleep call, pipes, the
console), with `Wakeup(c)` for the device. init and its shell are the programs
of `init.c`; every other user program may make any call at any time.

Run `proc`: three slots, two CPUs, kills of pid 0, of the shell and of a child,
failing allocations, a blocked call and a history of one entry, which fills up. It
checks that no exit is lost (`NoLostExit`), every process has a live parent
(`ParentLive`), the history lists the dead once (`HistoryOfTheDead`), a killed process
exits (`KilledExits`) and init reaps every orphan (`OrphansReaped`). Init, the shell and
a child are enough for a parent to die first. A grandchild, which is what it takes
for a sleeping init to inherit a zombie and be woken for it, makes a state space too
large for liveness: the invariants are proved for any number of slots, the liveness
properties are checked for three. Fairness: a process that runs again and again goes on
with its kernel step, and every ready one is dispatched (strong, since preemption and a
busy CPU disable them); the timer and the clock's wakeup come (weak: nothing
disables them for good); init does the loop of its program. Other programs owe nothing, and
neither do the other ends of pipes and the keyboard, so only the clock's channel is
in the run.

`nextpid` is capped (`MaxPid`), as are the history and the kill arguments; nothing
in the module depends on how large a pid is.

### Log and AtomicDisk

One step is one critical section of `log.lock` in begin_op, log_write and end_op
and one block written in commit and recovery. `LogCheck` is apart from
`LogWrite` because log_write tests the log's size before it takes the lock. A
buffer's contents are a value; `cache` and `dirty` are the pinned buffers, `home`,
`slots` and `hdr` the disk. `Crash` may come between any two steps, also in a
recovery. The write of the header's block is atomic, as the code assumes ("the
true point at which the current transaction commits").

`AtomicDisk` has the blocks as calls in progress see them and as a crash would
leave them; a commit copies the one to the other while no call is in progress.
`ImplementsAtomicDisk` maps the second to `Recovered`, what recovery would
compute from the disk at this moment, so commits, crashes in commits and
crashes in recoveries are checked at every step.

Run `log`: two callers, three blocks with two values each, and a log of four blocks that
admits two calls; the calls leave one of their two reserved blocks unused, as the file
system's do, which makes up for the header's place in the log. `NeverTooBig` (no panic)
is the reservations' job; `SleeperWoken` says that whoever waits for space or for a
commit is woken; and the run checks
the refinement. Two calls make a transaction of more than one, two blocks can be torn, and
the third is the one a later transaction logs over an old copy. Fairness: commit, recovery
and the calls in progress go on; end_op's is strong because each log_write disables it for a
while. Crashes need not happen.

### SigSched

The one CPU of the variant's Makefile. A step is one critical section, or the
code between two, where an interrupt may come: that is what the keyboard's
signals need. `Syscall`, `Return`, `Tick`, `DiskIntr` and the four `Sig*` actions
end like `trap()` does (`Onward`, `IntrReturn`): killed processes exit, preempted ones
yield and look at `killed` again, suspended ones yield. `quiet` is the set of
processes that are in an interrupt's trap, where interrupts are off. `left` is
`exec_time - total_ticks`. `built` says whether a slot has a page table of its
own. `Dispatch` takes any ready process, so whatever PrioSched chooses is included.

Run `sig` (three slots: init, the shell and a child, and four pids; ^C, ^G and
deferred starts without limits) checks `NoLostExit`, `OpsEnd` (a file-system call
that begins ends), `RunningHasCpu`, that who is killed by ^C
exits (`KilledExits`) and that the CPU always changes hands (`CpuGivenUp`). Run
`sig_limit` (every key, limits of two ticks, failing allocations): a limit that runs
out in user space ends in an orderly exit (`OutOfTimeExits`). Fairness: the timer and
disk interrupts (weak: they stay pending), kernel sections (strong: interrupts disable
them), each ready process (strong; PrioSched's `WaitBounded` is the reason).
File-system calls sleep finitely often. Nobody must press a key.
The runs leave out the keys and limits for which a property fails; the list of
disagreements says which.

### PrioSched

The accounts behind the choice: `waiting_time` grows at every scan for each ready
process, `total_ticks` with the timer, the highest `INIT_PRIORITY - ALPHA *
total_ticks + BETA * waiting_time` runs, ties go to the smaller pid. The rest of the
kernel appears as what it does to readiness: fork, deferred start, sleep, wakeup,
exit, reap, ^B and ^F, at any time.

Run `prio`: three slots, four pids, two ticks each, with limits. `WaitBounded`: a
process that is not out of time is passed over at most `NPROC - 1` times more than
its CPU time costs it, `BETA * waiting_time <= ALPHA * total_ticks + BETA * (NPROC -
1)`. `NotPassedOver` is a
liveness property: a process found ready again and again runs again and again: the
strong fairness SigSched assumes. The counters are bounded by `WaitBounded` and `MaxTicks`.

### PageSwap

The slots' flags, the free list and the choice of a victim are under spinlocks; the page
tables, rss and the rest are under none, and every `bread` and `bwrite` sleeps. A step is what a
process does between two locks or sleeps. `loc[p]` holds the locals of the calls that p is in, and
`loc[p].pc` how far it is: `kalloc` (with `call`, what for) may enter checkAndSwap,
whose steps `victim`, `page`, `out`, `write` and `set` are findVictimProc, findVictimPage,
swapAndPageOut up to its look at the page-table entry, a block of the page written, and the
entry set with swapOutPages' kfree; `ret` is where checkAndSwap returns to. `fault`
is swapPageIn after its kalloc, `grow` and `exec` are allocuvm after its own, and `pages`, `copy`,
`dup` and `dupcopy` are copyuvm page by page, with duplicateSwapSlot. `cr3` is the page table the
CPU uses when p runs: swapAndPageOut loads the victim's, and only a sleep, a
clock tick or switchuvm loads p's again. `Cut` is what a freed page table does to those who
hold a pointer into it. `written` is a history: what each program last stored in its
pages. A panic, or a second kfree of the same frame, ends the run in `panic`.

The code holds its promises for a program in the foreground and breaks most of them for two
that swap at the same time, so there are two kinds of run. In run `swap` the parent waits
(`Background = FALSE`) and its child grows, stores, faults and exits: two processes, three pages, two
frames and two slots, so that memory and the swap area both fill and allocations fail. Contents
(`PagesKept`), slots and frames (`StorageAccounted`: `SlotsAccounted` and `FramesAccounted`), the page table in use (`RunsOwnPages`), and that memory lasts until the swap area is full
(`MemoryLasts`) are checked. In run `swap_race` both processes run and make every call, in one frame with two
slots and cached blocks, which lets each step meet each other: no two pages share a slot even
then (`SlotsExclusive`), the property findFreeSlot's lock is for. `Vals` is empty in that run, as the property does not depend on contents. One block per page (the code has 8)
is enough for a store between the write and the entry; `THRESHOLD`, `NPAGES` and `LIMIT` are small so that
the policy reaches its limits; `RSS_MOD` stands for 2^32. Deadlock is not
checked where the kernel may panic. Kernel stacks and the pages of page tables are not
counted as frames, so the model runs out of memory later than the kernel does.

### Bcache and BlockStore

One step is one critical section of `bcache.lock` or `idelock`, the taking or giving of
a buffer's sleep-lock, or an event of the disk: it finishes its request (`Disk`), and
its interrupt is handled (`Ideintr`) any time later. `mru` is the list that brelse
reorders and bget scans from both ends; `idequeue`, `flags` and `active` are the
driver's. A caller reads a block, changes and pins it as log_write does, or writes it as
the commit does. A caller holds one buffer at a time; one that holds two, like the
commit, counts as two callers, and the order in which it takes them is not in the model.

Run `disk`: two callers, three blocks, two buffers, one of which may be pinned, so that
misses recycle buffers and both callers want the same block, the same buffer, or more
buffers than there are ("bget: no buffers"). `ImplementsBlockStore`: whatever is in which
buffer, a caller that has a block has it alone and finds in it what the last one left.
`WrittenThrough`: when bwrite returns, the disk has the block. `PanicOnlyWhenFull`: bget
panics only when each buffer is pinned or somebody's. `RequestsServed`: each request is
answered. Fairness is weak for the disk and its interrupt, which stay pending, and for
the return of the caller that has been woken.

### Fs

A step is one critical section of `icache.lock` or of a buffer, the taking of an
inode's lock (`Lock`, for whatever inode the label needs), or what is done under it up
to the next lock. `dinode`, `ents`, `up` and `bitmap` are the disk, as the calls see it
through the cache and the log; `copy`, `valid`, `ref` and `lock` the inode cache. `puts`
is what a process is to iput next: `iput` has four steps, as what it has read of `ref` may be
old when it acts on it. `Walk` is a round of namex; `Create`, `CreateExists`, `CreateNew`,
`Made`, `Link`, `DirLink`, `LinkFails`, `Bad`, `Unlink`, `UnlinkEntry`, `UnlinkFails`,
`Chdir`, `SetCwd`, `Open`, `Close`, `Chmod` and `Write` are the calls between one lock
and the next, each with its failures. A panic stops everybody (`panicked`).

Run `fs`: two processes, each with one of eight scripts over a file, its link, a
directory, one within it and a device, and any name for the file that mkfs made; five inodes, four
cache entries and four blocks, so that each of them runs out somewhere.
`LinksExact`: the links of each inode are its names, in every state of two calls at
once and on every error path, and never fewer; what somebody makes in a directory that another
process has just removed may have more and is kept for ever (`removed`), see below. `InodesKept`: reference counts are exact, what
a process uses is allocated, the cache agrees with the disk, and no panic but those of
exhaustion is reached. `BlocksOnce`: a block belongs to one inode and is marked in use.
`OnlyIputDeadlocks`: two processes wait for each other only if one does so in iput.
Deadlock is not checked, because that one does occur. No script opens the `..` of a current
directory whose parent may be gone: what it finds there is one of the disagreements below.

### Files, Console, Terminal and Shell

`Files`: one step is one critical section of `ftable.lock` or of a pipe's lock. A
process that must wait keeps the pipe's lock until it is asleep (`FallAsleep`), and
`Kill` may come between its test of `killed` and that. pipealloc and fork's
duplication of descriptors are one step each: what they build is nobody else's before they
return. The counters are kept modulo `MOD`, which the ring's size divides, as 512
divides 2^32.

`Console`: one step is one critical section of `cons.lock`; one key at a time, as a
reader that is woken waits for the lock anyway. The indices are kept modulo `CMOD`.
`ImplementsTerminal` maps the ring to a line in progress and what has been handed over.

`Shell` is the composition: each process of init and sh with its place in the program
(`pc`), its command and, after exec, echo or cat. Every system call they make is a
step or several of `Files` and `Console`, with fork, exit and wait as far as they
concern children and descriptors. `Command` is what parsecmd makes of the lines, `Commands` those commands and their parts. The
loop in which sh opens the console until it has descriptor 3, `cd`, and redirections of
standard input are left out.

Run `io`: init, the shell and up to five processes for what is typed; five files, two
pipes of two bytes, six descriptors, a console of four characters. The lines are a
command, pipelines of two and three, a list with a pipeline, a background and a
redirected command, lines that need more processes, files or pipes than there are at each
fork and pipe, edited lines, more characters than the ring holds; in two of the scripts
any process of a line is killed at any time. `RefsExact`: the file table, descriptors,
ends of pipes and their pages agree at every step of fork, dup, close and exit.
`OutputRight`: what is printed is what the commands mean (`Prints`), all of it when the
prompt is back, with writers faster than readers, counters that wrap and reads of any
split. `PromptBack`: the shell comes back from each line, whoever died or could not
start. `ImplementsTerminal`: the console as above, with its real readers. The fairness is
only that something which can go on does: scripts are finite, so each behaviour ends, and
it must end at the prompt. The kernel's is stronger. Deadlock is not checked: when the script
is typed, all wait.

## What is proved

tlapm checks the proofs in the eight `*_proofs` modules; they assume only the named
assumptions on the constants (`ProcsAssumption`, `NCPUAssumption`, `ProcAssumption`,
`LogAssumption`, `PageSwapAssumption`, `PrioSchedAssumption`, `BcacheAssumption`,
`SpinlockAssumption`, `SigSchedAssumption`, `FilesAssumption`, `ConsoleAssumption`,
`ShellAssumption`, `FsAssumption`: sizes are natural numbers, tables are not
empty, names are distinct, a process has at least three descriptors, the parts of a command are
commands, calls have paths with a name) and hold for every number of processes, CPUs, buffers, slots,
blocks, pages, frames, files, pipes and log sizes. The theorems that hold for some uses of the code only
name these as hypotheses: Log's `SpaceCorrect`, Bcache's `Refinement`, those of SigSched
and of PageSwap. Each hypothesis is one that a run's configuration meets and is needed: the
list of disagreements below has what happens without it.

- **Sleepers_proofs**, of SleepLock: type correctness, `MutualExclusion`, `NoLostWakeup`,
  `OffCpuHoldsNoSpinlock`, `NeverPanics` (releasesleep's caller holds the lock), and that SleepLock implements Mutex. The
  invariant says exactly at which labels each spinlock is held, that a process
  leaves the CPU only in sched with `ptable.lock`, that `locked` and `lk->pid` agree with
  who is between acquiresleep and releasesleep, and that whoever has seen the lock taken
  sleeps only while it is still taken or its releaser has yet to call wakeup1. Mutual
  exclusion alone is not inductive: it needs to know who holds the spinlocks.
- **Sleepers_proofs**, of Log: `Refinement` (the log implements AtomicDisk), `SpaceCorrect`
  (`NeverTooBig`), `CommitAlone`, `NoIdleSleeper` and type correctness. The invariant has four parts:
  `Names` (the log names no block twice), `Reserved` (the logged blocks and the blocks
  that the calls in progress may still log, counted by the set `Room` of one token for each,
  fit in the log), `Phased` (who may run in which phase) and `Copies` (which copies of a
  block agree in which phase). `SpaceCorrect` assumes that calls leave at least one block
  of their reservation and that this slack makes up for the header's block:
  `OpBlocks < MAXOPBLOCKS` and `LOGSIZE + OpBlocks + 2 <= NLOG + MAXOPBLOCKS`; the list of
  disagreements says what happens without. Each step then maps to a step of AtomicDisk or to a stutter.
- **Proc_proofs**: type correctness, `NoLostExit`, `ParentLive`, `ParentOlder`,
  `HistoryOfTheDead`, `UniquePids` (processes have different pids) and `Lifecycle` (each
  step moves each slot along the legal life cycle). The invariant adds that a process in
  fork owns an EMBRYO of its own, younger than it; that pids stay below nextpid; that free
  slots have no parent (a stale pointer there would become a parent at the next
  fork); and that the history's pids have been given out. The main lemma is `ExitZombieIInv`: exit's
  critical section hands the children to init and wakes both the parent and init where
  they must hear of it. fork's three outcomes, kill and wait's reaping have a lemma each
  (`ForkAllocIInv`, `ForkNoMemoryIInv`, `ForkRunIInv`, `KillIInv`, `WaitReapIInv`).
- **Bcache_proofs**: type correctness, `BwriteWritesThrough` (`WrittenThrough`),
  `PanicsOnlyWhenFull` and `Refinement` (the cache implements BlockStore), the last for a disk that
  does not fail, since ideintr marks also a failed read valid. One buffer per block is not
  inductive by itself: bget's scan, its recycling and brelse must keep refcnt equal to the number
  of callers between bget and brelse (`CountInv`), so that no buffer in use is recycled. The rest of
  the invariant ties a buffer's lock to the one caller who is past acquiresleep (`InsideInv`,
  `LockInv`), gives the flags at each label, says that idequeue holds the buffer of each
  caller asleep in iderw, once (`QueuedInv`, `OnceInv`, `AsleepInv`), that the disk works on the
  queue's head (`ActiveInv`, `DoneInv`), and, for the refinement, that a buffer that is valid and not
  dirty agrees with the disk (`CleanInv`). A step maps to a step of BlockStore or to a stutter.
- **Spinlock_proofs**: type correctness, `Exclusion` (`MutualExclusion`), `NoPanic` (`NeverPanics`),
  `InterruptsRightly` (`InterruptsRight`) and `MyprocRight` (`MyprocIsCaller`), for any number of
  CPUs and processes. ncli, intena and the interrupt flag belong to a CPU while the code that
  reads them belongs to a thread that moves between CPUs: the invariant says what each point
  of the code has pushed, which locks it owns and what it has marked (`Depth`, `OwnsAt`, `MarkedAt`),
  that a CPU's ncli, flag, intena and locks are those of the point its thread is at, that
  threads which are on no CPU are where swtch left them (`OffInv`), and that an interrupt's frame returns to a
  point with nothing pushed (`FramesInv`). `ptable.lock`, taken by one thread and
  released by another, is the case that decides.
- **Scheduler_proofs**, of SigSched, all while nobody presses ^B (`2 \notin Signals`), which suspends, wakes and
  reparents whatever it finds: `RunningRight` (`RunningHasCpu`), `NoZombieRuns` (`ZombieStays`),
  `NoEmbryoRuns` (`OnlyBuiltRun`), `OutOfTimeRight` (`OutOfTimeExits`) and `DeferredStarts` (`StartedByStart`)
  with any limits and number of forks; `NoExitLost` (`NoLostExit`) and `OpsRight` (`OpsEnd`) without limits, because the
  scheduler's sweep makes zombies of processes anywhere in the kernel. The invariant: a fork
  owns its embryo alone (`BuildInv`), what may run is built and has not exited (`StartedInv`), a process
  out of time is in the kernel and killed (`TimeInv`), nobody is its own parent (`FamilyInv`), and
  whoever the keyboard's interrupt moves out of user space is the running process
  (`CpuInv`). With ^B, ^F and a limit, `OutOfTimeExits` fails as soon as two children can be forked (`MaxPid = 4`):
  the keys make an embryo ready whose time is what the last owner of the slot left, and the sweep takes it from the fork.

  Of PrioSched, which it instantiates as `P` over the same slots (`P!Sizes` is `PrioSchedAssumption`,
  as a hypothesis): `WaitIsBounded` (`WaitBounded`) from `Thinning`, which is inductive: at most
  `NPROC - 1 - k` processes stand more than `BETA * k` above the priority they
  started with. A scan lifts every ready one by `BETA` and takes the highest out, so
  those above level k + 1 afterwards were above k before, less one.
- **PageSwap_proofs**: `SlotsStayExclusive` (`SlotsExclusive`), with every call in the
  background and any cache, for programs that do not touch pages they do not have
  (`"stray" \notin Calls`: an empty entry reads as slot 0). Not the entries alone but the
  calls in progress have claims on slots: a fault reads one for a page, a swap-out or a fork fills one. The
  invariant says that a claimed slot is not free and has one claimant (`Exclusive`), that a
  victim has run and has not been reaped (`Swapping`: the page table that swapAndPageOut writes is not
  a new child's), that a child belongs to one fork (`Forking`), that a slot being read belongs to
  the page faulted on (`Paging`), and that free entries of the process table have empty page tables
  (`Unborn`: a new child inherits no slot).

  The others are for parents that wait for their children (`~Background`), of any number.
  `FramesHaveOneOwner` (`FramesAccounted`), fork and exec included: one process does
  anything at a time, everyone else waits on a chain of parents (`OneAtATime`, `IdleInv`), and each frame is
  free or has one claim, of an entry or of the call it was allocated for (`FramesInv`). `NothingLeaks` (`StorageAccounted`)
  without fork, exec and sbrk's shrinking, which leave slots taken: each taken slot has
  an owner and no entries are left beyond sz (`KeptInv`). `ProgramsRunOwnPages` (`RunsOwnPages`) and
  `SwappingIsInvisible` (`PagesKept`) without fork (copyuvm may copy a freed frame) and without cached blocks (a
  fault that never sleeps returns on the victim's page table), but with exec, shrinking and touches of
  buffers, which the run `swap` does not have: who runs or waits is on its own page table, and who
  finds no frame has swapped nothing out since it last slept (`OwnInv`); the blocks copied so far are equal up to `blk`,
  and a page that is nowhere else is in the frame or slot of the call that moves it
  (`DataInv`). `MemoryIsNotLost` (`MemoryLasts`) without fork and shrinking, which make rss wrong (see
  the disagreements): rss is the number of pages in memory (`ExactInv`), so that while no frame is free the highest
  rss is that of a process with a page to swap out (`SomeVictim`), and a round of checkAndSwap that
  ends has freed a frame or found no slot (`Searching`). It assumes of the policy that
  it swaps something out (`NPAGES > 0`; the code starts with 4) and of rss that it does not wrap
  (`MaxPages < RSS_MOD`).
- **Shell_proofs**: `RefsStayExact` (`RefsExact`), in every run of the shell: any commands and
  scripts, any kill, any sizes. Counting alone is not inductive: a close that takes a
  file's last descriptor leaves the end of the pipe with the closer, outside the file
  table, until pipeclose has the pipe's lock. The invariant says that a file's count is the number of
  its descriptors (`CountInv`), that an end of a pipe is one file's or one closer's and
  never two's (`EndsInv`), that it is open as long as it is somebody's (`PipesInv`), and that who is
  in a read or write has a descriptor of that end, which it cannot close meanwhile
  (`CallsInv`, and `Close` only by processes that are in no call). Of the shell it needs that
  a free slot and a zombie hold nothing (`ShellInv`), because fork copies over the
  slot's descriptors without counting them down, and that whoever is inside a pipeline's or a list's
  steps has a command of that kind (`Place`).

  `TerminalImplemented` (`ImplementsTerminal`): consoleintr's ring of INPUT_BUF characters and its
  indices r, w and e implement Terminal, whatever is typed, for any size of the ring and any readers.
  The characters from r to w are what is ready and those from w to e the line. The invariant
  (`ConsoleInv`) says that the two together fit in the ring and that nothing on the line ends it. The
  indices are never reduced to the ring but wrap at the width of an unsigned int, a multiple of
  INPUT_BUF: most of the proof is about remainders. It assumes that characters and the two
  editing keys are all that is typed (`ShellAssumption`).

- **Fs_proofs**: `EachBlockOnce` (`BlocksOnce`), `CacheKept` (the reference counts and the cache,
  the first half of `InodesKept`) and `NothingFreedTwice` (bfree never panics), for all paths and
  calls, those with directories within directories and `..` included. That blocks and inodes agree is not inductive by
  itself: a call that gives its inode a block writes back the copy it has, which must be the
  inode on the disk. The invariant `BlocksInv` therefore says which locks a process holds at each label
  and which inodes it has there (`CallInv`, `LocksInv`); that references are counted by the
  places that have the inode, so what somebody has locked cannot leave the cache
  (`RefsInv`); and that a cached inode that is referred to is as on the disk, unless its last user
  has just freed it and has yet to mark the copy (`CacheInv`, `Freed`). It also needs that create and
  unlink never have one inode as both the directory and its entry: the inode that is
  not locked yet differs from the directory that is.

  `LinksCounted` (`LinksExact`), `InodesInUseKept` (`InodesKept`), `OutOnly` (its last part: panics
  are of exhaustion) and `IputOnlyDeadlocks` (`OnlyIputDeadlocks`) are of the form
  `Spec /\ []ParentsNamed => []P`: no process is ever in a directory whose parent has been removed.
  Without that the code is wrong: its `..` names a free inode (see the disagreements). In the run
  `fs` every reachable state satisfies it, removed current directories included. The invariant `LinkInv` says
  that entries are in directories and to allocated inodes, and a subdirectory's `..` is the
  directory that it is in (`DirsInv`); that what a process has is allocated (`UsedInv`), because an inode is
  freed by its last user only; that a process is alone with the inode that it makes or is about to
  free, and that an entry which unlink has found is still there when it is cleared (`PlacesInv`);
  and that links are names and what calls owe (`CountInv`). All that is not inductive while a call may make a
  name in a directory that is gone: freeing that directory would leave its entry in nothing. `NamesInv`
  says that what is there is in `removed` and has nothing in it, since its own parent has no name.
  That two waiting processes include one in iput is then that create and unlink hold a
  directory and want what is in it: for two to want each other's, each would be in the other.

## What is only model-checked

Liveness (`Progress`, `KilledExits`, `OrphansReaped`, `SleeperWoken`, `CpuGivenUp`,
`NotPassedOver`, `RequestsServed`, `PromptBack`), which the prover cannot handle, and the output
of Shell's programs (`Prints`, in ShellOutput, is recursive, so `OutputRight` stays with TLC).
Every other property that a run checks is proved, under the assumptions named above.

Of what is proved, SleepLock's `MutualExclusion`,
`NeverPanics` and `OffCpuHoldsNoSpinlock`, `ParentOlder`, `UniquePids`, `Lifecycle`, `CommitAlone`,
`NoIdleSleeper`, `Thinning`, SigSched's `ZombieStays`, `OnlyBuiltRun` and `StartedByStart`, and the type invariants are
in no run of their own.

## Where the code and its words disagree

No run expects a violation; each of the following shows in a small configuration that changes the constants
of a run:

| what the code does | module and constants | violated |
|---|---|---|
| iput reads `ref` and decides, gives its lock back, and counts down afterwards (fs.c:347, fs.c:360): two processes that put the last two references to a file without links may both read 2, and neither frees it, where the comment says "If that was the last reference and the inode has no links to it, free the inode (and its content) on disk." (fs.c:337) | Fs as in `fs` | `LastPutFrees` |
| create and unlink hold an inode's lock while iunlockput(dp) locks the directory once more (sysfile.c:300, sysfile.c:243); another unlink or link that has locked the directory in between waits for the inode: both wait for ever, where usertests.c:855 looks "for deadlocks" of this kind | Fs as in `fs` | absence of deadlock |
| `link("x", "d/.")` waits for itself: dirlink puts the directory that it has locked (fs.c:570) | Fs, a script with such a call | absence of deadlock |
| a name made in a directory that is removed between namex and its lock is lost with its inode (sysfile.c:265) | Fs as in `fs`, `removed` not excepted | `LinksExact` |
| `..` of a current directory whose parent has been removed is a free inode: "ilock: no type" | Fs, a script that enters d/y, removes both and opens `..` | `InodesKept` |
| read and write test `f->ip->mode` (Enhanced-Shell sysfile.c:80, sysfile.c:100) also of a pipe, which has no inode | read in the code | |
| ideintr marks a buffer valid also when the disk has failed the read (ide.c:118) | Bcache as in `disk`, `Errors = {TRUE, FALSE}` | `ImplementsBlockStore` |
| copyuvm takes the frame of the parent's page from its entry, then calls kalloc, which may swap that very page out: the child gets a copy of a freed frame (vm.c:422) | PageSwap as in `swap`, `Calls = {"fork"}`, three slots | `PagesKept` |
| an execution limit that runs out in a file-system call makes the process a ZOMBIE in the scheduler; end_op is never called and nothing is committed any more (proc.c:436) | SigSched, `Signals = {}`, limit 1, `NPROC = 3` | `OpsEnd` |
| `block 6` does not stop the process that called it, but its children (for exec its grandchildren): syscall() looks at `parent->blocked` (syscall.c:195), where the README of Enhanced-Shell speaks of the block state of a process | Proc: a behaviour of its block and exec steps | |
| mkfs counts the header among `sb.nlog` and log_write refuses the block that would fill the log, so calls that use all they reserve panic (log.c:218) | Log, `NLOG = LOGSIZE`, `OpBlocks = MAXOPBLOCKS` | `NeverTooBig` |
| a fault's page, read from cached blocks, returns to the program on the page table of a victim (pageswap.c:175) | PageSwap as in `swap`, `Cached = TRUE` | `RunsOwnPages` |
| exec frees no slot of the old image, a fork that fails none of the child's, and sbrk none of the pages it takes away (exec.c:104, vm.c:297, vm.c:282) | PageSwap, `Calls = {"exec"}`, `{"fork"}`, `{"shrink"}` | `SlotsAccounted` |
| sbrk counts a page that is swapped out among those leaving memory, and a child starts with the parent's rss (proc.c:193, proc.c:226) | PageSwap, `Calls = {"shrink"}`, `{"fork"}` | `RssExact` |
| with an rss of 0 that is wrong nobody is a victim, and kalloc fails with the swap area empty | PageSwap, `Calls = {"shrink"}` | `MemoryLasts` |
| a touch of an empty entry reads slot 0 and frees it (pageswap.c:189) | PageSwap, `Calls = {"stray"}` | `SlotsExclusive` |
| a store between the write of a page and its entry is lost; two swap out the same page; a process exits while another swaps its page out | PageSwap, `Background = TRUE`, `Calls = {}` | `PagesKept`, `FramesAccounted`, `SlotsAccounted`, `RssExact` |
| a system call that touches a buffer on a page swapped out panics (trap.c:84) | PageSwap, `Calls = {"buffer"}`: `panic = "trap"` | |
| the scheduler's zombie does not wake its parent (proc.c:436) | SigSched, `Signals = {}`, limit 1, `NPROC = 3` | `NoLostExit` |
| ^B gives the shell's zombies to a sleeping init (proc.c:696) | SigSched, `Signals = {2}`, no limits, `NPROC = 4` | `NoLostExit` |
| ^B makes a shell ready that has exited (proc.c:691): "zombie exit" | SigSched, `Signals = {2}`, `NPROC = 3` | `ZombieStays` |
| ^B marks the running shell RUNNABLE, and the timer, which preempts RUNNING processes only, lets it run on | the same, with `FairSpec` | `CpuGivenUp` |
| ^B and ^F make a child ready that fork is still building (proc.c:719) | SigSched, `Signals = {2, 3}`, `NPROC = 4` | `OnlyBuiltRun` |
| ^B and ^F start a process forked with start_later | SigSched, `Signals = {2, 3}`, `Laters = {TRUE}` | `StartedByStart` |
| ^C does not end a process that was never started, or one that ^B suspended | SigSched, `Signals = {1}`, `Laters = {TRUE}`, `FairSpec` | `KilledExits` |
| a kill between a pipe's or the console's test of killed and its sleep wakes nobody (pipe.c:107) | Proc, `Chans = {Pipe}`, `FairSpec` | `KilledExits` |
| kill(0) marks a free slot, allocproc leaves the mark, and the next process there dies at birth (Enhanced-Shell proc.c:519) | Proc, `KillPids = {0}`: a behaviour, no property of the runs is violated | |

The last two are as in the xv6 that these kernels extend.

## Bounds

Slots, pids and ticks are small because the actions compare them for equality and order
only. Three slots are init, its shell and a child, which loses its parent to init; what a fourth
would add is said at `proc`. Two CPUs are enough for any race of two processes; a third only adds
waiting. `MaxPid` limits how often a slot is reused: in the runs a free slot is taken again at
least once where `MaxPid` exceeds what is alive. PrioSched's counters are finite because
the bound it checks holds. Runs with `CHECK_DEADLOCK FALSE` are those in which the
kernel may panic or nothing is left to do (the others check deadlock: Proc and Bcache have a
step for the halted kernel).

## Not modelled

Not modelled, and why:

- SIGCUSTOM's delivery: it changes the user's stack and no process state. The
  compositions of SigSched with Log and SleepLock (what a suspended process holds) and
  of Bcache with Log (NBUF = LOGSIZE) are too large for TLC with both parts whole; each
  part's side is modelled.
- Reading, offsets and sizes of files, and files of more than one block: loops over
  blocks under one inode's lock, which other processes cannot see.
- exec's reading of an ELF file, argument fetching, login's comparison of names, parsing
  in the shell, malloc, printf, the test programs: sequential code with no state that
  others change, where tests reach every case.
- Boot, traps, page-table format and device registers: straight-line code against
  hardware manuals. mkfs appears through the constants it fixes and the tree that `Fs`
  starts from.
- Spinlocks are atomic sections in all modules but Spinlock and SleepLock. A machine with
  weaker memory than theirs is not modelled: acquire and release have the barriers.

Within the modelled parts, files and current directories of processes are left out of
Proc and SigSched, as is the user's trap frame; begin_op and end_op stand for a
file-system call in SigSched.
