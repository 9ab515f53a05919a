# ShovelOS, modelled in TLA+

ShovelOS is a small kernel in C for several machines: the BBC micro:bit (ARMv6-M, nRF51822),
the BeagleBoard xM and the IGEPv5 (ARMv7-A, OMAP), a port hosted on a desktop operating system,
and the beginning of a PC port. This directory holds TLA+ modules of the parts of it that are
hard to get right and hard to test, the TLC configurations that check them on small instances,
and proofs, checked by TLAPS, of the properties that matter most.

File paths below are relative to `src/src/kernel`. There are no unit tests in the repository:
its continuous integration builds the ports and runs nothing.

## The system

| Part | State it keeps | Operations | Talks to |
|---|---|---|---|
| Scheduler (`sched/sched.c`, `sched_sleep.c`, `arch/arm_m/context`) | run queue of 32 slots and the current one; per kthread: flags, wake-up time, saved registers, stack with a canary | create, exit, join, yield, sleep; the switch itself, from PendSV | page allocator and kmalloc (stacks, kthreads), oneshot timer, system clock |
| Oneshot timer (`drivers/ns/nRF51822/timer/timer.c`, `drivers/ti/omap/timer/timer.c`) | armed or not, the callback | oneshot, its interrupt, calibration (OMAP) | scheduler |
| System clock (`timer/system_time.c`) | a base in seconds and the counter value it stands for, the last reading | start, get, compare, add, subtract | free-running counter (`*/sync_timer.c`); called by the scheduler, by sleepers, and from every interrupt through `heartbeat_update` |
| Page allocator (`memory/page2.c`, `lib/alloc/buddy_alloc.c`) | two bitmaps per order, a count of pages | get, free | boot pages (for its own bitmaps) |
| Boot pages (`memory/boot_pages.c`) | a bump pointer | get, get aligned, end | page allocator, page tables |
| Object caches and kmalloc (`memory/mem_cache.c`, `kmalloc.c`, `kmalloc_tiny.c`) | lists of slabs with bitmaps; pools by size | cache new, alloc, free; kmalloc, kfree | page allocator |
| Byte and packet FIFOs (`memory/fifo_buffer.c`, `fifo_packet_buffer.c`) | ring, two indices, two counts; a lock flag | put, get; lock, cancel, release on either side | UART, random number generator, radio |
| nRF51822 UART, HWRNG, radio (`drivers/ns/nRF51822`) | FIFOs, device registers, radio state | open, read, write, ioctl, interrupt handler | FIFOs, scheduler (yield while blocked) |
| OMAP UART and interrupt controller, OMAP timers; GIC; NVIC | handler tables, masks, two rings | open, read, write; register, unmask, dispatch | console, scheduler |
| Hosted UART (`drivers/hosted/uart/uart.c`) | a context per device, two rings, a service thread of the host, a mutex of the host | open, read, write, close; the service thread | console |
| Registries (`chardevice`, `timer`, `gpio`, `interrupt_controller`) | one slot per kind of device | install, open | drivers |
| Mutexes, spinlocks (`arch/*/concurrency`) | a word | lock, try, unlock | scheduler |
| Page tables (`arch/arm_a/mm/VMSAv7`, `VMSAv6`) | first and second level tables, what the TLB holds of them | set up at boot; map and unmap a region | boot pages, kmalloc (second-level tables), drivers that map their registers |
| Hosted port, PC port, boot loader | threads of the host, a screen, a disk | | |

What is hard in it:

* **Pre-emption.** Threads are pre-empted between any two instructions that do not run with
  interrupts off. The scheduler's own data is guarded; the allocators take no lock at all.
* **Nested interrupts.** PendSV has the lowest priority: every other interrupt may run inside a
  task switch. On the micro:bit `spinlock_lock_irqsave` disables interrupts only outside of
  interrupt handlers.
* **Liveness by hand.** A time slice ends because somebody armed a oneshot timer at the end of
  the last switch. A path that forgets to, and one thread has the processor for ever.
* **State inferred from other state.** The page allocator is not told the size of a block that
  comes back: it reads it off the bits around it.
* **Wrap-around.** The clock is assembled from a counter that wraps, by whoever asks for the
  time, and must not gain or lose anything on the way.

What makes each part correct, in a sentence each: *scheduler*: the current slot is the thread on
the processor, no kthread is queued twice, freed in use or lost, a smashed stack is caught,
slices end, sleepers wake and not early; *clock*: it never runs ahead, never goes back, and is
at most a tick late; *page allocator*: nobody is given a page that somebody has, a block comes
back with the size it left with, free pages can be found; *caches*: the same for objects, and
slabs go back to the pages; *FIFOs*: what comes out is what went in, in order, and full is told
from empty; *drivers*: no byte is lost between a writer and the interrupt handler, and the
device does not stall; *mutex*: one owner, and a thread that waits does not keep the owner from
running.

## The modules

### Sched, MCSched, SchedProofs

The scheduler as it runs on the micro:bit: `sched.c` and `sched_sleep.c` with the port's PendSV
handler and oneshot timer. The variables are the fields of `struct run_queue` and `struct
kthread` under their own names, what each thread is executing (`pc`, `child`, `until` for its
locals), and the processor: whose registers it holds (`cpu`), whether it runs a thread, the
handler or the handler's last instructions (`mode`), the pending bit of PendSV, the timer, the
clock.

A step of a thread is what it does between two points where it can be pre-empted. A
`SCHED_CRITICAL` section is one step; between two of them, and before and after, anything may
happen. So `kthread_sleep_ts` is four steps (read the clock, set the flag, yield, return), and
`kthread_create` two or three: the kthread is allocated outside of the lock, put into the queue
inside it (`run_queue_add`), and, if the queue was full, freed outside of it (`CreateRefused`). The
handler is three: entry, `_arch_irq_task_switch`, and the write to `PENDSVCLR`, because a timer
event may arrive between the second and the third. `halted` stands for `_bug()` and for a hard
fault, neither of which returns. The model halts too when there is no page for a stack, where the
code writes through a null pointer. Every exit halts (`sched_exit`), so no run reaches the branch
of `JoinTest` that frees a joined kthread: of it there is the proof of `OneHome`, and no run.

Properties: `CurrentOnCpu`, `OneHome`, `OverflowCaught`, `Preemptible` (invariants),
`SleepNotEarly` (of steps), `RunnableRuns`, `SleepersWake` (liveness), `SwitchHasCurrent` (an
assertion of the code, which does not hold).

### SystemTime, SystemTimeProofs

`timer/system_time.c` over a counter of `Period` values. A reading by a thread (interrupts off)
or by an interrupt handler is one step. A reading by `_arch_irq_task_switch`, where
`spinlock_lock_irqsave` does nothing, is three: between them the counter runs, and when `Nested`
holds an interrupt handler makes a reading of its own. The true time, `elapsed`, is seen by the
properties only.

Properties: `NeverAhead`, `BaseExact`, `Monotone`, `Fresh`.

### Bits, BuddyAlloc, Page2, PageAllocator, PageProofs

`BuddyAlloc` is the bitmaps of `lib/alloc/buddy_alloc.c`: the operators of the code, with its
names, on sets of the places of one bits. The bitmaps of all orders share one array of words,
as in the code, so that a bit beyond the end of one order's words is a bit of the next: a place
is a pair of an order and a bit, and `Place` moves a bit that its order has no word for to the
order above. `Bits` is `BIT` of `arch/common/word_t.h`.
`Page2` is `memory/page2.c` over them, with the blocks that callers have as a variable of its
own that no operator of the allocator reads. `PageAllocator` is what `page.h` promises: blocks
of pages that nobody has, taken back as they were given, and a count. `Page2` implements it
(`PromiseKept`).

Properties: `Disjoint`, `InHeap`, `RightOrder`, `SinglePageServed`, `Coalesced`, `PromiseKept`.
`InHeap` fails in a heap that ends inside a block (`pages_heap_end`); `InWholeHeap` is the same for
a heap that its top order fills, and has a theorem rather than a run.

### FifoBuffer, BoundedQueue, NrfUart, MCNrfUart, and their proofs

`FifoBuffer` is the struct and the functions of `memory/fifo_buffer.c`, as operators on a record
with the fields of the struct. It has no variables: who calls the functions, and what keeps two
callers apart, is the business of a driver. `BoundedQueue` is what a driver expects of it.

`NrfUart` is `drivers/ns/nRF51822/uart/uart.c`: threads in `_write` (`pc`, `count`), the handler
(`irq` and its local `b`), the event and interrupt registers, the byte the device is sending
(`TXD`), and what it has sent (`wire`, seen by the properties only). With the lock of the
context held interrupts are off, so a thread with the lock has only the device beside it; each
byte put is a step. Without it, an interrupt that is pending comes before the next instruction.
The handler is two steps, because the device may finish between `TXDRDY = 0` and `TXD = b`.
`written` numbers the bytes of each thread, so that a lost one, a second copy and a wrong order
can be told apart. Two returns of `_write` are left out: that for `_NONBLOCK`, which nothing sets,
and that for a caller in an interrupt handler, which writes nothing and changes nothing.

Properties: `NothingLost`, `NeverStalls` (invariants), `NoOverrun` (of steps), `IsQueue` (the
ring implements `BoundedQueue`), `WriteReturns`, `AllSent` (liveness).

### BootPages, MemCache, Descriptors, PageTables, KernelMemory, MCKernelMemory, MemoryProofs

All the memory of a kernel with an MMU, from the first boot page on. Four modules have no
variables: they are the operators of one source file each, on a record that the operation takes
and returns.

* `BootPages` is `memory/boot_pages.c`, with the arithmetic of `size_t` where it wraps: the bound
  that `_heap_pages` computes is far larger than the memory.
* `MemCache` is `memory/mem_cache.c` and `kmalloc.c`: slabs in three lists, bitmaps, descriptors
  of slabs that take pages of their own, and pools that are made when first asked for. Its
  record, `heap`, has the free pages too, of which only "the lowest free page" is asked for here;
  the buddy allocator has a model of its own.
* `Descriptors` builds the words of both MMU formats from the headers under `arch/arm_a/mm`, as
  sets of bits, and reads them back as the architecture manual says the hardware does.
* `PageTables` is `init_page_tables.c` and `vm_map`: a first-level table, second-level tables
  from boot pages or from `kmalloc(1024)`, and `tlb`, every translation the processor may have
  seen since it was last told to forget. RAM gets the attributes that `init_page_tables.c` spells
  out (`AskedOfRam`), everything else those that `vm_map` makes of its flags (`AskedOfFlags`;
  nobody gives it `MMU_RAM`).
* `KernelMemory` composes them, and has the variables. It boots (`boot_stack`, `TakeTables`,
  `get_free_page_setup`, `vm_map_device_regions`); then clients allocate and free (`Kmalloc`,
  `Kfree`), free what they no longer have (`KfreeAgain`: a second `kfree`, or an address in the
  middle of an object), threads get and return stacks, and UARTs are opened and closed. Calls are
  made one at a time, which is what the code needs and does not enforce.

`_chrd_open` and `_close` are those of `drivers/ti/omap/uart/uart.c`, with all that they do to
memory: the registers are mapped, then come the context and two FIFOs of a page. An open that
fails after `vm_map` gives the context and the first FIFO back and leaves the registers mapped
(`OpenFails`), so `mapped` is what was mapped and not unmapped since, open or not. Nothing keeps a
UART from being opened while it is open, by the same name or another (the serial console, the dev
console and the third UART are one device): `uarts` has an instance for each open, and closing one
unmaps the registers of all of the same device. A close leaves the FIFOs' pages allocated, and
`fifos` keeps them.

Properties: `OneOwner` (of every byte), `PagesAccounted` (no page is lost: each is somebody's, and
only one's), `ChunksAreObjects` (the lists and bitmaps say what clients have), `MapExact` (the
tables map RAM and the devices that boot or an open, even one that failed later, has mapped and no
close has unmapped since, and nothing else, and the TLB holds nothing older),
`DescriptorsReadBack` (invariants), `FailsOnlyWhenFull`, `RegistersStay` (of steps: only a close of
the same device takes the registers from an open UART).

### Radio, PacketFifo, Hwrng, OmapUart, OmapIntc, HostedUart, Mutex, Drivers, MCDrivers, and their proofs

One module per driver, each with the device, the interrupt handler and the threads in its calls
as the actors, and places (`pc`) where one can be held up by another.

* `Hwrng` is `drivers/ns/nRF51822/hwrng/hwrng.c`: readers that empty the ring and start the
  device when they find it empty, and a handler that fills the ring and stops the device when it
  is full. The handler reads `VALUE` and clears `VALRDY` in one step: what the device does with a
  byte that is ready between the two is not in the source.
* `PacketFifo` is `memory/fifo_packet_buffer.c`: slots that are claimed, filled or read, and
  released, and one lock flag. `Radio` is the receiving half of the radio over it: every state of
  the interrupt handler, `ioctl`, `_read`, `_write`, flush and close, and a device that goes from
  RXRU to RXIDLE and back, with good and bad checksums.
* `OmapIntc` is the OMAP interrupt controller: handler table, masks, dispatch by the number in a
  register, end of interrupt. `OmapUart` is the UART and the console above it from the kernel's
  first open on, with two rings, and shares the controller with another line, the timer's.
* `HostedUart` is the UART of the hosted port: a service thread that moves bytes between the
  rings and the terminal, callers, close and a new open. The mutex there is the host's.
* `Mutex` is both assembly mutexes: with interrupts off on ARM-M, with `ldrex` and `strex` on
  ARM-A, where a switch of threads comes between any two instructions and clears the exclusive
  monitor.
* `Drivers` puts one of them on the board (`board`) and states the properties once for all five,
  so that one run checks them.

Properties: `InOrder` (what is handed on was received, whole, once and in order), `NeverStalls`
(nobody waits for an interrupt that is off), `Dispatched` (the handler of the line that is up is
called, once), `OneHolder` (of the mutex), `CallsReturn` (liveness).

## The runs

| Run | Bounds | What it shows |
|---|---|---|
| `sched` | five threads, four slots, time 0..2 | the invariants and `SleepNotEarly`. Four slots: the queue fills, and two creators race for the last slot. Three threads beyond the two that are always there: one creates, one joins, one exits. Two ticks: a deadline can pass before, during and after the yield |
| `sched_live` | four threads, one tick | every runnable thread runs and every sleeper wakes |
| `sched_exit` | three threads | **violation**: see below |
| `sched_tick` | three threads, `LateTick` | **violation**: see below |
| `system_time` | 3 ticks a second, 10 values, 7 ns a second, 30 ticks | the counter wraps three times, with every pattern of readings at most six ticks apart; a second that is not a multiple of a tick, so that the rounding of `sync_freq_factor` shows; 3 does not divide 10, so that `base_tick` takes every value |
| `system_time_nested` | the same, `Nested` | **violation**: see below |
| `pages` | heaps of 5, 6, 7, 8 and 12 pages, requests of 1, 2, 3, 4, 5 and 8 | the allocator's invariants and `PromiseKept`, in heaps that fill their top order and in heaps that end in the middle of one, of two and of no order |
| `pages_heap_end` | a heap of 5 pages | **violation**: see below |
| `pages_alias` | a heap of 65 pages | **violation**: see below |
| `nrf_uart` | two writers, a ring of two bytes, three bytes each in calls of one to three | calls that do not fit block and are cut, the indices go round several times, both writers wait on a full ring at once; three bytes is the least that does not fit a ring of two, and two is the least ring in which a place other than the first exists |
| `kernel_memory` | RAM of 17 pages, an image that ends on page 41 or 43, pages of four units of 1024 bytes, pools of one and two units, two slab descriptors to a page, second-level tables of 8 entries, one stack and three objects at a time; one device of two pages mapped at boot, two UARTs: one in that device's table, one in a table of its own; a context of one unit | memory runs out in every operation, before and after every other, and comes back: slabs fill and empty, descriptors run out, a UART is opened when there is no memory for its table, its context or a FIFO. Seventeen pages are the least that let two UARTs be open, or one twice, and be closed in either order, and then an open still fails at each of its allocations; three objects, with the tables and the contexts, fill slabs of both pools and take the second page of descriptors. Two places for the end of the image: with one, pages are skipped to align the first-level table. The words of all ten formats are built from all 43 memory types, six permissions and every flag, once, on the way |
| `drivers` | rings of two bytes or numbers and FIFOs of one packet; two threads each, three at the mutex; two calls of one to three bytes, three bytes received, two packets, channels 0 and 37, lines 37 and 74 | rings fill, empty and go round; a reader finds nothing and waits; a second thread comes while the first is in a call; a packet comes when the FIFO is full; the radio is closed and opened at every moment; the timer and the UART interrupt at once; three threads at the mutex, so that one is held up between its load and its store while two others take it |

Bounds are constants, and every guard that uses one says so (`MaxTime`, `MaxElapsed`, `MaxGap`,
`MaxBytes`, `MaxStacks`, `MaxObjects`, `MaxCount`, `MaxCalls`, `MaxReceived`). Threads other than the idle and
the boot task may be renamed, which `sched` uses as symmetry; `sched_live` does not, since
symmetry is not sound for liveness. Deadlock is not checked: the bounds stop the clock, `_bug()`
stops the kernel, and an allocator that is full and whose callers keep their pages has nothing
left to do. In `drivers` a radio that was switched off after an error has nothing to send, and
`_fflush` waits for ever. The UART can always receive, and in memory something can always be freed
or the kernel has halted: `nrf_uart` and `kernel_memory` leave the check on, and a
blocked writer is caught by `WriteReturns`. That a counter is asked for the time at least once a
period is the duty of its callers (`timer/system_time.c:76`): `MaxGap` stays below `Period`, and
the model does not say what happens beyond.

### Fairness

`sched_live`: the clock advances, an armed timer fires, the processor takes an
exception that stays pending and executes a handler it has entered. All of it is hardware, and
none is assumed of the threads: a thread may run for ever without calling the kernel.

`nrf_uart`: the handler runs when it can and the device sends what it is given (weak fairness,
of hardware). A thread inside `_write` goes on if it can again and again (strong fairness: it is
held up by the lock of another thread and by interrupts, and both end). For the scheduler that is
`RunnableRuns`, which `sched_live` checks; that interrupts leave the thread some time is a fact
about baud rates. Nobody has to call `_write`, and nothing has to be received.

`drivers`: devices, handlers and booting go on (weak fairness, of hardware and of the only thread
there is at boot). A raised line is served and a thread in a call goes on if it can again and
again (strong fairness: a line waits for the one that is served, a thread for other threads and
for interrupts). So does the service thread of the hosted UART, which the host schedules and
whose mutex lets each in. No thread has to make a call and nothing has to be received. Two bounds
matter here: with calls without end one reader can starve another, and with bytes without end the
receiver of the OMAP UART can starve its transmitter, since it is served first.
`MaxCalls` and `MaxReceived` leave both out: `CallsReturn` says that a call returns when the
others stop. A byte received by `OmapUart` stands for the trigger level of eight.

### Where the code does not do what is said of it

* `sched_exit`: `_arch_irq_task_switch` asserts that the thread being switched out is in the
  run queue. `_exited_kthread` has just taken it out, so any thread that returns from its start
  routine stops the kernel.
* `sched_tick`: the handler writes `PENDSVCLR` after it has armed the timer for the next thread.
  A timer event in between is dropped, and that thread is never pre-empted.
* `system_time_nested`: PendSV reads the counter, and before it uses what it read an interrupt
  handler asks for the time and moves `base_tick` past it. The stale value is now below
  `base_tick`, which PendSV takes for a wrap-around of the counter: in the run it reads 0, three
  ticks later the handler moves `base_tick` to 3, and PendSV adds 0 + (9 - 3) = 6 ticks, two
  seconds that never passed.
* `pages_heap_end`: the mark on the last, incomplete block of an order is removed when the page
  next to the missing one is freed; the missing page is then handed out.
* `pages_alias`: an order's bitmap has no room for the bit of its last, incomplete block. When
  the complete ones fill its words, that bit is the first bit of the next order, and pages are
  handed out twice.

There is no run for one more: `_close` of the OMAP UART, which should "free resources"
(`drivers/ti/omap/uart/uart.c:157`), never calls `fifo_buffer_destroy`. Each open and close costs
the kernel the two pages of its FIFOs. The model does the same: nothing takes a page from `fifos`,
and `PagesAccounted` holds because it counts the pages of closed UARTs too.

## What is proved

For any set of threads, any queue length and any bounds (`SchedAssumption` names what the
constants must satisfy):

* `TypeCorrect`, `CurrentIsOnCpu`, `EveryThreadHasOneHome`, `OverflowIsCaught`: the invariants
  of `sched`, for `Spec`.
* `NobodyKeepsTheProcessor`: `Preemptible`, if no timer event falls into the tail of the handler
  (`LateTick = FALSE`; the run `sched_tick` is why).
* `NoEarlyWake`: `SleepNotEarly`.

The argument: `OneHome` is not inductive by itself. `SchedInv` adds what the handler relies on
without checking it: a kthread that is not on the processor has its own registers saved in its
`cpu_state`; who has a flag set, and who is at which place of its calls, agree; the thread in
the current slot is the one on the processor unless it is on its way out; the boot task is in
its slot until `kthread_init` is done. `StepInv` proves it of each action in a lemma of its own,
and each theorem follows from it. `NobodyKeepsTheProcessor` and `NoEarlyWake` are steps on top
of it: of the timer and the pending bit, and of the flag and the deadline.

For any frequency, period and number of nanoseconds in a second (`ClockAssumption`), with the
counter's last value as the answer of `wrap()` and no nested readings (`Undisturbed`):

* `ClockTyped`, `BaseIsExact`, `ClockNeverAhead`, `ClockMonotone`, `ClockFresh`: `TypeOK`,
  `BaseExact`, `NeverAhead`, `Monotone` and `Fresh`, which is all that the run `system_time` checks.

The argument: `ClockInv` says that `base_tick` is where the counter was `base_ts` seconds after
the start, less than a period ago, and that between two of PendSV's steps its locals are behind
by what has not been added yet. That a fraction of a second cannot reach a second is a fact
about two divisions (`Factor`, `WholeSeconds`), and that the base stays exact across the
wrap-around is one about a remainder (`CounterDistance`, `Between`, `ForwardTime`).

For any set of writers, any number of bytes and any size of the ring (`FifoAssumption`,
`UartAssumption`):

* `UartTyped`, `UartNeverStalls`, `UartNoOverrun`: `TypeOK`, `NeverStalls` and `NoOverrun`.
* `UartNothingLost`: `NothingLost`.
* `RingIsQueue`: `IsQueue`, every step of the driver is a step of `BoundedQueue` or changes
  nothing in it.

The argument: `FifoBufferProofs` shows of one ring that `fifo_buffer_putb` appends to what is to
be read and `fifo_buffer_getb` takes its head, as long as the counts and the indices agree
(`WellFormed`, which both keep). `UartInv` adds to the types and to `NeverStalls` that one thread
at most has the lock, and that while the handler holds a byte nobody has it and the device is
idle: that is why `TXD` is free when it is written, and why `TXDRDY` says that it is. From it
every step but `Fill` leaves the stream (wire, device, handler, ring, one after the other) as it
is, and `Fill` puts a byte with the next number behind it (`StreamGrows`); `NothingLost` follows
by itself.

For any number of threads, on both architectures, and from no assumption:

* `MutexTyped`, `MutualExclusion`: `TypeOK` and `OneHolder` of `Mutex`.

The argument: that one thread at most holds the mutex is kept by a store only if the store finds
the mutex as the load before it did. `SeenAsItIs` says so: while the exclusive monitor of the
processor is not open, the thread that runs has seen the mutex as it still is. A switch of
threads opens the monitor, so nobody's store succeeds on an old load.

For all of `Drivers`, with any threads and any bounds on calls, bytes and packets, rings of any
size and the FIFOs of one packet that the radio has (`DriversAssumption`):

* `DriversTyped`, `DriversInOrder`, `DriversNeverStall`, `DriversDispatch`, `DriversOneHolder`:
  every invariant of `drivers`.

The argument: `DriversInv` has an inductive invariant for each board. `RngInv`, `HostedInv` and
`UartInv` say that the numbers given, then those in the ring, then those still to come follow one
another (`Follow`), which a put and a get keep (`PutFollows`, `GetFollows`, `MoveAhead`), and where
everybody is when an interrupt is off. `RadioInv` ties the state of the radio to the events that
may be set, to the packet in the air and to who has the slot of the FIFO. `MutexInv` is the one
of `MutexProofs`.

For any width of word and any set of heap sizes in which every order has room for the bits of its
blocks (`EveryBitHasRoom`):

* `PagesTyped`, `BlocksDisjoint`, `BlocksInWholeHeap`, `OrderComesBack`, `PageServed`,
  `BlocksCoalesce`: `TypeOK`, `Disjoint`, `InWholeHeap`, `RightOrder`, `SinglePageServed` and
  `Coalesced`.
* `KeepsPromise`: `PromiseKept`, `Page2` implements `PageAllocator`.

`EveryBitHasRoom` is a hypothesis and not an assumption of the module: the run `pages_alias` shows
a heap that lacks it and what happens then. A heap whose blocks are all whole has it
(`WholeHasRoom`), and so have most others: with words of 64 bits one of 129 pages does not, since
two full words of order 0 have no place for the bit of page 128's twin.

The argument has two parts. `PageInv`: a block that is out has both its bits set (`Owned`) and
nothing dirty below it (`Undivided`), what is dirty is dirty all the way up (`DirtyUp`), and the
counter counts. Two blocks that overlapped would make one dirty below the other, so they are
apart; a block that comes back is found at the first dirty order above its page, which is its own
(`OrderFound`); and a free block is found only where nothing is saturated above it, so it is
nobody's. `TreeInv` adds that no bit is set without need: a saturated block is out or has
saturated halves (`SatFrom`), two saturated halves make a saturated block (`SatUp`), and a dirty
one has a reason (`DirtyFrom`). Then a page that is free leaves a path of unsaturated blocks from
the top, the search takes the first, and the search never ends in a page that the heap lacks. Steps
from order to order are an induction over a set of orders (`LeastNatural`, `Climb`).

For any memory, any place where the image ends, any pools, any devices and any sequence of calls,
those that fail and those that free twice among them (`MemCacheAssumption`,
`KernelMemoryAssumption`: chunks divide a page, the image leaves memory behind what booting
takes, devices are apart from memory and from each other and none crosses a megabyte;
`PageTablesAssumption`: the descriptor of a device's page is not the absence of one):

* `MemoryTypes`, `OneOwnerEach`, `NoPageLost`, `ChunksAreObjectsAll`, `MapIsExact`: `TypeOK`,
  `OneOwner`, `PagesAccounted`, `ChunksAreObjects` and `MapExact`.
* `RegistersKept`: `RegistersStay`.
* `FailsRight`: `FailsOnlyWhenFull`, if the root page has room for the cache of every pool (it has
  for dozens, and there are seven) and every size asked for has a pool. The two are
  hypotheses of this theorem alone: without them `kmalloc` answers NULL with memory left, as the
  code does for more than 2048 bytes.

The argument: `MemoryInvariant` proves `MemoryInv`, which says of every phase of booting which
blocks are taken, and from the page allocator's first page on (`Sound`)

* of the heap (`HeapInv`): each slab is in one list of one cache once (`Listed`), the list says
  how much of its bitmap is set (`Marks`), the counter counts the bitmap (`Counted`), and no page is
  at once free, of descriptors and of a slab, or of two slabs (`PagesOnce`);
* of who has what (`Owners`, `PagesInv`): the marked chunks are one for one the objects of clients
  and the tables made for devices, and the pages are the heap's or stacks;
* of the MMU (`MmuInv`): the tables of memory are where booting put them, no two entries have the
  same one, and what is mapped is memory and the devices that boot or an open has mapped and no
  close has unmapped since;
* of the UARTs (`UartInv`): every instance has a context and two FIFOs that no other instance has,
  and no FIFO is a stack.

`mem_cache_alloc` is proved step by step: between `PluckFree` and the mark there is a slab with a
page and nothing marked, which `HeapInv(h, X)` allows for the slabs of X only. What `kmalloc` and
`kfree` do to the marked chunks (`KmallocSpec`, `KfreeSpec`) is all that the page tables and the
clients know of them. `vm_map` is an induction over its pages (`VmMapSpec`): after the first one
the device has its table, so it can only fail before anything is mapped. `OneOwner` follows from
two divisions: chunks of one size in a page do not overlap (`ChunkApart`), and neither do the
tables that booting cuts from its pages (`BootTablesApart`).

For any physical address and any domain, where TLC looks at three addresses and four domains:

* `WordsReadBack`: a word of any of the ten formats, with any memory type, permission and flags, is
  of its kind and reads as what was asked for.
* `DescriptorsRead`: `DescriptorsReadBack`. It needs no invariant, since it is about the build
  functions and not about the state.

A field reads as the number whose bits were put there (`FieldTwo`, `FieldThree`, `FieldFour`). The
sum in `FieldOf` is a recursive function over four bits at most, so it is unrolled rather than
reasoned about by induction. What is left is that nothing else in a word sets a bit of the field
(`Clear`), which is looked at for the three ways that the formats lay the attributes out, and that
the bits of an address above 31 come back from where a supersection puts them (`LongAddress`).

Only model-checked: liveness, since TLAPS does not reason about fairness.

## What is not modelled, and the plan

Each module is written to be proved about: constants with named assumptions, one action per
operation, invariants in named parts, recursive functions rather than recursive operators.

1. *Done*: `Sched`, `SystemTime`, `BuddyAlloc` with `Page2` and `PageAllocator`, `FifoBuffer`
   with `NrfUart` and `BoundedQueue`; `BootPages`, `MemCache`, `Descriptors` and `PageTables` in
   `KernelMemory`; `Hwrng`, `PacketFifo` with `Radio`, `OmapIntc` with `OmapUart`, `HostedUart`
   and `Mutex` in `Drivers`.
2. *Done*: theorems for every invariant and every property of steps that a passing run checks.
   What the theorems still ask for and the code does not guarantee are hypotheses with a name:
   `Undisturbed`, `LateTick = FALSE`, `EveryBitHasRoom`.
3. Two threads inside the unlocked allocators: `mem_cache_alloc` cut between the search and the
   mark. The calls of `KernelMemory` are whole today, so the hazards at `mem_cache.c:305` and
   `page2.c:60` have no property.
4. Registries, the GIC and the NVIC; the calibration of the OMAP timer, whose wrap-around is off
   by one (`drivers/ti/omap/timer/timer.c:229`); `add_system_time`, `sub_system_time` and the
   arithmetic of `kthread_sleep_ms`.

Left out of what is modelled: `kmalloc_tiny.c`; the loops over cache sets and ways; the memory of
drivers other than the OMAP UART (the OMAP timer and the interrupt controller map their registers
and allocate a context in the same way, without FIFOs); a device across a megabyte, of which
`vm_map` could leave one half mapped (`KernelMemoryAssumption`: the source has none); the polling
consoles (`_DEV`); sending with the radio, which the code does not do yet; the receive time-out of
the OMAP UART, which the handler does not serve (a hazard without a property: fewer bytes than the
trigger level stay in the FIFO).

Not planned, with the reasons in `PROJECT.json`: the older page allocator that is not built, the
boot loader and the PC port, formatted printing, register save and restore in assembly, gpio and
clock registers.
