# TLA+ verification of win-drvutils-rs

`win-drvutils-rs` wraps the Windows kernel API for drivers written in Rust
(`src/src`) and comes with sample drivers (`src/examples`). This directory
models the parts of it that keep state, share it or own memory: the locks, the
cancellation of IRPs, the callback registrations, the life of a driver from entry
to unload, memory descriptors, owned strings, and the three sample drivers that
put them together. TLC checks the models on small instances; TLAPS proves
every safety property and both refinements that the passing runs check, for any values of
the constants, three of those of the event sample under the condition that no IRP registration
times out (section 4).

## 1. Inventory

| Component | State it keeps | Operations | What makes it correct | Model |
|---|---|---|---|---|
| Push lock (`sync/pushlock.rs`) | kernel word; `access`, the mode of the current owners | `acquired_shared`, `acquire_exclusive`, `release` | release undoes what its thread acquired, although `access` is one field for all; a reader/writer lock results | `PushLock`, `RwLock`, `PushLockProofs` |
| Spin lock (`sync/spinlock.rs`) | kernel word; `old_irql`; `lockhandle` | three acquire/release pairs and the in-stack pair | one owner; each owner gets its own IRQL back; no DPC waits for the thread beneath it | `SpinLock`, `SpinLockProofs`, `InStackLock` |
| Remove lock (`sync/remove_lock.rs`) | kernel count, flag and event; `lock_tag` | `acquire`, `release`, `release_and_wait` | after the wait nobody is inside and nobody gets in; the wait ends | `RemoveLock`, `Rundown`, `RemoveLockProofs` |
| IRP wrapper (`io/irp.rs`) | `cancel` of each clone; the IRP's routine and context box | `set_cancel_rtn`, `cancel_routine`, `complete` | an IRP is completed once, its box is freed once | `Irp` |
| Event sample (`examples/event`) | `event_queue` under a spin lock; per record a timer, a DPC and a clone of the IRP or an event reference; per file a remove lock | `create`, `device_control`, `timer_dpc`, `cancel_routine`, `cleanup`, `close`, unload | every request is answered exactly once; references balance; files and records outlive their users; unload finds nothing left | `EventDriver`, `MCEventDriver`, `EventDriverProofs` |
| Object callbacks (`callbacks/ob.rs`) | `handle`, `operations`, the call context of each handle open | `push_op_registration`, `register`, `unregister`, pre and post entry | context set and freed once per open | `Protect` |
| Object-callback sample (`examples/obcallback`) | `Protect` (installed, name, target), two global flags, a mutex | protect, unprotect, process notification, handle filter, unload | driver and kernel agree about the filter; unload leaves nothing callable | `Protect`, `ProtectProofs` |
| Registrations (`callbacks/process.rs`, `thread.rs`, `image.rs`, `cm.rs`, `callback.rs`) | `callback` or `cb`; `cookie` or `handle` | `register`, `unregister`, drop; create, open and notify of the callback object | an object's registration is its own; drop leaves none behind; a handle is given back once | `NotifyCallback`, `NotifyCallbackProofs` |
| Driver, device, request views (`common/driver.rs`, `io/device.rs`, `io/device_control.rs`, `io/create.rs`, `io/file_obj.rs`) | hooks in the `DRIVER_OBJECT`; `WduDriver` and `WduDevice` copied into extensions | builder, dispatch, `build`, `symbolic_name`, `delete`, unload | dispatch finds both extensions; every IRP reaches a callback that completes it; whatever step of entry fails nothing is left behind and nothing is deleted twice | `DriverEntry`, `Sioctl`, `SioctlProofs` |
| lock_api adapters (`sync/mutex.rs`, `pushlock.rs`, `eresource.rs`, `spinlock.rs`) | the lock inside; the critical region of the thread | `lock`, `try_lock`, `unlock`, shared and exclusive | a guard excludes; critical regions balance | `LockApi` |
| Rundown protection, semaphore, kernel mutant, direct methods of mutexes and ERESOURCE (`sync/`) | kernel objects | acquire, release, try, wait | as their kernel objects | no |
| MDL (`memory/mdl.rs`) | `lock`, `alloc` of each wrapper | `allocate`, `wrap`, `probe_and_lock`, drop | pages unlocked and the MDL freed once, on every way out | `Sioctl` |
| Strings (`strings/unicode.rs`) | `Length`, `MaximumLength`, `Buffer`, `alloc`; the slice of a `WduUnicodeStr` | conversions, `copy`, `wrap`, `take`, drop; `from_ptr`, `to_owned`, comparison | one owner frees each buffer, with the routine of its allocator; lengths in 16 bits fit the buffer; a view shows the string | `UnicodeString`, `UnicodeStringProofs` |
| Pool (`memory/pool.rs`) | none | allocate, free | | no |
| Sioctl sample (`examples/sioctl`) | none of its own | entry, create, close, `device_control`, unload | error paths release what was made | `DriverEntry`, `Sioctl` |
| Toaster skeletons | none | | | no |

How they interact. The I/O manager calls a driver's dispatch routines on the
threads of its callers, timer DPCs on any processor, cancel routines and
process callbacks wherever something is cancelled or created; all of them
reach the same extension or global through raw pointers, and locks of this
crate are what keeps them apart. In the event sample the dispatch of a request
enters the file's remove lock, arms the IRP, and queues a record under the
spin lock; DPC, cancel routine and cleanup compete for the record. In the
object-callback sample requests and process callbacks meet in a mutex, while
the handle filter reads without it.

What is hard: several actors that may each complete an IRP or free a record;
the DPC that gives the lock up half way; wrappers that keep a per-owner value
in a shared field; unregistering that waits for callbacks under way. `hazards`
in `PROJECT.json` lists these at their lines.

## 2. Modules

**PushLock** splits each call at the kernel call: `CallAcquire`,
`KernelAcquire`, `StoreAccess` (the write of `access` after it),
`MatchAccess` (the read in `release`), `KernelRelease`. The word is abstracted
to an exclusive bit and a count of shares. `arm[t]` is the match arm the thread
took. **RwLock** is the abstract lock: sets of readers and writers.
`ImplementsRwLock` maps the owners of each mode to them.

**SpinLock** has two contexts per processor, a thread and a DPC; a DPC may
interrupt a thread below `DISPATCH_LEVEL`, and a processor runs its DPC while it
has one. `acquire` and `acquire_for_dpc` raise the IRQL, spin, own, and only
then write `old_irql`; `release` reads it, frees the word and lowers.
`acquire_at_dpc` needs a caller at `DISPATCH_LEVEL` (its `debug_assert`).
IRQLs are 0 to 2.

**InStackLock** is the queued variant, whose handle lives in the lock object.

**RemoveLock** unfolds the kernel's acquire (count, then look at the flag,
then back out) and release-and-wait (set the flag, drop the own and the initial
reference, wait) between the writes of `lock_tag`; these steps inside the kernel's calls are external. `Close` frees the lock as the
sample's close handler does. **Rundown** is what it implements.

**Irp** holds the operators for one IRP: its cancel routine, the boxed context,
completions, and memory faults. What `set_cancel_rtn` returns is the field of
the clone it is called on; `EventDriver` keeps the clone of each record
(`record_rtn`), and the clone in a DPC always has its routine. `set_cancel_rtn` is a
few unsynchronised statements in the code and one step here. When it sets, the box is there before the
routine, so a cancellation in between is one before both. When it clears, only a cancel routine that was
called before can come in between, and that takes its box in a step of its own (`TakeContext`): it has a
freed one then, as it has when it took it just before.

**EventDriver** is the event sample. What an actor does while it owns the queue
lock is one step, which `SpinLock` justifies; `timer_dpc`, which gives it up, takes three.
`Create` gives the file its context (`cln` goes from "new" to "open"), and requests are sent on
files that have one. `release` of the remove lock is two steps, `Leave` in the kernel and `ClearTag`
after it, since cleanup and close may go on in between. A cancel routine is three: `TakeContext` reads
the boxed context out of the IRP, `CancelRoutine` looks for the record under the lock,
`CancelComplete` completes. `req`, `dpc`, `rtn`, `cln` say where dispatch, DPC, cancel routine and
cleanup are. A panic is `loop {}` in this driver, so one under the lock leaves
the lock taken (`queue_lock = "wedged"`). `swap_remove` moves the last record
into the hole, as `Vec` does, `position` is the first match, and `retain` keeps the order of what
cleanup leaves. The IRPs that a cleanup collects are a set: it completes each, and they are
different IRPs. `Cancels`, `Expires`, `Closes`, `Cpus` are the
environment: which requests are cancelled, whose timers run out, which files are
closed, how many DPCs run at a time.

**Protect** is the object-callback sample over `WduObCallback` and
`WduPsCallback`. Control requests are split where another actor could see the
difference (name and operations, kernel registration, the two flags; unregister
and its wait). The process callback reads each flag without the mutex, then
writes the target in two steps under it. A handle open goes through one pre and
one post call per pushed registration, reading the target without the mutex.
`Names` are compared for equality where the code searches for a substring. A
process object and its id are one value, reused after exit. Clients make one request after the other.
The mutex is `PROTECT`, lock_api's `Mutex` over an adapter that locks its own argument (section 5).
`inside` is the set of threads between `lock()` and the drop of their guard; `Granted` lets a thread in
when nobody is, and may let it in when somebody is, which `overlaps` counts. So the model does not
assume that the mutex excludes: what needs exclusion is stated for as long as `overlaps` is 0, the
rest without a condition. After an overlap the steps keep the grain they have under a mutex.

**NotifyCallback** has the three state machines of `callbacks/`, chosen by `kind`, since the
kernel does not mix them. A notify object (process, thread, image) is known to the kernel by
its routine; `RefuseDuplicate` is the one difference in the kernel routine they call. A
registry callback keeps its cookie for good and has no `Drop`. A callback object gets a
handle, which the kernel may use again for another object after it was given back, and
`Drop` always unregisters: also the object that a failed `create` throws away. `misused`
remembers the objects that were registered a second time or unregistered without being
registered, so that `ProperUseIsSafe` can say exactly what a user owes the wrappers.

**LockApi** has the six adapters of `lock_api` over one lock. `Addressed` is the point: the
adapters of `spinlock.rs` pass on the address of the lock, the others that of their own
argument, which is a place on the stack; the kernel then never touches the lock. What is there is an
aligned address, whose bit 0 is 0: a push lock reads that as free, a fast or guarded mutex as held.
What an ERESOURCE finds further up the stack is anything, so the run leaves that adapter out. The
in-stack adapter only calls what `InStackLock` has.

**DriverEntry** is the life of a driver over `WduDriver` and `WduDevice`, for each of the three
samples: `BuildDriver`, `BuildDevice`, `SymbolicName`, then `SetUpExtension` (event) or
`RegisterNotify` (obcallback), each of which may fail, and unload. `Built` applies the builder's
operators as `init` does, so `drvobj` holds the majors that are hooked and `ext` the callbacks
there are. `link` says whose the name is; `faults` collects what is done to a device that was
deleted. **Sioctl** extends it with the requests: dispatch for all samples, and the sioctl
sample's `device_control` over `WduDeviceControl` and `WduMdl`. Per handle one
IRP at a time is dispatched; `DeviceControl` chooses the transfer method and the early
return, and METHOD_NEITHER goes through `MdlAllocate`, `MdlLock`, `MdlMap`, `MdlDrop`, for the input
buffer and then for the output buffer. `drop`, `unlock` and `free` are `WduMdl`'s. A
probe that raises an exception stops the machine, as the source says it would, and is
not a step. The I/O manager is external: it opens devices that exist, sends cleanup and
close in this order, and unloads when no handle is left.

**UnicodeString** is the owned string of `mod string`: each constructor is an action on a
string (`str`) and the buffers ever allocated (`heap`). A pool allocation that fails
changes nothing and is left out. A borrowed `WduUnicodeStr` is the number of characters in its
slice; `view` makes a `UNICODE_STRING` of one again and `to_owned` a new string. `Limit` stands for 2^16 and is small in the run, so that
lengths wrap.

The operators marked as mistakes in each module are not used by it. Each is a
definition with a bug in it, and putting it in the place of the right one makes
the property it is meant for fail.

## 3. Runs

| Run | Instance | Shows |
|---|---|---|
| `push_lock` | 3 threads | types, release's arm, exclusion, refinement of `RwLock`, somebody who waits is served |
| `spin_lock` | 2 processors, a thread and a DPC each | single owner, IRQL restored, no DPC over an owner, lock released again |
| `in_stack_lock` | 2 processors | fails: the handle is gone at release |
| `remove_lock` | 3 workers and the remover | exact count, nobody inside after the wait, refinement of `Rundown`, the wait ends |
| `event_files` | an IRP registration that is cancelled and two registrations of one event that time out, on 2 files, 2 DPCs at a time, both files created and closed | a request inside the remove lock has its file's context; the IRP, which does not also time out, is completed once; references balance; an event is signalled once per registration; no registration behind the sweep; queue empty at unload |
| `irp_notify` | an IRP registration that times out, is cancelled and has its file closed, an event registration that times out on another file, 2 DPCs at a time | all but the DPC complete the IRP at most once between them; an event is not released under a waiting registration; every request is answered, or abandoned in one of three ways that are named |
| `irp_completed_twice` | one IRP both cancelled and timed out | fails: completed twice |
| `protect` | 2 threads that make requests, 2 processes, 1 opener, unload; 2 registrations; a section entered beside another at most once | until sections overlap: filter state agreed, target pair, no filter after unload, termination; whatever the mutex does: contexts freed once, no process callback after unload |
| `lock_api` | 2 threads, 2 calls each, five of the six adapters | fails: a second guard beside an exclusive one of the push lock |
| `notify_callback` | 3 objects of one of the three kinds, 2 routines, 4 slots, 2 handles | objects never take each other's registration away; unregister does not fail; proper use leaves objects and kernel agreed |
| `sioctl` | the entry of 3 samples; 2 handles, 2 reads or controls on each | nothing left behind by a failed entry or an unload, extensions found, pages released, handled IRPs completed |
| `unicode_string` | 3 strings, 3 buffers, sources up to 5 characters where lengths wrap at 8 bytes | one owner for each buffer made for a string (the elements that `copy` allocates are none), lengths of converted strings within their buffer |

Bounds. Two owners, a waiter and a late-comer are all a lock's steps can tell
apart, hence three threads; a spinning context on the other processor and a DPC
on each suffice for the IRQL. Three records let `swap_remove` move a record that
is neither the first nor the last one looked for, and two of them share an event
and a file; that DPCs remove each other's records, and that a cleanup meets its own and another
file's, takes two of one event beside the IRP. `irp_notify` has two records, the least with which a
stale index is another's, and all four that may answer an IRP. In `Protect` the second registration is the first that finds operations
left over, and the second process the first that can mix with another target; one
overlap is the first after which the conditional properties are silent, and leaves the rest of the run to
the unconditional ones.
Three callback objects and two handles are the least in which a handle given back twice by one
object belongs to another by then, while a third finds none left.
In `UnicodeString` a source, a clone of it and a wrap of either are three strings.
`MaxRegister`, `MaxCreate`, `MaxOverlap`, `MaxSend`, `MaxCalls` and `MaxAlloc` bound calls, creations, overlaps and allocations; nothing in the code
depends on their number. Deadlock is checked for the two locks that run for ever;
the other systems may stop: requests are finite, files close, the driver unloads.

Fairness. `PushLock`, `SpinLock`: a context inside a call goes on (weak fairness of
its steps), because the kernel schedules threads and a spinning processor spins; no
fairness makes anyone call. `LockReleased` and `NotWedged` do not claim that each waiter is
served. `RemoveLock`, `EventDriver`: a handler that has begun ends, an armed timer
runs out. `Sioctl`: a dispatch routine that was called runs to its end. `Protect`: the same, with strong fairness where a thread waits for the
mutex and nobody is inside, as the kernel queues its waiters; nothing makes a thread enter beside
another. This does assume that a free mutex is granted, which is what a
mutex is for and what the adapter may fail to do: on a stack that reads as held nobody
gets on. Nothing is assumed of applications.

Some properties are restricted on purpose, since outside the code breaks them (section 5):
`event_files` has no IRP timer, `FileOutlivesRundown` ends with the kernel's release of the lock,
`OneCompleterBesideTimer` leaves the DPC's completion out and `EveryRequestAnswered` the three ways a
request is abandoned, the filter's properties in `Protect` speak of the time before an overlap,
`CallContextOnce` of the first registration, `ProperUseIsSafe` of objects that are used as it says,
`HandledIsAnswered` of the majors the sample has a callback for, `OwnedOnce` of buffers a string points
to, and `LengthsFit` of the lengths of converted strings, not of what is copied.

## 4. Proofs

Each component has its inductive invariant in its own module (`IInv` and its named parts) and
the proofs in a module `...Proofs` that extends it. `IInv` is not a property of the runs; TLC
confirms it on a run's instance when it is put into the `.cfg` as one more `INVARIANT`. The
assumptions are the `ASSUME` of each module, which TLC evaluates in the runs: finite sets where
something is counted, sets of actors that do not overlap, a null value that is no member, bounds
that are numbers.

`PushLockProofs`, for any finite set `Threads`. The inductive invariant `IInv`
is: types, `access` equal
to the mode of every thread between its write and its release, the arm taken equal to the
mode, the word counting the owners, and exclusion. `ReleaseMatchesMode` alone is not
inductive: that another thread does not overwrite `access` with another mode between a
thread's write and its read follows from exclusion, exclusion from the word counting the
owners, and that in turn from each release calling the routine of its thread's mode. Hence
the conjunction. From it: `TypeCorrect`, `ReleaseModeCorrect`, `MutualExclusion`, and
`Refinement` (the initial state maps to the abstract one, every step to an abstract
acquire or release of that mode or to a stutter).

`SpinLockProofs`, for any set `Cpus`, no assumption. `IInv` joins: the word is set exactly
for one owner, `old_irql` is the owner's from its write on, the argument of release is the
owner's IRQL, an owner or waiter is at `DISPATCH_LEVEL`, no DPC runs over a thread that is
inside, and no DPC context is inside when its processor has no DPC. The IRQL needs single
ownership, single ownership needs the word, and that a thread does not lose its processor
while inside needs its IRQL. From it: `TypeCorrect`, `SingleOwner`, `IrqlRestored`,
`NoSelfDeadlock`.

`RemoveLockProofs`, for any finite set `Workers` and a remover that is none of them. The count
is the number of those who have counted themselves in, plus the initial reference; each step
adds or removes one member of that finite set. `IInv` adds that the lock is marked removed
exactly while the remover is past that step, that only the remover runs the remover's steps, and
that a set event means that the initial reference is gone and nobody is inside. That last part
is what makes the wait safe: a worker that counts itself in after the event has been set finds
the mark, and backs out. From it: `TypeCorrect`, `CountIsExact`, `WaitIsSafe`, and
`RefinesRundown`, in which the steps between the counting and the look at the mark are stutters.

`NotifyCallbackProofs`, for any finite set of objects and any routines, handles and slots. The
three invariants are inductive together, with one more: a registry callback holds no routine.
The kernel's count of a routine is compared with the number of objects that hold it; a register
adds to both, a second register of the same object with another routine only makes the count
of the first too large, never too small, so unregister always finds it (`HoldersBacked`,
`UnregisterSucceeds`). `ProperUse` is the equality, and for callback objects that handle and holder
name each other, for as long as nobody misuses an object.

`ProtectProofs`, for any clients, processes, openers and names and any number of overlaps, with no
hypothesis about the mutex. The invariant has two layers. `Base` holds always: types, who is at a place
of a section is inside, where the context of a handle open is between its pre and its post call as long
as operations were pushed once, and what each stage of unload has stopped of the process callback.
`Excluded` holds as long as no two sections have overlapped: one thread at most is inside; what the
driver notes of the filter is what the kernel has, except while an unregistration waits for the
callbacks under way; the target's two fields differ only while their writer is inside; and unload's
stages have stopped the filter. `IInv` is `Base` and `overlaps = 0 => Excluded`: a step either keeps
`overlaps` at 0, and then enters no section beside another, or the second layer is void. From it
`TypeCorrect`, `FilterConsistent`, `TargetConsistent`, `ContextOnce`, `UnloadIsSafe`. The openers take no
mutex; that unload waits for them is in the stages.

`EventDriverProofs`, for any finite set of requests, any files, events, cancellations, timers,
closes and processors:

- `IInv` holds always. The queue has each record at most once, none of a request still in
  dispatch and none that is freed; a timer is set once and its DPC runs once; a request between its
  entry and the kernel's release is inside the remove lock of its file, and cleanup's later
  stages mean that this is empty; only IRP registrations have cancel routines and DPCs that give
  the lock up. `FileIsSafe` and the action property `SweepSeesAll` follow.
- References. What an event has above the number of its waiting registrations (`Surplus`) never goes
  down: whoever gives a reference back removes a waiting registration of that event with it. So it
  is never negative (`WaitersHoldTheirEvent`), also when DPCs remove wrong records; and as long as they
  do not (`[]DpcIndexValid`) it stays 0 (`RefsBalanced`). `SignalsOnce` counts likewise: a signal comes
  with one more freed record of its event.
- `OwnedInv` holds always. Of dispatch, the queue, cancel routine and the cleanups at most one may still
  complete an IRP, and then none of them has. From it `OneCompleter`: what is completed twice is
  completed by its timer DPC.
- If no IRP registration times out (`NoIrpExpires`, as in `event_files`), no DPC gives the lock up
  (`NoIrpDpc`), and a file with a record in the queue is not closed (`FilesHeld`). From these
  `CompletedOnce`, `RefsBalancedWithoutIrpExpiry` and `QueueEmptyAtUnload`. The hypothesis cannot go:
  `irp_notify`'s instance, where the IRP times out too, refutes all three (section 5).

What `swap_remove`, `position` and `retain`
return is proved for every sequence: `position` by the least element of a set of numbers
(`Least`, from the well-foundedness of `<`), `retain` by counting the kept places up to each, which
is a bijection.

`SioctlProofs`, for any handles and any bound on the requests, all three samples. `EntryAgrees`
says what entry has made by each of its places; with it: an open file keeps the driver running and its
device there, a dispatch is on an open file, and the MDL of METHOD_NEITHER is there, built and
locked, exactly while the dispatch is between allocation and drop. From it `NothingIsLeftBehind`,
`ExtensionsAreFound` and `PagesAreReleased`.

`UnicodeStringProofs`, for any strings, any `Limit`, any sources and any number of buffers. `OwnedOnce` counts
owners of a buffer that a string points to - not the elements of the `Vec` that `copy` boxes, which
nobody owns and nobody frees (section 5) - and is not inductive, since it says nothing of an owner whose buffer is gone;
`IInv` says it from the other side: an owner's buffer is there and of its allocator
(`OwnersBacked`), no two own the same (`SoleOwners`), and none that is there lost its owner
(`NoneLeaked`). A conversion that the kernel refuses makes an owner and drops it in one step. From
it `BufferIsOwnedOnce` and, since each constructor takes length and size from the same cut number,
`LengthsAlwaysFit`.

Only model-checked: the liveness properties `NotWedged`, `LockReleased`, `WaitEnds`,
`EveryRequestAnswered`, `UnloadEnds`, `RequestEnds` and `HandledIsAnswered`, since fairness and
`ENABLED` are outside the prover's reach; and the three refuted claims of the violation runs, for
which there is nothing to prove.

## 5. Claims of the source that do not hold

Three are runs with a finding in `PROJECT.json`: `in_stack_lock`, `irp_completed_twice`,
`lock_api`. The modules state more, and TLC refutes each when the
property is put in the place of those of the named configuration with the constants given:

| Property | Module, constants | What happens |
|---|---|---|
| `LockOutlivesRelease` | `RemoveLock`, as in its run | `release` clears `lock_tag` after the kernel has let cleanup go and close has freed the lock (`remove_lock.rs:75`) |
| `FileOutlivesRequests` | `MCEventDriver`, as in `event_files` | the same in the sample: the dispatch of a request writes `lock_tag` into a file context that close has freed (`remove_lock.rs:75`, `lib.rs:374`) |
| `CancelFindsRecord` | the same | cancelled between `set_cancel_rtn` and the queue: `unwrap` of a position that is not there (`lib.rs:414`, `514`) |
| `RecordOutlivesTimer` | the same | cleanup frees its own file's records with their timers set (`lib.rs:298`) |
| `DpcIndexValid` | `MCEventDriver`, as in `irp_notify` with `Spec` | the position is stale after the relock (`lib.rs:580`) |
| `SweptEntryHasCanceller` | the same | cleanup retains IRPs nobody cancelled, against its comment (`lib.rs:305-311`) |
| `ContextFreedOnce` | the same | a DPC meets a record whose IRP the cancel routine or cleanup has taken, and frees a null context (`irp.rs:294`) |
| `CompletedAtMostOnce` | the same | and completes the IRP although another completes it (`lib.rs:562`) |
| `EventRefsBalanced` | the same | the record removed at a stale index is that of an event, whose reference is leaked (`lib.rs:580`) |
| `UnloadQueueEmpty` | the same | the DPC has completed the last IRP and not yet removed its record (`lib.rs:562`, `235`) |
| `EventDelivered` | `MCEventDriver`, as in `irp_notify`, `Closes = {f1}` | the cleanup of one file cancels the timers of the others and drops their records (`lib.rs:298`) |
| `ContextNullAtPre` | `Protect`, as in its run with `Spec` | operations pushed by a failed or earlier registration run the pre callback twice (`ob.rs:58`, `366`) |
| `StrippedIsNamed` | the same | the target outlives its process and catches the next one (`lib.rs:131`) |
| `DenialWhileInstalled` | the same, as a `PROPERTY` | `unprotect` leaves the flags and the name, and processes go on being rejected (`lib.rs:311`, `150`) |
| `UnregisteredOnce` | the same | when the mutex lets two requests in, both unregister one handle (`mutex.rs:234`) |
| `DropLeavesNothing` | `NotifyCallback`, as in its run | a second `register` forgets the first routine (`process.rs:134`); a registry callback has no `Drop` (`cm.rs:21`) |
| `HandleGivenBackOnce` | the same | a failed `create` drops an object with a null handle, and drop unregisters again what was unregistered (`callback.rs:76`, `152`) |
| `CallbackObjectBacked` | the same | a handle given back twice was that of another object (`callback.rs:152`) |
| `ContextLive` | the same | the context given to the kernel is the address of `register`'s argument (`callback.rs:134`) |
| `RegionBalanced` | `LockApi`, `Kinds = {"eresource"}` | a failed `try_lock` of an ERESOURCE stays in the critical region (`eresource.rs:147`, `162`) |
| `DeviceDeletedOnce` | `Sioctl`, as in its run | obcallback: neither name nor notify routine could be made, and the device is deleted for each (`lib.rs:213`, `223`) |
| `DeviceUsedWhileThere` | the same | event: the extension of the deleted device is set up, and read at unload (`lib.rs:221`, `232`) |
| `ForeignNameKept` | the same | unload deletes the name although it was another driver's (`sioctl lib.rs:153`) |
| `EveryIrpAnswered` | `Sioctl`, as in its run | a read is hooked and has no callback: success is returned and the IRP never completed (`driver.rs:241`) |
| `CopyFits` | `UnicodeString`, as in its run | `create` counts the copy in characters and gives it bytes; `copy` writes into the `Vec` structure (`unicode.rs:502`, `594`) |
| `CloneFreed` | the same | the elements of the `Vec` that `copy` boxes are never freed (`unicode.rs:590`) |
| `ViewIsContents` | the same | `from_ptr` takes the maximum length for the length (`unicode.rs:99`) |
| `CompareFits` | the same | comparing with a `UNICODE_STRING` takes bytes for characters and reads twice as far (`unicode.rs:36`) |

## 6. Not modelled, and the plan

Driver entry is the initial state of `EventDriver` and `Protect` and has its own module; the
kernel's objects are modelled from how the wrappers use them and marked external in
`PROJECT.json`. A memory fault does not
stop a model: going on is one of its outcomes. Formatting, logging, the contents of strings and
access masks beyond the one bit the filter clears are left out.

Left out, and why: semaphore, rundown protection, kernel mutant, pool, object attributes and the
getters of IRPs, files, processes and threads are one kernel call or one read each, with no
state of the wrapper and mostly no user here, so a model would only restate the kernel's
documentation. `WduExTimer`, `WduDpc::insert`, `convert_to_shared`, `add_device` and
`forward_sync` have no user. Power and PnP dispatch, `try_copy`, the in-place case conversions
and the `unicode_as_vec` strings are `todo!()`. The toaster samples are empty.

Order of what was done and what follows:

1. Locks with their abstract specifications and proofs (done), remove lock (done).
2. Event sample over the IRP wrapper, object-callback sample, notify callbacks (done).
3. Driver and device objects with the sioctl sample, MDLs, owned strings (done).
4. The error paths of driver entry in all samples, registry callback and callback object,
   lock_api adapters, file contexts, borrowed strings (done).
5. Proofs of every safety property and refinement of the passing runs (done).
6. What is left: the abstract promise of the event sample's queue as a specification of its own,
   and the refinement of it under the hypotheses of section 4; the sections of `Protect` at the grain
   of single accesses, for what happens after an overlap.
