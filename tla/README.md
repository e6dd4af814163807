# AviSynth+: a TLA+ verification of the frameserver's concurrent core

AviSynth+ evaluates a script into a graph of filters and then serves frames of
that graph on demand.  Most of the repository is sample and pixel arithmetic;
what is hard to get right is the machinery in between: a frame cache that several
threads share, a thread pool that computes frames ahead of the consumer, and the
environment that owns all of the memory.  This directory models that machinery
in TLA+, checks it with TLC on small instances and proves part of it with TLAPS
for every value of the constants.  Of the filters it models those that edit: what
they compute is not pixels but positions, which add up over a script and are as easy to
get wrong by one as the machinery is.

Paths below are relative to `src/AviSynthPlus/avs_core/` unless they say
otherwise.

## 1. Inventory

| Component | Code | State | Operations | Hard behaviour |
|---|---|---|---|---|
| Frame cache | `core/LruCache.h`, `core/SimpleLruCache.h`, `core/ObjectPool.h` | list of resident frames and list of ghosts, both most-recent-first, with min, max, requested and real capacity; per entry a value, a lock count, a state and a condition variable; a pool of entries | `lookup`, `commit_value`, `rollback`, `set_limits` | one producer per frame and any number of waiters, who all leave the mutex with a pointer to the entry; eviction in the middle of it; producers that fail |
| Cache filter | `core/cache.cpp` | one `LruCache` per filter, and an audio policy that nothing reads (caching audio is a TODO in the code) | `GetFrame`, `GetAudio`, `SetCacheHints` | reads the cache's sizes without its mutex; every `GetFrame` calls back into the registry; clipping of audio requests at both ends |
| Job queue | `core/mpmc_bounded_queue.h` | a ring, a mutex, two condition variables | `push_front`, `pop_back` | notification after the unlock, wrap-around |
| Thread pool | `core/ThreadPool.{h,cpp}` | workers, the queue, completion objects with promises | `QueueJob`, `Wait`, `Reset`, destructor | jobs outstanding at destruction, promises used again, jobs that queue jobs |
| Prefetcher | `core/Prefetcher.{h,cpp}` | a cache, a pool, a counter of running jobs, an exception, the access-pattern detector | `GetFrame`, `SchedulePrefetch`, `ThreadWorker`, `Destroy` | workers that outlive the call that scheduled them; an exception carried from a worker to the consumer |
| MT guard | `core/MTGuard.cpp`, `core/FilterConstructor.cpp` | one filter instance, or one per thread, or a mutex | `EnableMT`, `GetFrame` | instances added before and after a Prefetcher's life; a mutex held across requests to other filters |
| MT modes | `Invoke` and `MtModeEvaluator` in `core/avisynth.cpp` | modes per function, a stack of evaluators, a table of clip addresses | `Invoke`, `SetFilterMTMode` | constructors that invoke filters, to any depth, and throw |
| Cache registry | `ManageCache`, `EnsureMemoryLimit` in `core/avisynth.cpp`; `core/MappedList.h` | the caches in order of use | register, unregister, move to the back, shrink, expand | called from every cache under one recursive mutex |
| Frame registry | `GetNewFrame`, `MakeWritable` in `core/avisynth.cpp`; `core/interface.cpp` | frames and buffers with a reference count each | allocate, reuse, release | two counts lowered one after the other, outside the mutex |
| Buffer pool | `core/BufferPool.cpp` | buffers by size | `Allocate`, `Free` | buffers freed through another environment; the accounting in `memory_used` |
| Script environment | `core/avisynth.cpp`, `core/ScriptEnvironmentTLS.h` | variables, functions, the filter graph | `Invoke`, `SetVar`, `ParallelJob` | per-thread environments, lock order |
| Editing filters | `filters/edit.cpp` | each its place in the clip: first frame, sample offset, switch-over, loop | constructors, `GetFrame`, `GetAudio` | positions of frames and samples through filters upon filters; requests that run over seams and ends |
| Parser and evaluator | `core/parser/` | syntax tree | `Parse`, `Eval` | none: sequential |
| Plugin manager | `core/PluginManager.cpp` | table of functions | load, look up | none: sequential I/O |
| Other filters, conversions | `filters/`, `convert/` | none shared | `GetFrame` | arithmetic |
| Bundled plugins, C interface | `../plugins/`, `core/avisynth_c.cpp` | none shared | | operating system and codecs |
| ffms2, xy-VSFilter, zlib | `src/ffms2`, `src/xy-VSFilter`, `src/zlib` | | | projects of their own |

How they interact.  A consumer (a player, an encoder) calls `GetFrame` on the
last filter.  Every filter in the graph is wrapped in a `Cache`; a miss calls the
filter's own `GetFrame`, which asks the caches of its inputs.  Each
`Cache::GetFrame` tells the environment's registry of its use, and the registry
may change the limits of any cache.  With `Prefetch(n)` the consumer talks to a
`Prefetcher`, whose own `LruCache` is filled by pool workers that each call the
graph's `GetFrame`; they meet in the caches below, behind the MT guards of the
filters.  Frames are allocated in the environment and are reference counted.

What makes each part correct: the cache returns the frame that was asked for,
computes it once, forgets nobody who waits and stays within its bounds; the queue
loses, duplicates and reorders nothing; the pool runs every job once and
its calls return; the detector locks on what the consumer really does; a guard
never lets two threads into one instance; the registry's memory accounting is
exact and shrinking stops when enough has been freed; no frame is handed out
while somebody holds it; an edited clip shows the frames and plays the samples that
cutting and joining gives.

`PROJECT.json` lists the hazards of the code line by line, each with the
property that covers it or the reason none does yet.

## 2. Modules

| Module | Models |
|---|---|
| `RecencyList` | the algebra of most-recent-first lists: a list is a function from keys to positions (1 is the front), with the operators trim, insert and move-to-front come down to |
| `LruCache` | `LruCache.h` on those lists, with `Cache::GetFrame`'s protocol around it; state, actions, properties; the refinement mapping onto `FrameMemo` |
| `FrameMemo` | the abstract specification: what a cache promises its callers |
| `SimpleLruCache` | the loops of `SimpleLruCache.h`, node by node, as functions of both lists' state |
| `LruCacheProofs` | TLAPS proofs about `LruCache` |
| `MCLruCache` | instances for TLC; the comparison of each step with the walks of `SimpleLruCache` |
| `PrefetchPattern` | the access-pattern detector of `Prefetcher::GetFrame` |
| `MessageQueue` | `mpmc_bounded_queue.h` |
| `JobFifo` | the abstract specification of a bounded queue with several producers and consumers |
| `ThreadPool`, `ThreadPoolProofs` | `ThreadPool.{h,cpp}` on `MessageQueue`: callers, workers, the destructor; TLAPS proofs, that it implements `JobFifo` among them |
| `Prefetcher`, `PrefetcherProofs` | `Prefetcher.cpp`: the consumer, its workers, `Destroy`; composes `FrameMemo` and `JobFifo`; TLAPS proofs about it and about `PrefetchPattern` |
| `FilterChain`, `FilterChainProofs` | requests going down a chain of filters: the lock order of the environment, the guards and the caches; composes `FrameMemo`; TLAPS proofs |
| `CacheRegistry`, `CacheRegistryProofs` | `ManageCache` and `EnsureMemoryLimit`; TLAPS proofs |
| `FrameRegistry` | `GetNewFrame`, `MakeWritable` and the two reference counts |
| `BufferPool` | `BufferPool.cpp` |
| `MemoryProofs` | TLAPS proofs about `FrameRegistry` and `BufferPool`, and about sums over finite sets |
| `MtModes` | how `Invoke` decides on a filter's MT mode |
| `MtGuards` | `MTGuard.cpp` and the Prefetchers that call `EnableMT` |
| `MtProofs` | TLAPS proofs about `MtModes` and `MtGuards` |
| `CacheAudio` | `Cache::GetAudio` |
| `EditList` | what an author expects of edits: clips as lists of frames and of samples |
| `Editing` | the editing filters of `edit.cpp`, as a graph that a script builds and `Cache::GetAudio` asks |
| `EditingProofs` | TLAPS proofs about `CacheAudio`, that the graph behind the cache is one step of it, and that edited clips show the frames meant |
| `MC...` | the instance of each for TLC |

How they are composed.  `LruCache` and `ThreadPool` are proved to implement the steps of
`FrameMemo` and of `JobFifo` (liveness is TLC's part); `Prefetcher` and `FilterChain` use those two in place of the
detailed modules, which is what keeps them small enough to check.  `Editing` extends
`CacheAudio` with a graph that answers the cache's question to its child, and is proved to
implement it.

Mutants (the definitions named `X_Something`, marked `Mutant` in a comment) are
variants of the definition `X` with a plausible bug; each stands just before the
definition it varies.  Replacing `X` by it must make TLC refute the property
`PROJECT.json` names: it is how the properties are known to say something.

### LruCache

One critical section of the cache's mutex is one action.  `lookup` is five
actions, by outcome: `LookupReady` (a hit, value copied), `LookupWait` (a hit on
an entry under computation, by a blocking caller), `LookupNotAvailable` (the same
by a non-blocking one), `LookupMiss` (the caller becomes the producer) and
`LookupNoCache` (the capacity is zero).  What a thread does outside the mutex is
a step of its own: the child's return or exception, the store of the frame
(`ChildReturns`), the notifications after the unlock (`NotifyAll`, `NotifyOne`).
`pc` says where a thread is; the comment at `Places` says where in the
code that is.

Data are abstracted.  A frame is its number, because a child filter is a function
of the frame number; `None` is the null `PVideoFrame`.  An entry of the pool is a
member of `Entries`.  The two lists are functions from keys to positions, so that
a trim is a set (`Victims`) rather than a loop.  That this abstraction is right is
not assumed: `SimpleLruCache` has the loops, with the eviction event called
from inside, and the run `cache` checks of every step that they agree
(`ListsAgree`, in `MCLruCache`).

One detail the code does not advertise came out of that comparison.
After a miss on a ghost, `lookup` calls `MainCache.resize`, which trims again.
The first trim ran before the insertion; when the capacity is already at its
maximum the second finds the list one too long and evicts the node at the back.
It cannot reach the node just inserted, whose entry pointer is not yet set, as long as
the capacity is not zero, and when it is zero nothing has been inserted.

### FrameMemo

What a cache promises, with no trace of entries, lists or capacities: each frame is
unknown, being made by one caller, or there; whoever asks for a frame that is there gets
it, whoever asks for one being made waits or goes without, and memory may be
forgotten at any time.  When the maker fails, those who wait for that frame are left
waiting, as the code does (the first of the claims in section 3): a promise that
took no notice of it would not be implemented.

### SimpleLruCache

The loops as the code walks them, on sequences: trims with (`Trim`) and without
(`TrimAll`) an eviction event, the event itself, both lists' lookups, resizing.  The
module has no variables: each operation takes a record of both lists and returns
the next one.  `Visit` is `RECURSIVE`, so that only TLC uses this module.

### PrefetchPattern

One call of `Prefetcher::GetFrame`, as far as it concerns `IsLocked`, `Pattern`,
`LockedPattern`, `PatternHits`, `PatternMisses`.  It is a sequential algorithm;
what makes it worth a model is that its counters are updated in four branches
whose combined effect over many requests is not visible from any one of them.
Two history variables record the last strides (`recent`) and the length of the
current run of equal ones (`streak`).

### MessageQueue and ThreadPool

`push_front` and `pop_back` are a critical section (`Push`, `Pop`), a sleep when
the loop's condition does not hold (`SleepWhileFull`, `SleepWhileEmpty`) and a
notification after the unlock (`NotifyNotEmpty`, `NotifyNotFull`).  A notified
thread leaves its condition variable's set and tries again; a spurious wakeup
does the same.  `ThreadPool` adds `QueueJob` with and without a completion
object, `Wait`, `Reset`, `ThreadFunc` and the destructor, which pushes one
`THREAD_STOP` per worker and joins them.  A job function is any number of calls of
the same kind (`JobStep`: filters call `ParallelJob`, and filters run in jobs), and then an
arbitrary step that returns a value or throws.  `Clients` are the callers and the workers on
behalf of their jobs.

### Prefetcher

The consumer's `GetFrame` is `GetFrame` (the detector's answer is any of `Strides`),
`ScheduleFrame` (one turn of `SchedulePrefetch`'s loop, up to and including the lookup that
reserves a frame), then the increment of `running_workers` and `QueueJob` as two steps,
the consumer's own lookup, and the second call of `SchedulePrefetch`.  A worker takes a
job, makes the frame and commits, or fails: rolls back, records the exception under
its mutex, lowers the count, unlocks.  The order of these matters to `Destroy`, which
looks at the count only.  In `VideoCache`, a `FrameMemo`, a job is a caller: the
consumer's lookup makes it its frame's producer, and the worker goes on from there.

### FilterChain

`<<t, l>>` is thread `t` at the `Cache` of level `l`: `ManageCache` (`Nod`), the
lookup, the guard (`EnterFilter` takes a serialized filter's mutex), then the filter: it
asks for frames of the level below, for new frames (`NewFrame`, which takes
`memory_mutex`), or it evaluates a script, for which `memory_mutex` is held from
`BeginInvoke` to its end and, for filters in `Inquiring`, frames are requested meanwhile.
Number of frames below or beyond the clip are clamped as `Cache::GetFrame` does.

### CacheRegistry

`ManageCache` is one action where it is one critical section without a call that another
thread can get in between: registration, unregistration, a nod.  The comparison at the start of
`GetFrame` is two steps, for it reads the request and the capacity without a lock (`CallGetFrame`,
`ReadCapacity`); the request may be one that a lookup has just written and that the
capacity does not follow yet (`Requests`).  Under the mutex they are read again in the other
order (`NodAndExpandCache`, `ReadRequest`), while lookups go on.  Then comes a
loop that looks for somebody to take a slot from (`SeekSlot`, `TakeSlot`) and `Expand`, and
`EnsureMemoryLimit` is a loop of steps (`ReadSize`, `Shrink`),
because the caches' sizes are read and set under their own mutex, and other
threads hit and miss meanwhile.  What was read is in `saved` and `osize`; `basis` remembers, until
the loop is over, by which size each cache's limit was set.
Whether there is memory enough is open at every test.

### FrameRegistry

One atomic increment or decrement is one action, and so is a critical section of
`memory_mutex`.  `PVideoFrame` variables are `ref`: some of them a thread's own, some of
them in cache entries.  The steps between them are in `pc`: a frame returned by
`GetNewFrame` that nobody points at yet, a `Release` between the frame's count and the
buffer's, `IsWritable` between its two reads.  A thread's plain pointers are `raw` and
`owes`.

### BufferPool

An address is an integer: the alignment arithmetic is modelled by what it computes.
`AllocatePooled` takes the first buffer in the size-ordered map that suits;
`AllocateNew` and `AllocateNormal` get a block from `malloc`, which answers with any of
`Origins`; `Free` goes by the fields behind the buffer; `Destroy` is the destructor.

### MtModes

An element of `invokes` is an `Invoke` in progress: of a filter, with its evaluator, or of
a script function, which has none.  Clips are addresses; `clips[a]` remembers which mode
the filter there demands, and `wrapped` what was last given to `MTGuard::Create`
along with what the filters created inside demand (`inner`; `stale` for those at an
address that `clip_data` knows from before; `lost` for what an evaluator had counted
that was dropped, `Dropped`), which is what the properties compare.  A nice filter demands nothing,
since no guard is laxer.

### MtGuards

`Register` is `MTGuard::Create`, which enables MT at once when there is a Prefetcher;
`CreatePrefetcher`, `CreateFails` and `Destroy` are the life of a Prefetcher as far as
guards see it.  `EnableFails` is a `Prefetch` whose `EnableMT` throws: the guards before the one that
fails, in any order, are enabled and stay so, that one has its number of threads and some of its
instances, and the Prefetcher is gone.  `Enter` and `Leave` are a thread inside `MTGuard::GetFrame`, with the
instance it picked.  `history` has what the properties tell apart: whether a `Prefetch` was
refused, whether one passed the test while another's Prefetcher was there, and with how many
threads.

### CacheAudio

The four stages of one call of `GetAudio`, with the buffer as a set of positions.

### EditList and Editing

`graph` is the script so far: a sequence of filters, each after those it asks, with the
`VideoInfo` and the fields its constructor computes.  One action per function a
script may call: `Trim`, `AudioTrim`, `FreezeFrame`, `DeleteFrame`, `DuplicateFrame`,
`Splice`, `Dissolve`, `Fade`, `AudioDub`, `ReverseClip`, `Loop`.  `meant` is the same script as
its author understands it, in `EditList`: lists, cut and joined.  Nothing in `EditList` is
translated from the code; it is the reference the code is compared with.

`GetFrame` is a function, for nothing happens between a request and its answer: recursive on
the graph, `Shown` of one filter in terms of those it asks.  `DeleteFrame` and `DuplicateFrame`
make a filter for each number, after a sort that is modelled exchange by exchange
(`Sorted`, `Insert`, `Pass`), with the repeats that it marks.  `GetAudio`
is a machine: a call is a task on the stack `todo`, filters replace it by calls of
their children and by what they do after those return (`DissolveMixes`, `ReverseSwaps`, the
next turn of `LoopGetAudio`), and samples go where the buffer pointer points, in `out`, one
buffer for the caller and one `audbuffer` for each filter.  A sample is named by its
clip and number, a faded one by the two it is mixed of and the weights.  The filters' classes
derive from `NonCachedGenericVideoFilter` or answer `CACHE_DONT_CACHE_ME`, so that `Invoke`
puts no `Cache` between them; only sources and dissolves have one (`cached`), and the
caller's own request goes through `CacheAudio`.

Scripts may ask for what does not exist: a frame beyond the clip, sound that the frames last
for but the clip has not.  `EditList` then says `loose`, of the frames, the sound or both, and
expects nothing more of them.  Samples are compared at a rate that does not divide as
well: an edit at a frame boundary rounds down, as the code's division does, and an edit whose
rounding can not be undone (a loop of a fractional number of samples) is loose.

## 3. Runs

| Run | Instance | Shows |
|---|---|---|
| `cache` | 2 threads, 3 frames, 4 entries, capacity at most 2, `set_limits` called with three pairs of bounds at any time, one exception | lock counts are exact (`IInv`), held entries stay, one producer per frame, never another frame than the one asked for; eviction takes the oldest free entries and does what the list walks do; the lists are bounded, only a failure loses an entry |
| `memo` | 3 threads, 2 frames, 3 entries, adaptive capacity from 1 to 2, one exception | `LruCache` implements `FrameMemo`, its liveness included; every `GetFrame` returns but those whose frame's maker failed |
| `pattern` | 6 frames, every sequence of requests | the detector's properties |
| `pool` | 1 caller with 2 jobs and 1 job more by each worker's jobs, 2 workers, room for 2 messages, completion objects with 2 slots | each job runs once, results are those of their jobs, nothing a caller has queued is left behind; the ring and its condition variables implement `JobFifo`; `QueueJob`, `Wait` and the destructor return unless all workers wait in jobs |
| `prefetch` | 2 workers, 3 frames, strides 1 and 2, 2 calls, one exception | the queue never fills, whatever is reserved is being made, the count is exact; calls return unless their frame's maker fails; `Destroy` ends always and leaves nobody behind |
| `chain` | 2 threads, 2 levels, a serialized source and a filter with scripts that may request frames, 2 frames | whoever cannot go on waits for a thread that is inside a request; waiting is circular only when a script requests frames; guards and `memory_mutex` exclude |
| `registry` | 2 threads, 3 caches that grow to 2, 1 and no entries | caches are found once each, keep held entries and little beyond their limits; who asks for room gets it; when memory is short the loops reach every cache and leave it less room than the size they went by, though not always less than it had (claims 5 and 6) |
| `frames` | 2 threads with 2 handles, 1 cached handle, 3 frames, 2 buffers, 2 sizes | both counts exact, nothing dangles or leaks, a writer is alone |
| `buffers` | 2 environments, 3 blocks, sizes 1 and 4, alignments 1, 3, 8, blocks at odd addresses | every buffer fits and has one user, the accounting is exact |
| `modes` | a filter and a script function, 2 addresses, 3 levels of `Invoke`, one mode set, by the script or a constructor | the outermost guard is strict enough for all that was chained inside or passed to an Invoke that was, but for two cases (claims 7 and 8) |
| `guards` | 2 guards, 2 Prefetchers of 1 or 2 threads, `Prefetch` called three times, failing half-way or not | no two threads in one instance, an instance for every thread; only a refused `Prefetch` leads to two Prefetchers (claim 10), only a larger one to a missing constructor (claim 11) |
| `edit` | 2 source clips with 3 frames and 5 samples or with 3 samples alone, at 2 and at 3/2 samples a frame; up to 2 filters made by any edits (a fade is up to 3); a request for 6 samples from before or within the clip | the frames and the sound are the expected ones, every sample of the buffer is written once, the request returns |

A property may be a conjunction of named parts: `CountsSound`, `MemorySound`,
`EachJobOnce`, `JobsAccounted`, `LocksExclude`, `RegistrySound`, `StackSound`, `BuffersFit`,
`BuffersAccounted`, `NothingGrows` and `EachItsInstance` gather what belongs together in their modules, the type invariant
among it; `IInv` is the inductive invariant that the proofs use.

### What the source says and the code does not keep

While the modules were written, fourteen statements that the source makes turned out not to
hold.  Each is a definition in the module named, and in no configuration; TLC refutes it
within seconds when it takes the place of the properties of the configuration named,
changed as said.

1. `RolledBackIsTakenOver` (`MCLruCache`, as a PROPERTY of `MCLruCache_memo.cfg`).
   `rollback` says "others have started waiting for this data, so another one will
   have to take over" (`core/LruCache.h:258`), and `lookup` says "whoever we were
   waiting for decided to step back. we take over his place" (`:179`).  The woken
   waiter sets the state to EMPTY and goes back to sleep inside the same loop.  There
   is no producer left, so that it sleeps for ever, and so does every later caller of
   that frame.
2. `FoundIsReturned` (`MCLruCache`, `MCLruCache_memo.cfg`).  A blocking `lookup` that
   comes between the rollback and the woken waiter finds the state ROLLED_BACK, skips
   the wait loop, whose condition is `state == LRU_ENTRY_EMPTY`, and returns
   FOUND_AND_READY with a null frame, on which `core/cache.cpp:200` has an assertion.
3. `SteadyStrideLocks` (`PrefetchPattern`, `MCPrefetchPattern.cfg` with `MaxStreak = 8`).
   While nothing is locked `Prefetcher::GetFrame` compares strides with `Pattern` but
   never updates it, so that only the initial stride 1 (or the one a given-up lock left
   there) can ever be locked on, against the comment on `PATTERN_LOCK_LENGTH`
   (`core/Prefetcher.cpp:84`).
4. `NeverInCircle` (`MCFilterChain`, `MCFilterChain.cfg`).  The comment at
   `core/avisynth.cpp:2731` describes the deadlock that Invoke's lock causes to runtime
   filters and the unlock that avoids it; the unlock is commented out.  A thread that
   evaluates a script holds `memory_mutex` and waits for a frame that another thread is
   making, which waits for `memory_mutex`.
5. `TakesSlotAway` (`MCCacheRegistry`, `MCCacheRegistry.cfg`).
   `ManageCache`, when it takes a slot away from the oldest cache, reads the size of the
   asking one (`core/avisynth.cpp:2365`).  It also may take the slot from the asking cache
   itself, when that is alone in the registry or gets its first entry while the loop goes by.
6. `ReducesCaching` (`MCCacheRegistry`, `MCCacheRegistry.cfg`).  `EnsureMemoryLimit` sets the maximum to the size
   minus one (`:1908`); a cache that its entries in use have made outgrow its maximum
   may thereby get a larger one.
7. `StaleAreCovered` (`MCMtModes`, `MCMtModes.cfg`).  `clip_data` is never cleaned up, so
   that a filter at the address of an earlier one that is gone is taken for it (`:2591`),
   and is not counted: the guard may be too lax.
8. `LostAreCovered` (`MCMtModes`, `MCMtModes.cfg`).  "Propagate information about our
   children's MT-safety to our parent" (`:2787`) is what `Invoke` does when it returns a chained
   clip.  When it calls a script function (`:2711`) or a filter that guards itself, when no clip comes
   back or the constructor throws, its evaluator is dropped with what the arguments have
   added to it.  A clip that a constructor has created directly and passed to a script function is
   not counted, and the guard may be too lax.
9. `NeverDefaultBranch` (`MCMtModes`, `MCMtModes.cfg` with `Reports <- WithSpecial`).  A
   clip's own report of `MT_SPECIAL_MT` gets to the branch of `MTGuard::Create` that is
   said to be out of reach (`core/MTGuard.cpp:247`).
10. `OnlyOneActive` (`MCMtGuards`, `MCMtGuards.cfg`).  The clean-up
   of a refused second `Prefetch` unsets the first Prefetcher (`core/Prefetcher.cpp:370`);
   a third is then accepted, against "Only a single prefetcher is allowed per script"
   (`core/avisynth.cpp:1213`).
11. `ParametersNotNeeded` (`MCMtGuards`, `MCMtGuards.cfg`).  When a Prefetcher is gone and a larger one comes,
    `EnableMT` needs the stored parameters of the filter it has freed
    (`core/MTGuard.cpp:93`).
12. `SoundAloneKeptWhole` (`MCEditing`, `MCEditing.cfg`).  "We don't have video, so we cannot
    align sound to frames" (`filters/edit.cpp:467`) is decided by whether the clip has frames.
    A clip that has only sound counts frames once it has been looped (`:947`, `:930`), so that
    `AlignedSplice` after `Loop` asks how many samples these frames last for, which is 0
    without video, and the first clip's sound is dropped.
13. `RepeatsRemoved` (`MCEditing`, `MCEditing.cfg`).  `DeleteFrame::Create` marks a repeated
    number with the largest int while it sorts ("Remove duplicates", `:350`).  A new number
    that comes after two repeats moves the first mark to the second's place, where it is
    taken for a repeat once more: `DeleteFrame(1, 1, 1, 2)` deletes frame 1 only.
14. `AskedWithin` (`MCEditing`, `MCEditing.cfg`).  A `Trim` that pads ("padaudio") relies on
    whoever is below it for silence, but no `Cache` is below it when that is another editing
    filter: when an `AudioTrim` has cut the sound to less than the last frame's, a padded `Trim`
    plays what it has cut off.  `NoDebt` in the same module is a relative of it: `Loop(0)` of a clip whose
    sound is shorter than its frames leaves a negative number of samples.

The first two need an exception in a filter while another thread waits for the same
frame, which is why the other properties allow for the null frame (`NeverAnotherFrame`)
and for the callers that are stranded (`Stranded` in `EveryCallReturns`; the same in
`Prefetcher` and `FrameMemo`).  `NoCircularWait` exempts circles with a thread that
`Inquires`, and only those (claim 4), so that `chain` shows that there is no other kind.
`ChainedAreCovered`, `SinglePrefetcher` and `ParametersSuffice` name the
cases of claims 7, 8, 10 and 11 and show that there are no others; `CachingReduced` says what
is true in spite of claims 5 and 6.  `FramesAsEdited` leaves
out the lists of claim 13 (`LosesNumber`, which is exact: TLC has compared it with the code's
loop for all lists of up to five of four numbers), and `SoundAsEdited` expects nothing where
claims 12 and 14 apply.  `EveryCallReturns` leaves out loops that have no sound to repeat
(`EndlessLoop`): asked for a sample that is not beyond their first they ask their child
for nothing for ever, and asked for one beyond it they divide by zero (`DividesByZero`,
`filters/edit.cpp:993`), where the model stops.

Some smaller things that reading `edit.cpp` for the model showed, all of them in the
model as they are in the code: the "Ceil" of `AudioTrim` (`:164`) adds one frame's samples less
one, which is no ceiling at a fractional rate; `DeleteFrame` of a frame that does not exist
takes the last away; `Dissolve` with an overlap of 0 replaces the first clip's last sample;
`Reverse` swaps bytes with an exclusive or that is right when a sample's size is a
power of two (`:902`; the model has those).

### Bounds, and why they are enough

- `Keys`, `Entries`, `SizeMax`.  Three frames for at most two slots force evictions, hits
  on ghosts and growth at the maximum (`cache`); for waiting, two frames and three threads
  are more telling (`memo`).  Entries are interchangeable; four are enough for two resident
  ones, one in transit (the overshoot) and one that a rollback has lost.  When they run
  out, allocation would fail: `LookupMiss` is then disabled, and both runs turn the
  deadlock check off.
- `SizeMax` stands for the largest `size_t`.  The code never gets near it; a small
  value makes the upper clamp of `resize` bite, as `set_limits` does with a real
  maximum.
- `GhostsMin` is 1 for 50: only its place in the formula
  `50 + 2 * capacity` matters, and a small value makes ghosts drop out.
- `Limits` has the pairs (0,0), (0,1) and (1,1): a cache that may keep nothing, one
  that may keep a frame and one that must.
- `MaxFaults` is 1: claims 1 and 2 need one exception only.
- `LockLength` is the code's 3.  `MaxMisses` is 4: the counter is compared with
  `LockLength` and nothing else, so that all values beyond it behave alike.
  `MaxStreak` bounds a history variable.
- `PerThread` is 1 for the code's 6, so that the queue does fill up.  `MaxJobs` is 2 and
  `MaxSlots` 2: a completion object is used, reset and used again.  `MaxNested` is 1: two
  jobs that wait for one more each are enough to take both workers.
- `Prefetcher`: `Ahead` and `Room` are the code's twice and six times the number of
  workers; `Jobs` has one object per frame ahead and worker, after which the pool
  of parameters allocates more in the code; with `NumFrames` 3 and `MaxCalls` 2 the
  second call finds frames that jobs of the first are still making, and strides of 2
  run into the clip's end.  Negative strides are left out of the run: their jobs, for
  frames below zero, are made as frame 0 under keys of their own.
- `FilterChain`: `MaxAsks` bounds the child's frames and scripts that a filter needs for one
  of its own.  Two frames let threads be on different ones; two levels put a
  serialized filter under one that holds other locks.  For more levels and threads there is
  the proof.
- `CacheRegistry`: `MaxCapacity` stops the growth of each cache by ghosts; `NoLimit`, the largest
  `size_t`, is beyond what capacities reach.  Three caches are the front one, one that asks
  and one that gives; one has to grow to two entries for the loop over the registry to get
  past its first turn.  The third is not called (`Asked`), which keeps the instance small; the
  proof is for any `Asked`.
- `FrameRegistry`: `Locals` and `Cached` bound the handles: with two of a thread's own and one
  that all share a frame is copied, shared and written to; three frames for two buffers
  make a subframe.
- `BufferPool`: `WordSize` is 2 and the block addresses 0 and 3, since only the order
  of word size, alignment and size matters; the alignments include one below the
  word size, one above it and one that is no power of two.
- `MtModes`: `MaxDepth` is 3: a constructor within a constructor within one, or with
  a script function in between.  `MaxSettings` is 1, at any moment, `Reports` has "none" and
  `MT_NICE_FILTER` (the default supplies `MT_MULTI_INSTANCE`, the setting any mode).
- `MtGuards`: `MaxCalls` bounds the calls of `Prefetch`, three because claim 10 needs a
  refused one and another; `ThreadCounts` their sizes;
  `Again` says whether a script calls it while a Prefetcher is active.
- `CacheAudio`: no bound but those of the arguments, and the proofs need none.
- `Editing`: `MaxFilters` is 4, two sources and two filters (`Made` may go beyond it with what
  it makes at once): any filter upon any other.  `Numbers` reach every frame of the source and,
  with `Starts` and 6 samples, every sample; `Later` bounds what the second edit is given.
  `Lists` has one to three numbers in and out of order, repeats, and those of claim 13.
  `Forever` is 5 for 10000000 frames and for 400000 seconds: more than the source has, so that
  an endless loop turns more than once; `INT_MAX` is 7, more than every number given, as the
  assumption says.  At a rate of 2 everything is whole, at 3/2 a frame
  in two begins between samples.  Of the 12480 scripts 4835 are not `loose` at all, and 4915
  in one of the two lists only.

### Fairness

`LruCache`: weak fairness of `Proceed(t)` for every thread: a thread that can run
is scheduled, the mutex is handed on, the child's `GetFrame` returns.  No caller
has to call, no wakeup has to be spurious, no child has to throw.  Weak is enough:
once one of a thread's own steps is enabled nobody else's step disables it (a
notified waiter stays notified), except that another step of the same thread takes
its place.

`ThreadPool`: weak fairness of each caller's, worker's and the owner's steps; job
functions return.  Which of several sleepers a notification wakes is arbitrary,
and none is promised to be woken ever: `EveryCallReturns` holds because the
queue is drained in the end.  The pool stops when it is deleted, hence no deadlock
check there, nor in `Prefetcher`, which ends in `Destroy`.

`Prefetcher`: weak fairness of the consumer's steps and of each worker's.

`Editing`: weak fairness of `Answering`, the steps of the one thread that is inside `GetAudio`;
nobody has to edit or to ask.  `EveryCallReturns` is about loops: whether each turn gets on.

`FilterChain` has no fairness: that its threads do not wait in a circle is an invariant.

`CHECK_DEADLOCK FALSE` stands where the system may stop: pools, prefetchers and
environments that are deleted, one call of `GetAudio` in `Editing`, entries that have run out after
exceptions, scripts that request frames (claim 4), and `MtModes` for its bound on settings
and addresses.

## 4. Proofs

`LruCacheProofs` proves, for any finite sets of threads and keys, any entries,
capacities and limits (`SetsAssumption`, `SizesAssumption`):

    IInv == TypeOK /\ NodesOwnEntries /\ HeldEntryStays /\ LocksCountHolders
            /\ SingleFlight /\ ValuesMatchKeys /\ AvailableIsFilled
            /\ ProducersHoldResults /\ NeverAnotherFrame

is an invariant, and each of `TypeOK`, `HeldEntryStays`, `LocksCountHolders`,
`SingleFlight`, `AvailableIsFilled`, `NeverAnotherFrame` follows.  The argument
turns on two conjuncts that need one another.  An eviction takes entries with
lock count 0 only; that those have no holder is `LocksCountHolders`; that the
count is exact after a step needs every holder's entry to be the resident one of
its key (`HeldEntryStays`), which evictions must not disturb.  The strengthenings
say that no two keys share an entry (`NodesOwnEntries`), that an entry holds
its own frame or none (`ValuesMatchKeys`), and that a producer knows the frame
before it commits it (`ProducersHoldResults`).  The lemma `Eviction` is the core: what
trims give up nobody holds, and what they keep is unchanged.  `EvictOnly` reduces
`set_limits` and uncached misses to it.  There is one lemma per kind of step, and
type lemmas for the operators of `RecencyList`.

Three theorems build on that.  `NothingGrowsForever` bounds the lists, the ghosts and the
entries: positions are dense (`RanksDense`), so that a trim leaves at most the capacity and
what threads are busy with, a busy thread being charged for one entry
each; and the entries that are in use and not resident are those that a rollback took from
the list and did not give back, each paid for by an exception (`NoEntryLeaks`).
`OldestGoFirst` is the action property `EvictsOldestFirst`: an operation's trims all work on
a list whose order the others leave alone.  `StepsAsFrameMemo` is the
refinement without fairness.  It needs that a producer's entry is EMPTY, that an unfinished
entry has a holder, so that no trim takes it, and that a frame is in it only
between the producer's store and its commit (`MInv`); each action then is one of `FrameMemo`'s or
a stutter, evictions being what that module calls forgetting.

Of the detector `PrefetcherProofs` proves, for every lock length and all sequences of
integer requests (`FramesAssumption`, `LengthAssumption`), that the counters describe
the last strides: `PatternInv == PatternTypeOK /\ CountersMatchHistory`.  While nothing is
locked the last `hits` strides equal `Pattern`; while a pattern is locked it was
hit `misses` strides ago and all hits of the new one came later, so that
`hits < misses`.  `LockedIsRecent`, `LocksOnStreak` and `NoDirectSwitch` follow:
the branch at `core/Prefetcher.cpp:235` that replaces one locked pattern by
another is dead code.

Of the prefetcher itself it proves, for clips of any length, any finite set of workers and any finite
set of strides with 1 in it (`PrefetcherSetsAssumption`, `PrefetcherSizesAssumption`: the detector
starts with stride 1), `JobsAccounted`, `ReservedIsOnItsWay` and `NobodyLeft`.  The invariant says where each job is:
in the consumer's hands, in the queue or with one worker, and in one of these only
(`JobsPlaced`); what it has asked of `VideoCache` at that place (`JobPhases`); that
`running_workers` is the cardinality of the jobs that are queued or with workers who have not yet lowered it
(`CountSound`); and, of the cache, that a frame being made has somebody who makes it, unless that one failed
while others waited for it (`CacheSound`).  Then a reserved frame has a job that is on its way, and when `Destroy` reads a count of
0 no worker is in a job that it may still fail.  A free job exists when one is needed because fewer than
`Ahead` are out (`FreeJobs`), and no request leaves `Keys` (`Reach`): a stride is at most
the largest, and finite sets have one, which is proved by well-founded induction over their subsets.

`EditingProofs` proves, for clips of any length and requests of any position and
count (`AudioAssumption`): `IInv` says at each of the four stages of `Cache::GetAudio` which part
of the buffer is filled and that the rest is what `start`, `count` and the buffer pointer
describe.  `FillsBuffer` (every sample once) and `ChildCanAnswer` follow.  Integers are
unbounded there: a request whose `start + count` overflows is outside the proof.
With any graph of editing filters behind the cache (`EditingAssumption`) the same invariant holds
of `ESpec` (`EditedFillsBuffer`), and `ESpec` implements `CacheAudio`'s specification
(`ImplementsCacheAudio`).
The mapping is the identity but for the place `answer`, where the graph is at work and
`CacheAudio` still about to ask its child: edits and everything on the stack are stutters,
the end of the answer is `AskChild`.

`EditedShows` is about what a script builds: for sources of any length, all rates of at least a sample a frame,
scripts of any length and all arguments (`EditingAssumption`; `DeleteFrame`'s and `DuplicateFrame`'s
numbers are less than the largest int, which marks repeats), `FramesAsEdited` holds: the clip has the
frames that `EditList` expects, and `GetFrame` shows each where it is expected, unless
the script has asked for frames that there are not, for fractions of a sample, or for
claim 12.  The invariant `ShowsInv` adds
what makes it inductive.  Every filter asks filters before it (`Acyclic`), so that `GetFrame` is
what its recursive equation says, and appending filters changes nothing that those before
them show (`GetFrameShows`, `EarlierShowSame`, both by induction, in the form of
a least counterexample among finitely many numbers: `AllNumbers`).  The first source can still be asked.  And the last filter is `Right`: whatever has
video and is not loose has a list of frames, as many as its `VideoInfo` says, and shows
them.  There is one lemma per edit, `TrimShows` to `DuplicateFrameShows`: each assumes
`Right` of what it is applied to and shows it of what comes out, by `MadeShows`, which says what a
constructor leaves alone.  Four of them carry the weight:

- `Loop` (`LoopShows`): remainders of a position in the loop against copies of a list (`CopiesOf`,
  `AgainAndAgain`), and a turn that is cut off by the end of an endless loop.
- `AudioTrim` (`AudioTrimShows`) computes its frames from samples: with a whole number of samples a
  frame the code's division and "Ceil" find the first frame and the number of frames that
  the author means (`StartIs`, `EnoughIs`).
- `DeleteFrame` (`DeleteFrameShows`): the sort puts each new number where it belongs and moves the
  rest (`NewCarriedOn`, `OldCarriedOn`), so that the first numbers of its result are those
  given, ascending, once each, unless it loses one (`SortedAll`, `SortedDistinct`, `KeepsAll`); below
  a chain of filters for the greatest first, frame `j` is shown at `j` less the deleted ones
  before it (`DeletedOneMore`, `DeleteShows`); and that is where the list with those left out has it
  (`KeptCount`, `AllReached`).
- `DuplicateFrame` (`DuplicateFrameShows`): the same with repeats kept and copies counted.

`MtProofs` is about modes and guards.  Of the modes it proves, for any functions, clips' reports,
addresses and depths of `Invoke` (`ModesAssumption`), `StackSound` and `ChainedAreCovered`.  The
invariant `ModeInv` adds to these that each constructor's evaluator has counted, at every
moment of the call, what the filters demand that are chained to it so far, or were passed to those (`Covered`); at the end
the mode for the guard is at least as strict.  What makes it inductive is where counts and
demands go: the top of `invoke_stack` is the innermost constructor, whatever script functions
run inside it, and the one below the constructor around that (`TopOfStack`), so that
`Propagated` counts at the end of an `Invoke` for the same constructor that the clip is chained to.  `StackPushed` and `StackPopped` keep that true;
an evaluator that is dropped takes its own counts along and touches no other's (`CallsDropped`).

Of the guards it assumes that `None` is neither a Prefetcher nor a guard
(`MtGuardsAssumption`).  The invariant has a part for Prefetchers and one for guards.  As
long as no `Prefetch` was refused, whoever has workers is the environment's active
Prefetcher, so that there is one at most (`OneActive`); a guard that has
dropped its parameters has an instance for each of some earlier Prefetcher's threads, from which
`MissedOnlyByMoreThreads` follows; and, unless a `Prefetch` passed the test while another's Prefetcher was there, threads have
different numbers, a guard has more instances than there are workers (`GuardSound`), and each
thread inside one has the instance or the mutex that the guard gives it still (`CallSound`), so
that no two share one (`AlonePerInstance`).  A `Prefetch` that fails half-way has no workers, so that
no instance is missed (`EnableFailsKeeps`).

`MemoryProofs` is about frames and buffers.  Frames: for any finite number of threads, handles, frames and buffers
(`FrameSetsAssumption`, `FrameSizesAssumption`: cached handles are nobody's own, `None` is no
object), `CountsSound`, `WriterIsAlone` and `MemorySound`.  `CountsSound` says nothing of a `Release` that has lowered the first count and not
yet the second, or of a frame that has been found and not yet been counted; the inductive
invariant does.  Its parts: for each place what a thread has with it there (`PlaceSound`),
that objects in use are allocated (`ObjectsSound`), that each count is the cardinality of the
set of handles, plain pointers and debts that it stands for (`CountsExact`), that the search of
`GetNewFrame` starts with a buffer nobody can reach (`StartsSound`), and that between
`IsWritable`'s two reads and the end of the writing nobody comes to share (`WritersSound`).
Each atomic operation adds or takes one member of such a set.

`MemorySound` says besides that each buffer keeps a frame in the registry, as long as it exists, and that
`memory_used` is the sum of the buffers' sizes.  That a sum over a finite set
does not depend on the order in which it is added up is induction, and the induction theorems
cannot be instantiated here; the lemmas about sums take a minimal counterexample instead, in the
well-founded order of the subsets of a finite set.  Adding an element, taking one and changing
one element's size then change the sum by just that.

Buffers: for any finite set of blocks and any environments, requests, alignments and addresses
from `malloc` (`BlocksAssumption`: word sizes and accepted alignments are powers of two up to a page), `BuffersFit`
and `BuffersAccounted`.  `PoolInv` says of each block that its fields are those `PrivateAlloc`
computed (`LaidOut`), that it has one user at most and one exactly while it is in use
(`BlockSound`), that an environment's map has each of its blocks once and a deleted one's none
(`MapSound`), and that `memory_used` is the sum of the allocated blocks' sizes.  That the request
fits behind the header follows from `LaidOut` alone, for each power of two; that a found buffer
fits the request it was not made for, from what `AllocatePooled` compares.

`ThreadPoolProofs` is about any numbers of callers, workers, places in the ring, completion
slots and nested jobs (`CapacityAssumption`, `ThreadsAssumption`, `PoolAssumption`).  The ring with
its head, tail and size is a sequence (`Contents`); lemmas show that a push is an append and a pop
the head and tail of it, wrap-around included, so that each step of the pool is a step of
`JobFifo` or a stutter (`PoolIsFifo`).  The rest of the invariant (`PlacesSound`, `JobsSound`,
`PromisesSound`, `StopsSound`) says where jobs are: those in the queue and in workers' hands are
pairwise different and have not run (`JobsRunOnce`), their promises are handed out and not
fulfilled, which is why a `Reset` cannot reuse a slot too early (`WaitReturnsResults`); and that
the `THREAD_STOP`s, in the queue and with workers, are as many as the destructor has pushed and
stand behind every caller's job, so that none is left when the workers have ended.

`CacheRegistryProofs` is about any finite number of threads and any caches
(`RegistryAssumption`).  The registry is a sequence without repeats; lemmas say what removing,
appending and moving do to its elements.  The invariant adds that one thread at a time is
in a loop over it and within its bounds (`InLoop`), that threads are in caches that exist
(`InCaches`), and that a cache which asks for more than it has goes on asking for more while
others hit and miss in it (`AskSound`), that a cache holds at most an entry per thread beyond its
capacity (`NotOverfull`), since each trim leaves only what is held, and, while a loop
runs, that each cache it has come to has the limit it was given and may hold less than the size
that decided it (`BasisSound`) - for which nobody else may nod, come or set limits.
`CachesStayRegistered` follows; `AskersGrow` and
`LoopsReduceCaching` are action properties, for which `OwnSteps` first shows whose step it is.

`FilterChainProofs` is about chains of any length, any threads and any choice of serialized
filters and of filters that evaluate scripts (`ChainAssumption`).  The invariant says that a
thread's requests are stacked: where it has one, it is inside the filters above it, at a place
from where they ask (`StackSound`); that `memory_mutex` and each FilterMutex belong to
who evaluates and who is inside (`MemorySound`, `FiltersSound`), from which `ThreadsExcluded`
follows; and what a request to a cache may have come to at each place (`PhasesSound`).
`NobodyInCircle` ranks threads by the level they run at and, within one, by whether they wait for
somebody's frame, for the filter, or are in it (`Rank`): who waits for a filter or for a frame
waits for a thread of lower rank (`AwaitedIsNearer`), whoever is waited for has a request himself
(`AwaitedIsBusy`), and the owner of `memory_mutex` waits for nobody,
unless its script has requested a frame (`OwnerGoesOn`).  So of any threads the one with the least rank
waits for none of the others.  That a thread that waits for nobody can go on is `AwaitedAreAll`,
and TLC's part, since it is about what is enabled.

Model-checked only, for these reasons:

- liveness under fairness: `EveryCallReturns` in `LruCache`, `ThreadPool`, `Prefetcher` and `Editing`,
  and that `LruCache` is as fair to its callers as `FrameMemo` (the rest of `ImplementsFrameMemo` is
  `StepsAsFrameMemo`);
- `AwaitedAreAll`, which speaks of `ENABLED`;
- `SoundAsEdited`: what the stack of calls does to the buffers would have to be related, for each
  filter's `GetAudio`, to a function like `GetFrame` of the graph, and the rounding of times carried
  through every edit;
- `ListsAgree`, the agreement of the list walks with the operators: recursion on
  both sides.

## 5. Not modelled

- Allocation failure: of entries, of frames (but for the memory limit), of buffers.
- The undefined behaviour of notifying a condition variable whose entry may
  have been destructed by then (`core/LruCache.h:240`): the model's notification of an
  entry without sleepers does nothing.
- The audio policy hints of `SetCacheHints`: they are stored and read by nobody.
- `FilterChain`: children do not fail, every guard is in MT mode, and an expression
  that calls no function takes no lock.
- `CacheRegistry`: a thread is in one cache at a time; memory in use is not computed.
- `FrameRegistry`: planar subframes are like `Subframe`; frames' properties are data.
- `BufferPool`: an environment is deleted when its pooled buffers are back (the
  destructor frees those in use too).
- `MtModes`: one thread; functions that return no clip count nothing.
- `MtGuards`: a thread is in one guard at a time, `EnableMT` is one step, that may end with an
  exception when an instance is made,
  `MTGuardExit` is not compiled in; threads of the environment's own pool, which are
  numbered like the Prefetcher's, do not request frames.
- `ThreadPool`: the destructor while callers are inside `QueueJob`.  The environment's destructor; variables,
  function look-up and the per-thread environments' copies of them.
- `Editing`: formats that do not match (they throw), conversions of sample types before a
  splice, the value of a mix (only its parts and weights), samples whose size is no power of
  two under `Reverse`, and 32-bit overflow of frame and sample counts.
- The other filters, conversions, codecs, the parser and the plugin loader for good: they are
  sequential, and arithmetic or I/O.

## 6. Plan

Done: the cache, its lists, abstract specification, and the proofs of both its invariants
and its refinement; the detector and proofs;
queue and pool with jobs that queue jobs, their refinement of `JobFifo` and proofs; the
prefetcher on top of them and proofs; the filter chain's locks and proofs; both registries and
proofs; buffers and proofs; MT modes, MT guards and proofs; audio and editing, and the proofs about
audio and about frames.  Next, in this order:

1. `SoundAsEdited` for clips of any length, on the lines of `EditedShows`: first that a call of
   `GetAudio` leaves in the buffer what a recursive function on the graph says, then one lemma per edit.
2. The environment's destructor (`core/avisynth.cpp:988`): in which order the pool, the
   registries and the frames go.  It deletes all buffers and sets `vfb` to null in every frame,
   those that a player still holds included.
