# Portal framework: TLA+ models and proofs

This directory holds a TLA+ verification of the Portal framework. The core is
the job system (`core/portal/core/jobs`), the part every other part runs on and
the one whose correctness tests reach least: worker threads, work stealing,
fork-join counters, coroutines that move between threads, and a wake signal.
Around it stand models of the resource registry and its database on disk, of the
scene an editor works on, of networking, and of the frames a program draws.

`PROJECT.json` maps every definition to the lines it models, names the property
each hazard is covered by, and a mutant (a plausible bug) that each property
catches.

## The system

| Component | State it keeps | Operations | What is hard | What makes it correct |
|---|---|---|---|---|
| Scheduler (`core/jobs/scheduler`) | one `WorkerContext` per worker and `global_context`, `wake_signal` | `dispatch_job(s)`, `wait_for_counter`, `wait_for_job(s)`, `main_thread_do_work`, the worker loop, destruction | interleaving of owners, thieves and waiters; lost wakeups; nested waits | each handle in one place, none lost; exact counters; waits return exactly when they should |
| Job coroutines (`core/jobs/job`) | `JobPromise`: continuation, counter, scheduler, result | `SuspendJob`, `FinalizeJob`, `co_await` of a job | a suspended job is resumed elsewhere while its `await_suspend` still runs | frames resumed by their own thread; a job is decremented once |
| WorkerQueue (`core/jobs/worker_queue`) | local and stealable queues per priority, an atomic count beside each | submit, pop, migrate, steal | counts lag behind queues; `size_t` wraps | counts come back exact; no job hidden or repeated |
| Locks, threads (`core/concurrency`) | owner, recursion count | lock, try_lock, unlock | spinning, re-entry | mutual exclusion |
| Allocators (`core/memory`) | free list, stack top, two stacks | alloc, free, markers, swap, clear | freeing out of order, the last slot | no two live allocations overlap |
| Strings, files, buffers, log, reflection, platform | registries, streams | conversions and I/O | little | round trips |
| Application and modules (`application`) | module levels and hook lists | add, build graph, frame loop, clean | order, cycles | dependencies first at update, last at destruction |
| Resources (`engine/resources`) | loaded, pending and errored ids, dirty bits, references, metadata on disk | create, load, get, save, snapshot; register, copy, move; populate, validate, mend | loads on worker threads race with requests; errors part-way | one load per id; every pending id is resolved; registered references are the live ones |
| ECS (`engine/ecs`, `engine/systems`) | sibling lists, dirty transforms | set_parent, remove_child, destroy | long sequences of pointer edits | lists and parents agree, no cycles |
| Editor (`engine/editor`) | ring of 16 snapshots, selection | commit, undo, redo, drag and drop | a snapshot is merged into a scene that has changed since | undo brings back what was, and loses nobody |
| Renderer (`engine/renderer`) | frames in flight, fences, images, descriptor sets | prepare_frame, present, resize, update | the GPU is behind; images come out of order | nothing in use is reset or destroyed |
| Networking (`networking`) | connection state, maps of connections and servers | connect, disconnect, poll, status callbacks | user thread, polling thread and callbacks | open connections are owned; no callback hits another connection; no entry stays |
| Input, window, serialization, settings | event tables, archives | callbacks, parsing | little concurrency | conversions |

Interactions: the application's frame loop drives the modules; the scheduler
module pumps `main_thread_do_work`; the resource registry loads resources in
jobs and hands references to scenes and to the renderer; the renderer's frames
hold descriptors and deletion queues; the editor snapshots scenes through the
registry; networking runs threads of its own.

## Modules

Jobs:

- **`ForkJoin`** is what the job system promises: a body dispatches its jobs, a
  job runs in one place at a time, may yield, may wait, and a wait ends only
  when every job counted on it is done. It knows no threads and no queues.
- **`Scheduler`** is the detailed model. Variables correspond to the code as
  follows: `held` is the contents of every container of coroutine handles (local
  and stealable queues, caches, the `job_pointers` of a `dispatch_jobs` call,
  and the nest of bodies a thread is inside of, because `wait_for_counter` runs
  other jobs on top of the waiting one); `counter[b]` is the `Counter` on the
  stack of body `b`; `job_counter` and `continuation` are the fields of
  `JobPromise`; `wake_signal` is the atomic flag; `checks` the steal-check
  counter; `pc` the place a thread is at; `resuming` the continuation an
  `await_suspend` holds. There is one action per access to state that another
  thread can see; work on private state belongs to the step before it. It has
  one priority and atomic bulk operations on queues.
- **`WorkerQueue`** opens the queues up: three priorities, the counts beside the
  queues, and one step per atomic access. In exchange a thread is inside of one
  body at a time, there are no counters, and a worker may migrate in any
  iteration that finds its cache empty (the interval is in `Scheduler`).

Resources:

- **`ResourceRegistry`** models loads: `resources`, `pending` and `errored` are the
  three tables, `target[l]` and `pc[l]` the id a `load_resource` job is for and
  where it is, `parts` the jobs of a composite that call `load_direct` only,
  `awaited` the waits of `wait_for_job` and `wait_all`, `want` and `immediate` the
  request a caller or a loader is making. One step is one critical section of
  `lock`, or an access outside of it. A loader is what it asks for: `Needs` are the
  shader and textures of a material (`immediate_load`), and a glTF composite
  starts a job per part, stage by stage. Each load makes progress on its own;
  which thread runs it is the subject of `Scheduler`.
- **`ResourceDatabase`** is `FolderResourceDatabase` with its folder: `files`, `pmeta`
  and `podb` are on disk and survive, `resources` is the table of the running
  program. The constructor is a sequence of phases, `Populate` (one `.pmeta` at a
  time, in any order, each rewritten in place), `BeginMend`, `CreateMetadata`,
  `Repair`, `EndOpen`; then `Add` and `Remove`; `Close` is the destructor. The
  program may die at any step, and in the middle of any write (`DieWriting`,
  `DieSaving`), which leaves a truncated file. Between sessions, and for the files
  themselves also during one, the user works in the folder.

Scene and editor:

- **`EntityHierarchy`** has the linked lists of `RelationshipComponent` and operators
  for `set_parent`, `remove_child`, `destroy_entity` and the two iterators, each
  field written in the order of the code. `Dead` stands for a handle of a
  destroyed entity.
- **`SceneForest`** is what these lists promise: parents and ordered lists of
  children that agree, where whoever stays keeps the place and whoever comes
  joins at the end.
- **`SceneEditor`** adds what works on the hierarchy between two frames: creation,
  drag and drop in the scene graph, gizmo and field edits with `prepare` and
  `commit`, the ring of `SnapshotManager`, undo, redo and the history menu,
  serialization and the merge of a snapshot (`deserialize_scene`), and once a
  frame `TransformHierarchySystem`. A matrix is the sequence of local transforms
  it is the product of. `fate` says that a call read memory that is gone, or
  that `get_depth` never returns.

Networking:

- **`Sockets`** is what the code uses of GameNetworkingSockets (external): two ends
  per connection, losses, and a queue of status callbacks per program, with the
  `None` that closing an end of one's own leaves there.
- **`Connection`** is the client: the user's thread, the polling thread, the
  callbacks it has taken, and the entry in the `ConnectionManager`. `connect` is
  the steps `Connect`, `Check`, `Register`, `SetRunning` and `Joined`, and
  `on_connection_error` the steps `Dispatch`, `CloseLost`, `RemoveLost` and
  `ResetLost`, because the two can meet: `connect` tests `running` only, and the error
  handler resets it first. The history variable `early` says that they have met. A
  callback whose connection is no longer in the manager fails the assertion at
  `connection.cpp:157`: the program dies (`Die`), or, in a build without assertions,
  goes on (`passed`, which never changes its mind).
- **`Server`** is the server with its table, polling thread, `stop` and `kick_client`.
- **`Network`** composes client programs and the server over `Sockets`.

Frames:

- **`Presentation`** is what is external to the renderer: a graphics queue that
  completes in order, fences, images that come back from the window system in any
  order, and a window that is resized, minimized and restored at any time. A
  submission is *harmed* when something it uses is destroyed or rewritten.
- **`Swapchain`** is `VulkanSwapchain`: the waits of `prepare_frame`, acquisition with
  its three outcomes, `clean_frame`, submission and presentation with theirs, and
  the immediate and the deferred resize. `at` is where the main thread is.
- **`FrameLoop`** is `Application::run` around it: events, update, the descriptor set of
  the frame (`VulkanMaterial::get_descriptor_set`), the viewport's render target, and
  destruction.

The **`MC...`** modules give the constants for TLC. **`SchedulerProofs`**,
**`SchedulerRefinement`**, **`WorkerQueueProofs`**, **`ResourceRegistryProofs`**,
**`ResourceDatabaseProofs`**, **`SceneEditorProofs`**, **`NetworkProofs`** and
**`FrameLoopProofs`** hold the theorems.

`moodycamel::ConcurrentQueue` is external. It is modelled as the code uses it: a
bulk enqueue appends, a bulk dequeue takes a prefix, atomically. The real queue
is first-in-first-out per producer only; where it has one producer this is what
it does, and no property of the scheduler depends on the order across producers.

The bodies of jobs are nondeterministic: at every point they dispatch any of
their jobs in any batches, suspend, wait if they have something to wait for, or
finish. Two obligations of the caller are built in: a body whose `Counter` is
on its stack does not return while jobs count on it, and the scheduler is
destroyed when all jobs are done (`scheduler.h:81`). One external thread at a
time uses `global_context`, which has no lock (`ExternalsAssumption`). Stop
requests and shutdown are in the model; frames of dispatched jobs are never
destroyed, as in the code.

## What is checked

| Run | Question | Result |
|---|---|---|
| `scheduler_nested` | safety and refinement for a fork-join inside a fork-join, one job detached, on two workers and a pumping main thread | holds |
| `scheduler_live` | with one waiter at a time: is every wait woken, does every job finish? | holds |
| `scheduler_lost_wakeup` | the same with two waiters | violated: a waiter arms the shared signal again between the clear and the wait of another, which then sleeps on a zero counter (`scheduler.cpp:91`) |
| `worker_queue_counts` | are counts, queues and caches consistent at the grain of single atomics? | holds |
| `resource_states` | do ids move through pending to an outcome and stay there, and do all loads end, when loads wait for loads of a composite's parts? | holds |
| `resource_pending` | "For immediate_load(), this state is never observable since the call blocks" | violated: `immediate_load` does not wait for the load of another job (`resource_registry.cpp:195`) |
| `database_sessions` | what does the database still know after crashes and after the user's work in the folder? | holds |
| `editor_undo` | do lists, undo, redo and world matrices stay right over any sequence of edits? | holds |
| `editor_destroy` | "By default, all children are also destroyed recursively" | violated: the loop steps on from a child it has destroyed (`registry.cpp:102`) |
| `network_sessions` | with losses, late callbacks, connect, disconnect, kick and stop in any order: is nothing leaked, ended by mistake or left behind? | holds, for a client that does not call connect before its old polling thread is done |
| `network_restart` | does the server's callback find its client after stop and start? | violated: callbacks of the last session reach the next one (`server.cpp:126`) |
| `frames` | does the GPU use only what lives, and does every wait for a fence end, whatever the window does? | holds |

The safety properties of `Scheduler`: `HandleUnique` (no handle in two places),
`NoJobLost` (the containers hold exactly the dispatched, unfinished jobs),
`CounterExact` (a counter is the number of its unfinished jobs at every step,
so the bump before submission and the second dispatch of a suspended job count
right), `CounterAlive` (a decrement finds its counter alive),
`ReturnsToOwnFrame` (an `await_suspend` resumes a frame of its own thread even if
the job has moved on), `JoinComplete` (a wait ends only when its jobs are done)
and `ImplementsForkJoin` (refinement). `SleeperWillBeWoken`, `AllJobsFinish` and
`WaitReturns` are about the wake signal and progress. Of `WorkerQueue`:
`EachJobOnce`, `CountsExact` (a count differs from the length of its queue only by
what threads in the middle of an access still owe it, modulo the width of
`size_t`), `ZeroHidesNothing` (the gate of `attempt_steal` closes over a
non-empty queue only while its owner is about to publish) and `UrgentFirst`.

Of `ResourceRegistry`: `PendingIsLoading` (an id on the pending list has a load
that will take it off; the exception, a part of a composite that failed, is the
wrong id erased at `resource_registry.cpp:241`, and such a part stays pending
for ever), `StatesAdvance` (a loaded id stays loaded, and no outcome is
forgotten), `ImmediateIsSettled` (what is left of the promise of
`immediate_load`: an outcome, or another load on its way) and `LoadsEnd` (the
loader of a material may ask for a texture of the composite that waits for the
material, which loads the composite again: what ends the recursion is the test
at the start of `load_resource`). Something to know of the instance: the
metadata of a glTF is filed under the id of each embedded texture
(`gltf_loader.cpp:180`), so `get` of the texture refers to the composite, which
`MetadataId` says and the state of the reference follows.

Of `ResourceDatabase`: `Durable` (what `add` accepted is known in every later
session, under its id, until it is removed or its own files are damaged),
`MendedIsValid` (when the constructor returns, the table answers for no file
with metadata `validate_metadata` would reject) and `CleanReopen` (a session that
ends in order, in a folder nobody touched, is in order for the next one). The
history variables `acked` and `touched` say when these promises lapse: a crash
during a write tears the file that is written, and the code writes in place.

Of the editor: `SiblingLists` (lists, counts and parents agree whatever the
sequence of calls, even when an entity is dropped below itself),
`ImplementsForest` (refinement of `SceneForest`), `UndoneIsPast` (an undo brings
back parents and transforms as they were before the last edit, as far as the
ring reaches, wherever its index wraps), `RevertKeepsScene` (the merge of a
snapshot never takes an entity out of the scene, and brings back those a drop
has cut off) and `RevertIsDrawn` (one frame after a revert every world matrix is
the product along the path from the scene, although only tagged transforms are
computed).

Of networking: `OpenIsOwned` (an end that is open in the library belongs to a
Connection that has its handle and that callbacks find), `PollsOpenHandle` (a polling
thread never receives on a handle its own program has closed or reset, after which the
code uses the message it did not get), `NoStaleEvent` (a queued event of an earlier
connection does not end the polling of the new one; in a build with assertions it ends
the program instead), `DisconnectReturns` (the join ends) and `ClientsLeave` (whoever
leaves leaves the server's table, unless it was kicked). The first three promise
nothing to a client once `connect` was called before the old polling thread was done
(`early`). The run takes these calls and all that follows from them; without the
exception, `OpenIsOwned` and `PollsOpenHandle` are violated there, and `NoStaleEvent` as
soon as a client connects three times. Errors, `disconnect` and `connect` in every other
order keep all three.

Of frames: `GpuUsesLive` (nothing a submission uses is destroyed, reset or
rewritten while the GPU may read it: not by `clean_frame`, a resize, the
viewport or a material's descriptor sets) and `FenceWaitsReturn` (a fence is only reset
for a submission that will signal it).

### What the runs say of the code besides

Behaviours of the models, and so of the code, that no property states because
nothing in the repository promises the opposite, or promises it clearly enough:

- A single worker never takes back the jobs it migrated to its own stealable
  queue: `try_steal` gives up when it picks itself (`scheduler.cpp:257`).
- A thread may wait, on top of a body, for jobs that wait for that body: waits
  nest on one stack (`scheduler.cpp:78`).
- The cache is filled in order of priority and emptied from its end
  (`scheduler.cpp:191`), so that within one bulk High is not "processed before"
  Normal.
- The metadata `mend` makes for a new file has no name, and `add` rejects it
  (`folder_resource_database.cpp:464`): the file stays without metadata.
- A `.podb` torn by a crash names no database; every id is wrong then, and `mend`
  removes every `.pmeta` (`folder_resource_database.cpp:531`).
- A drop below itself makes a cycle on which `get_depth` never returns if a frame
  with two tagged transforms comes before a revert (`fate = "hung"`).
- `connect` during the last round of the old polling thread passes the test of
  `running` (`connection.cpp:30`), stores its handle and registers it. The old thread
  then closes and resets the new handle for its own (245-247), or forgets it and leaves
  the connection open. Or line 50 revives the old thread: it polls on, with the new
  handle, and `connect` waits in its join until that connection is lost; or with none,
  and then it uses a message that was not received (137-147). All of it is in `network_sessions`.
- The manager no longer has a connection that was closed, but the queue has its
  callbacks, with the `None` of the closing itself if nothing else. Whoever connects
  again dispatches them, and PORTAL_ASSERT at `connection.cpp:157`, "Connection not found
  in manager", stops the program. Only a build without assertions (`PORTAL_DIST`,
  `PORTAL_TEST`) goes on. The server has the like of it (`network_restart`);
  here no stop is needed, a second `connect` is enough.
- The entry of a kicked client, and of one that is lost before it was connected,
  stays in the server's table.
- A minimized window skips the submission but not the acquisition
  (`runtime_module.cpp:64`): images stay with the program, until an acquisition
  waits for one without end.
- `acquireNextImage` throws when the surface is out of date, which nothing expects:
  a resize between the events and the acquisition ends the run
  (`vulkan_swapchain.cpp:474`). A surface without extent leaves no swapchain, and
  the next acquisition uses the null handle.

### Bounds

For `Scheduler`, three jobs, two workers and the main thread are the smallest
instance with an owner, two thieves, a fork-join inside a job, a counted and a
detached job and a migration. `CacheSize`, `Threshold`, `MoveCount` and
`StealCheckInterval` are 1 or 2 (4, 64, 32 and 128 in the code) so that bulks are
cut short, caches run full and migration happens with so few jobs; the proofs hold
for every value. `MaxSuspends` bounds how often a job yields: once is enough to be
dispatched again, move to another thread and meet its own `await_suspend` there.
`CounterMax` and `CountMax` are just large enough for the jobs of the instance, so
a count that goes below zero wraps within the run. `worker_queue_counts` has five
jobs: with fewer, no worker publishes into a stealable queue that still holds a
job. It and `scheduler_nested` use symmetry of the workers, which no property of
theirs tells apart; no liveness is checked with symmetry. Only `scheduler_live`
bounds the number of waiting threads: its bodies are such that one body waits at a
time.

`resource_states` has a composite, a texture and a material that needs it, and an
id the database does not know; one caller makes two requests (`MaxCalls`), at most one
source is unreadable (`MaxFailures`). The instance never reaches `MaxLoads`: with one
more the same states are found. Its callers stop asking, which is why deadlock
is not checked; `LoadsEnd` covers loads that wait for each other.
`resource_pending` has two materials and a shader instead of the texture.

`database_sessions` has two images whose ids collide (`rock.png` and `rock.hdr`; an id
has no extension) and a glTF with an embedded texture. Three edits, two crashes and
four calls of `add` and `remove` (`MaxEdits`, `MaxCrashes`, `MaxCalls`) let a file be
damaged, mended, added again and torn while it is mended; the number of sessions is
unbounded.

`editor_undo` starts from a room with a table in it and may create a cup; four calls
or edits (`MaxOps`) between any number of frames. The ring has two slots and `size_t`
four values (16 and 2^64), so that `current - 1` wraps at once and the ring
overwrites what is oldest. Two local transforms tell a stale product from a right
one. `DestroyParents` is FALSE: what happens otherwise is `editor_destroy`.

`network_sessions` has one client that connects twice, which is what an event needs to
be of an earlier connection, and an old polling thread to meet a new handle, and one start; `network_restart` starts twice. Clients
share nothing but the server's table, whose entries are independent.

`frames` has two frames in flight and three images, which come back in any order, so
that an image returns to another frame than the one that used it last, and two
textures. Nothing else is bounded; the queue is as short as the fences keep it.

### Fairness

`FairSpec` of `Scheduler` assumes weak fairness of the scheduler's own steps of each
thread (the operating system runs every thread) and of the bodies on workers (a body
does something eventually); strong fairness of the bodies of external threads, which
may be interrupted for ever by `main_thread_do_work` otherwise; and strong
fairness of each thief-victim pair, which stands for the random generator of
`try_steal`: a victim is not avoided for ever. Nothing else is assumed: main
need not pump, and a waiter need not be notified.

`FairSpec` of `ResourceRegistry` assumes weak fairness of each load job and of a
caller's pending request: jobs and threads are scheduled, and loaders return.

`FairSpec` of `Network` assumes weak fairness of the polling threads, of a call of
`connect`, `disconnect` or `stop` that has begun (it waits at its join), and of the
library's noticing that a peer is gone. Nobody has to call anything. A client that
revived its old polling thread waits in `connect` until the connection is lost, which
nothing makes happen.

`FairSpec` of `FrameLoop` assumes weak fairness of the main thread and of the GPU's
completion of what it was given. The window system need not give an image back.

## What is proved

Eight modules hold proofs. Seven are each of an inductive invariant `IInv`
(`InductiveInvariant`: `Spec => []IInv`) and of the properties that follow from it; the
eighth is the refinement of `ForkJoin`. All hold for all values of the constants, from
the named assumptions in the modules. Four results need a hypothesis more, on the
constants alone, and say so in the theorem: `SleepersAreWoken` (`OneJoiner`), `OrderIsKept`
and `UntouchedReopensClean` (`UniqueComposites`), and those of `SceneEditorProofs`
(`~DestroyParents`). Each is explained below, with what goes wrong without it.

**`SchedulerProofs`**, for all sets of workers and jobs, all programs
(`Creator`, `Detached`), all cache sizes and thresholds, from the four named
assumptions of `Scheduler` (the names are distinct; the jobs are finite and no
more than a `size_t` counts; one external thread; positive sizes):
`TypeCorrect`, `HandlesAreUnique`, `NoJobIsLost`, `CountersAreExact`,
`CountersAreAlive`, `FramesAreOwn` are the invariants the runs check, and
`JoinIsComplete` the action property `JoinComplete`.
None of the properties is inductive alone. `IInv` adds `FreshJobs` (a job nobody
dispatched belongs to no counter), `OwnContinuations` (a job on a thread's stack
continues in a frame of that thread, which gives `ReturnsToOwnFrame`),
`NoStaleBatch`, `CacheSpent` (a cache is refilled only when it is empty: otherwise a
bulk would overwrite handles) and `BodiesOnStack` (a worker executes body code only
inside of a job). The argument has three layers: facts about sequences of
distinct handles (`TakenLeft`, `FrontLast`, `Concatenation`, `Pushed`); facts about
placements (`ReplaceContents`, `MoveHandles`: an action that moves handles between
two containers keeps every handle in one place and loses none); and one lemma
per action. Counters are handled with cardinalities of `Pending` sets: a dispatch
adds a fresh set, a finalization removes one element, everything else leaves the
set alone. `IInv` is at the beginning of `SchedulerProofs`; its parts that are properties
of their own are those `scheduler_nested` checks.

**`SchedulerRefinement`** proves `ForkJoinIsImplemented`: `Spec => ImplementsForkJoin`,
under the same assumptions. The abstract state is read thread by thread (`Running`,
`Waits`), so a step of one thread moves only what is read off that thread
(`KeptThreads`, `WaitingChange`). The steps that count are six: `DispatchJobs`,
`BeginWait`, the `CheckCounter` that goes on to the body, `ExecuteCached` (`Start`),
`SuspendJob` (`Yield`) and `FinalizeJob` (`Finish`); all others leave the abstract state
alone (`UnseenStep`). `RInv` is `IInv` and three facts it lacks: `Suspending` (a thread
with a frame to resume is inside an await_suspend, so a body never acts while it is
half suspended), `PumpingIdles` (an external thread inside main_thread_do_work runs
no code of its own) and `CountedByCreator` (the body that dispatched a job is the one
whose counter it is on, so a counter at zero means that nothing is awaited). A
refinement needs no fairness: `ForkJoin` promises safety only.

The same module proves `SleepersAreWoken`: a thread blocked on a counter that is down is
about to be woken. That is not true of the system (`scheduler_lost_wakeup`: of two waiting
threads one arms or clears the flag the other sleeps on), so the theorem assumes
`OneJoiner`: the counted jobs are all dispatched by one body, be it an external thread or
a job that suspends and goes on elsewhere. From `CountedByCreator` it follows that no
other body ever waits (`JoinersWait`), hence at most one thread is between the head of the
loop and its end (`OneWaiter`), and it alone arms the flag. `Armed`: while the flag holds a
waiter whose counter is down, a finalizer is before its `clear`. `Told`: once the flag is
clear, a thread that still sleeps has a `notify_all` coming. TLC checked these parts on the
instance of `scheduler_live` and on one where the body that waits is a detached job.

**`WorkerQueueProofs`**, for all finite sets of threads and jobs, any cache size,
threshold and bulk, and any `size_t` that counts the jobs: `TypeCorrect`,
`EachJobOncePlaced`, `CountsNeverDrift`, `NothingHidden` and `MostUrgentFirst`. What is hard
is `CountsExact`: a count is changed a step before or after its queue, by any number of
threads at once, and wraps. The proof does not sum over threads. It counts *rows*: for
every queue the set of pairs of a thread and a number up to what that thread still owes.
A step adds rows of one thread or removes them (`FS` theorems on cardinalities), and
`WrapShift` carries the difference through the modulus. `IInv` is `TypeOK`,
`EachJobOnce`, `Sorted` (a queue holds the jobs of its priority), `ControlInv` (what the
place a thread is at says of its cache, victim and body: without it, a refill would
overwrite a full cache) and `CountsExact`. For `ZeroHidesNothing` a zero count has to be
undone: if all that a queue holds were still to be subtracted by thieves, those jobs
would be in the thieves' caches and in the queue, which an injection from rows to jobs
shows to be too many (`StolenElsewhere`).

**`ResourceRegistryProofs`**, for all ids, composites, needs, stages and numbers of
callers and loads: `TypeCorrect`, `PendingIsAlwaysLoading`, `StatesOnlyAdvance`,
`ImmediateComesBackSettled`. `PendingIsLoading` is inductive only with `Targets` (a load
that exists has an id) and `PartsLoad` (the job of a part is never where a load is on
the pending list). That an immediate request comes back to an outcome needs the way
there: `Finished` (a load about to finish has registered its resource), `Waits` (the
load a request waits for is of the id it wants, and when it has ended the id is
settled) and `Gets`. The key fact, `Remembers`, is about steps: the tables grow, and
what leaves the pending list has an outcome; so an id that is settled stays settled.
The assumption on `MetadataId` says what `enrich_metadata` does: an id is filed under
itself or under its composite.

**`NetworkProofs`**, for all sets of clients and numbers of connects and starts:
`TypeCorrect`, `OpenIsAlwaysOwned`, `ClosedIsNeverPolled` and `OnlyOwnLossesStop` (the
property `NoStaleEvent`). The last three are about clients without an early connect, as
the properties are; nothing in `Connect` keeps the user from one, and `IInv` says what
holds on either side of it. `Located` is for the others: from the places of the user
and of the polling thread it follows whether the handle is set, its end closed and the
entry in the manager. In the first part of `connect` there is no polling thread, and
between the steps of an error the user can only wait. Of every client hold
`OwnHandle`, `GoneIsOver` (a program that died has no open end), `OpenHasHandle` and
`LostIsLost` (a callback about a loss is about an end that is lost, and stays so). That
one is why a stale event ends no polling: an event of an earlier connection does not
find its handle in the manager, and an event that finds one is of an end that is
lost.

**`FrameLoopProofs`**, for any number of frames in flight, any images and textures:
`TypeCorrect` and `GpuUsesWhatLives`. `IInv` adds `Pending` (a submission that is not
completed is unharmed, and the fence of its frame is unsignaled), `OnePerFrame`,
`Waited` (between the wait and the submission the fence of the current frame is
signaled) and `HasImage`. So what a frame resets is in no submission, and everything
else is replaced only when the queue is empty.

**`ResourceDatabaseProofs`**, for any finite sets of files and ids, any composites and
any numbers of edits, crashes and calls: `TypeCorrect`, `AddedIsDurable` and
`MendedIsAlwaysValid`. `IInv` follows an acknowledged file from one session to the next.
`Filed`: a `.pmeta` is about its own file or truncated. `Claims`: on disk, the `.pmeta` of
an acknowledged file is the only one with its id, so the order in which the directory
is read does not matter. `Copies`: an entry of the table is a copy of a `.pmeta` under
the id it claims, so what `mend` removes to repair one file is never another's
(`Removed`). `AckedKnown` says where the constructor has got to with an acknowledged
file, `BadIsAhead` that what is still bad in the table is still to be visited. The
assumptions are those the code's naming gives: no file has the id of a part, and
`None` is neither an id nor metadata.

`CleanReopen` compares two sessions, and the second reads the directory in an order of its
own. `OrderInv` says what one reading has to leave behind for any other to agree: while
nobody touches the folder, the entries of the table are what the `.pmeta` describe, each
under an id of its file (`InOrder`), and what the destructor found in order is good
metadata for every file, distinct ids and a count that fits (`LeftInOrder`). `OrderIsKept`
and `UntouchedReopensClean` assume `UniqueComposites`: no composite has the id of another
file. An id is the path without its extension, so `rock.gltf` beside `rock.png`
breaks that, and TLC finds `CleanReopen` violated in such a folder: the composite still
counts as known through its part when the `.png` has taken its id in the table, the first
session reports nothing, and the next order of reading reports `MissingMetadata`.

**`SceneEditorProofs`**, for any finite set of entities, any scene that is loaded, any
transforms and any size of the ring that divides 2^w: `TypeCorrect`, `SiblingListsHold`,
`HierarchyImplementsForest` (the refinement of `SceneForest`), `UndoBringsBackThePast`,
`RevertConnectsTheScene`, `RevertIsDrawnHolds`, and `LeafDestroysAreDefined`. Their
hypothesis is `~DestroyParents`: the game destroys only entities without children. That
is the hypothesis `editor_undo` has too. Without it, two things go wrong. The loop of
`destroy_entity` over the children reads one that is gone (`editor_destroy`); and with
`exclude_children` the children keep a parent that is gone, which later calls on them
read. Nothing is promised after either. `LeafDestroysAreDefined` says that under the
hypothesis no sequence of calls reads the component of a destroyed entity.

`IInv` has five parts. `HierarchyInv`: every list of children, as walked from the first
child, is linked both ways, as long as its count and disjoint from the others
(`WellLinked`), and only entities that exist are on one. It says nothing of cycles, since a
drop makes them. `ValuesInv`: types, and only entities that exist are tagged or edited.
`SnapshotsInv`: a snapshot names everybody once and after the parent, the order in which
`descendants()` visits, which makes reparenting one after the other come to an end with
everybody connected. `RingInv`: the slot `k` before the current one, around the ring,
holds the scene before the `k`-th last edit, which is what `UndoneIsPast` needs after any
number of wraps; that `size_t` wraps to the same slot is `BeforeMultiple`. `DrawnInv`:
after a revert all of the scene is tagged, and after a frame what is in the scene is
drawn.

The iterators, `get_depth`, the calls of a drop or a revert, and the update of the
matrices are recursive functions in the model. The prover cannot use the library's
induction theorems on them, so the module derives what it needs from the least element
of a set of numbers (`LeastElement`, `Induction`), and `Iteration` says that a function
defined step by step exists, so that its defining equation may be used. On this rest
`WalkIs` (a walk is the list one gets from one entity to the next), `DescendantsAre` (the
visit with its stack reaches everybody below the scene once, parents first) and
`ComputedIs` (sorted by depth, every tagged transform is computed after its parent). One
lemma per operation then says how it changes the lists (`DestroyKeeps`, `MoveKeeps`).

## What is only model-checked

Liveness (`AllJobsFinish`, `WaitReturns`, `LoadsEnd`, `DisconnectReturns`, `ClientsLeave`,
`FenceWaitsReturn`), which is out of reach of the prover. Every invariant and every
action property of a passing run is proved. What `AllJobsFinish` shows is shown of one
body that waits: waits that nest on one stack, and the deadlock a job would make that
waits for a body beneath it, are in `scheduler_nested`, which checks safety only.

## What is not modelled

Memory orders (the models are sequentially consistent), a failing allocation in
the queues, job statistics, `co_await` between jobs and result storage. Of the
registry: saving and snapshots of single resources, allocation without a source, the
object behind a loaded id and who refers to it, torn reads of the tables in the
unlocked test (it is atomic in the model), and the null reference a loader
dereferences when a resource it needs is not loaded (behaviours go on past it).

Of the database: a rename in the folder is a deletion and a creation; a torn file is
empty, not cut in the middle. Of the editor: entities are told apart by name
(`details_panel.cpp:798`), components other than relationships and transforms are
left out, and so is what the panels draw. Of networking: messages
(`send` and `receive` pass them on and keep nothing), connections of two `Connection`
objects in one program, which share one queue of callbacks, `disconnect` called from
a callback (on its own polling thread the join would throw), a
`CreatePollGroup` that fails (`server.cpp:57`, which returns with the listen socket
open), and what a callback only reports: a client's end stays `Connecting` when it is
connected, and the old state is dropped. Of the renderer: what the commands draw,
semaphores, the growth of descriptor pools, lost devices, and the uniform buffers of a
material, which all frames share (`vulkan_material.cpp:143-172`) and `set_property`
overwrites (223) without waiting for the GPU: they are outside of `GpuUsesLive`.
`DeletionQueue` has no user that pushes anything.

And the components marked `not_modelled` in `PROJECT.json`, with the reason beside
each: much of the source is user interface code, format conversions (serialization,
glTF, shaders), bindings to Vulkan and GLFW, and thin wrappers of the operating
system, whose behaviour is a sequence of calls without state that outlives them.

## Plan

What is left, in order:

1. `ResourceReference` and the reference manager over `ResourceRegistry`, with the
   object behind each id: two loads of one id hand out two objects.
2. `co_await` between jobs, with result storage and the ownership of frames.
3. The locks of `core/concurrency` (mutual exclusion, re-entry) and the allocators.
