# EasySa in TLA+

EasySa (`src/`) runs video analysis as a graph of modules: a source module
decodes files, frames flow through conveyors from module to module, each module
has threads of its own, and an application starts and stops the pipeline and
adds and removes streams while it runs. This directory models the parts where
those threads meet, checks them with TLC and proves the central properties with
TLAPS.

    tlc -workers 2 -config PipelineDiamond.cfg MCPipeline
    tlapm PipelineProof.tla

The line numbers below are of `src/framework/core/src/` unless a path says
otherwise. `PROJECT.json` maps every definition to the lines it stands for.

## 1. Inventory

| Part | State | Operations | Talks to | Hard because | Correct when |
|---|---|---|---|---|---|
| **Pipeline data path** `easysa_pipeline.cpp`, `conveyor.cpp`, `connector.cpp`, `easysa_module.cpp` | bounded queues, stop flags, a mask of passed modules per frame, threads | `Start`, `Stop`, `TaskLoop`, `TransmitData`, `PushDataBuffer`, `PopDataBuffer` | sources call `TransmitData`, threads meet in conveyors and in frame masks | forks and joins share one frame object; test and push are separate; backpressure; `Stop` races everything | each module passes each frame once, complete and in order; EOS is announced once and last; `Stop` returns |
| **Life cycle of a pipeline** `easysa_pipeline.cpp` | open modules, threads, flags, two more threads | constructor, `Start` with its refusals, `Stop`, destructor | event bus, modules that call in | a start that fails half way; deletion under calls | a pipeline that is up is whole, one that is not leaves nothing behind |
| **Event bus, stream messages** `easysa_eventbus.cpp`, `util/easysa_queue.hpp` | queues, watchers, two threads | `PostEvent`, `PollEvent`, `EventLoop`, `StreamMsgHandleFunc` | modules post, users observe | the loop can end while `running_`; inverted wait predicate (`easysa_queue.hpp:71`) | events that are polled were posted; `Stop` finds a thread to join |
| **Building a pipeline, configuration** `easysa_config.cpp`, `BuildPipeline`, `ModuleFactory` | JSON, the graph, route masks | parse, add, link | `Pipeline` before `Start` | partial failure, wrapped integers, a factory that forgets | the graph is what the file says, its routes are complete |
| **Sources, life of a stream** `easysa_source.cpp`, `modules/source/src/data_handler_*.{cpp,hpp}` | `source_map_`, handler objects, a thread per handler | `AddSource`, `RemoveSource`, `RemoveSources`, `Open`, `Close`, `Loop`, `SendFlowEos` | sends frames, waits for the EOS map, takes indices | several critical sections per call; a wait and a join under a mutex; handlers that overlap or come back | running handlers can be found and joined, removals return, and wait for what they say they wait for |
| **File handler, parser, decoder** `data_handler_file.cpp`, `util/video_parser.cpp`, `util/video_decoder.cpp` | parser and decoder objects, flags, counters of frames | `Loop`, `PrepareResources`, `Process`, `OnParserFrame`, `OnDecodeFrame`, `OnDecodeEos` | FFmpeg, `FrameInfo::Create`, the source module | a decoder that lags, EOS from two places, failures anywhere, retries | one EOS frame and nothing after it; no silent end; `Close` returns |
| **Frames' global maps** `easysa_frame.cpp` | `s_stream_eos_map_`, `s_stream_removed_map_`, `stream_count_map_` | `Create`, `~FrameInfo`, `CheckStreamEosReached`, `SetStreamRemoved` | every thread | keyed by stream id, outliving handlers | a wait has something to wait for; the flow depth holds |
| **IdxManager** `easysa_pipeline.cpp:44-92` | index per stream, bitset, module id mask | `Get/ReturnStreamIndex`, `Get/ReturnModuleIdx` | handlers, modules | driven by constructors and destructors; `id_` is not initialised | no index twice, none lost; ids tell modules apart |
| **Frame data** `easysa_frame_va.cpp` | attributes, features, the picture | `Add...`, `Get...`, `ImageBGR` | modules that share a frame | locks, one picture for all | what was read stays |
| **Profiler** `profiler/process_profiler.cpp` | records and counters per process | `RecordStart`, `RecordEnd`, `OnStreamEos` | data path | lost, late and reordered records, streams that come back | every frame is counted once |
| **Tracer** `profiler/circular_buffer.hpp` | a ring with a lap per slot | `push_back`, `GetTrace` | all threads | no common lock; overwriting while reading | whole events in their places |
| **Thread pool, memory pool, Fer and Etvh** `components/ModelLoader`, `plugins/fer`, `plugins/etvh` | workers, counters, task queue, three queues of memories | `AddTaskToQueue`, `Workor`, `Manager`, `PreProcess`, `Infer`, `GetResultAsynchr`, destructors | the samples | counters outside the lock; bounded queues in a circle | every picture is somewhere, once; a batch that fits finishes |
| **Model loader** `model_loader.cpp` | the cache file | `Init` | the pools | a file written in place | a network fails to load for a cause |
| **Module parameters** `ModuleParam.hpp` | descriptions and values | `Register`, `ParseParamsAndInspect` | – | blanks, widths | accepted values are those given |
| **Scaler and Tiler** `components/ScalerAndTiler` | two canvases, grids, buffers | `Blit`, `GetCanvas`, `Process` | threads that draw | a canvas that is shown while others draw; conversions in the memory of the source | what is shown is not drawn in, what is drawn is shown |
| **Face detection and position** `plugins/retinaface`, `plugins/fp` | anchors, a data set | `detect`, `detectBatchImages`, `nms`, `Predict` | – | index arithmetic | boxes belong to their cells, a batch finds what single images have |
| **Samples** `sample/sentiment_analysis*` | conveyors, threads, labels | stage threads, main loop, destructor | all of the above | results in any order, skipped networks, deletion before joins | a label is of its face; each frame is drawn |

`PROJECT.json` lists them all with their status, and under `hazards` each place
where something hard to test can go wrong, with the property that would notice.

How the parts interact: a handler thread creates a `FrameInfo`, which touches
the global maps, and calls `SourceModule::SendData` and with it `TransmitData`
on its own thread; from then on the frame is handed from thread to thread by
conveyors, shared by all branches of the graph; its destructor, on whatever
thread drops it last, touches the global maps again; `RemoveSource` on an
application thread waits for exactly that. The plugins, the components and the
samples do not use `Pipeline`: the samples have conveyors and threads of their
own, and drive a network through its pools.

## 2. Plan

1. `FrameFlow`, `Pipeline`: what users are promised of frames, and the threads
   that deliver it. Checked and proved.
2. `StreamLifecycle`: handlers, indices, removal, EOS map. Checked and proved.
3. `ThreadSafeQueue`, `EventBus`, `PipelineControl` on `PipelineGraph`: the life
   of a pipeline and its bus. Checked and proved.
4. `SourceContract`, `FileReading`: a handler from the inside, the flow depth.
   Checked and proved, the refinement included.
5. The components around the pipeline, composed in `MCSuite`. Checked and, but
   for liveness, proved: the network behind its pools (`Inference`), the tracer,
   the profiler, the loading of a network, the samples, the pictures modules share,
   the ids of modules, configuration files and parameters, face detection and pose.
6. Next: the data path and the life of streams in one model (a stream that is
   added again at once may get another conveyor and overtake its older frames,
   `easysa_source.cpp:87`); nested pipelines (`payload`).

## 3. The modules

| Module | What it is |
|---|---|
| `FrameFlow` | abstract specification: which module passes which frame when, and when the end of a stream is announced |
| `Pipeline`, `PipelineProperties` | the data path, `Start` and `Stop`; types, safety, refinement (`INSTANCE FrameFlow`) and liveness |
| `PipelineInvariant`, `PipelineProof` | the inductive invariant and theorems |
| `StreamLifecycle`, `LifecycleProperties`, `LifecycleProof` | handlers, `IdxManager`, removal, removed map, EOS map |
| `RemovalInvariant` | what removals rely on to find, and wait for, what they remove; the theorems are in `LifecycleProof` |
| `ThreadSafeQueue`, `EventBus` | the queue with the predicate it has; the bus |
| `PipelineGraph` | `AddModule`, `SetModuleAttribute`, `LinkModules`, `BuildPipeline`, route masks as operators on graphs |
| `PipelineControl`, `ControlProperties` | construction, `Start`, `Stop`, destruction, with the bus, the message thread and modules that call in |
| `ControlInvariant` | what holds at each place of the application thread; the theorems are in `ServicesProof` |
| `SourceContract` | abstract specification: what a handler promises |
| `FileReading`, `ReadingProperties` | the file handler with parser, decoder and flow depth |
| `ReadingInvariant`, `ReadingProof` | its inductive invariant and theorems |
| `Inference`, `InferenceProperties` | thread pool, memory pool, inference threads and the caller of a network |
| `InferenceInvariant`, `InferenceProof` | where every task, memory and picture is, and the theorems |
| `ModelCache` | the engine cached in a file, over processes that are killed |
| `SampleRun` | the two samples |
| `Profiling`, `TraceBuffer` | the profiler; the ring of the tracer |
| `ProfilingInvariant` | where the frames of a stream are, and which records the profiler has of them; the theorem is in `ServicesProof` |
| `TraceInvariant` | which position of the ring is the newest of its slot, and what a trace then reads; the theorem is in `ServicesProof` |
| `ServicesProof` | the theorems about what a pipeline has besides its data path: its life with the bus and the message thread, its profiler, its tracer |
| `SuiteInvariant`, `SuiteProof` | what holds while a network is loaded, of every frame on its way through a sample, of canvases, formats, shared data, ids, files, parameters and faces; the theorems of `MCSuite` |
| `ConfigurationProof`, `DetectionProof` | the theorems about what `Configuration` and `Detection` compute |
| `Detection` | face detection and position |
| `Canvas` | Tiler and Scaler |
| `Configuration` | configuration files and module parameters |
| `ModuleIds` | ids of modules |
| `FrameObjects` | attributes, features and pictures of frames |
| `MCPipeline`, `MCLifecycle`, `MCControl`, `MCReading`, `MCSuite` | the instances TLC checks |

### Pipeline

State and code: `dataq` is `Conveyor::dataq_`, `stop` is `Connector::stop_`,
`mask` is `FrameInfo::modules_mask_` as a set of modules, `changed` the local
`changed_mask` of `TransmitData`, `todo` the rest of its loop over
`down_nodes`. A frame is a pair of a stream and a number; the last number is
the EOS frame. Each atomic step of the code is an action: `MarkPassed` is one
critical section; the test of the stop flag (`PushGate`) and the push
(`PushDataBuffer`) are two, as at line 498; `TransmitCheck` reads nothing that
others write except the removed map. `Start` and `Stop` are one thread that
walks the connectors one at a time, and `EmptyDataQueue` conveyor by conveyor.

What the model leaves out or fixes, and why:

- `Module::Process` returns `bool`, so that the branch `ret < 0` of `TaskLoop`
  is dead; a non-zero result ends the frame in that module.
- Only sources transmit on their own (`HasTransmit` of inner modules and frames
  of nested pipelines, `payload`, are not modelled).
- Fail counters, logs and profiler calls have no effect on the data path. A pop
  that times out is a stutter.
- The pipelines are the ones `Start` accepts (`PipelineAssumption`). Route masks
  are generated by `BuildPipeline`; a pipeline linked by hand has none, which
  with one source is the same.
- Loops over `unordered_map` have an order the code does not fix; `Visit` is a
  constant, so the proofs hold for each order.
- Modules have distinct ids. `Module::id_` is not initialised, so that this may
  fail in a build; when it does is what `ModuleIds` says.
- One application thread calls `Start` and `Stop`. A stream goes on with its
  numbering after a restart; a source that ends early is a smaller `LastFrame`.

### StreamLifecycle

State and code: `source_map`, `mtx`, `stream_idx_map` and `stream_bitset` have
the names of the code; `handler`, `held` and `index` describe handler objects:
whether they exist, whether the application holds a pointer, and
`stream_index_`. `running`, `hpc` and `eos_sent` belong to `FileHandlerImpl`.
`removed` and `stream_eos` are the two global maps, where an entry of the EOS
map is `"absent"`, `"false"` or `"true"`. The pipeline is a bag of frames
(`flight`): data frames are destroyed at any time, an EOS frame after the
earlier frames of its stream and index. That is what the pipeline model shows
(`EosMsgIsLast`: conveyors are FIFO and a stream keeps its conveyor).

`RemoveSource` is five actions: mark and enter, close under the mutex, join
under the mutex, wait, unmark, and erase in the second critical section;
`RemoveSources` has three critical sections, each a loop over the map with the
mutex held. A refused `AddSource` changes nothing and is no action; a failed
`Open` (no index) clears the removed flag and is one. The destructor of a
handler runs with whoever drops the last pointer.

The application is the environment. `Habits` says which liberties it takes with
a stream: objects that *overlap*, handlers that are added again (*reopen*),
removals without force (*unforced*). A stream with none of them is `Careful`.
Properties that hold only for careful streams say so, and the other streams of
the same run take every liberty. Destroying a handler whose thread was not
joined would end the process (`std::terminate`); the model goes on, and
`RunningIsMapped` says that it does not happen.

A handler object is created once (bound: the set `Handlers`); local variables
of a call are reset when it returns.

### PipelineControl and EventBus

State and code: `running`, `opened`, `threads` and `stopped` are `running_`, the
modules whose `Open` returned true, `threads_`, and the flag of each connector;
`ctl` and `todo` say where the loops of `Start`, `Stop` and the destructor are.
`bus_*` are the members of `EventBus` and its thread, `msg_*` those of the
message thread. A queue is its items and a debt: `WaitAndTryPop` pops an empty
queue, whose size then is -1, and the next push only pays that back; what
`front()` yields then is any value.

`Start` takes a module at a time; it refuses when a module does not open, when
the attributes do not suit (`StartAccepts`), and closes again what it opened,
as the code does. The loops over maps choose any next module. The event thread
polls, gets an event, and informs one watcher after the other; its watcher may
end the loop (`EVENT_HANDLE_STOP`), and so may an invalid event. A module that
is in `PostEvent` or `TransmitData` holds `container_lock_` shared
(`calling`); the destructor takes it for each module.

### FileReading

State and code: `parser` and `decoder` are records of the members of
`FFParserImpl` and `FFmpegCpuDecoder`; `emit` is what the decoder has handed
out and `OnDecodeFrame` has not treated yet; `frame_count`, `eos_sent` and
`failed` are members of the handler; `count` is the entry of
`stream_count_map_`, `live` the frames whose destructor has not run. A file is
a sequence of packets with what the code asks of them: whether the stream is
the video, whether it is a key frame, empty, has a time stamp, and whether the
codec takes it. `undercount` and `session` are history.

Open, each packet, each frame and each end is an action: `PrepareResources`,
`ReadPacket`, `ReadEnd`, `Check`, `Rewind`, `SendFrame`, `Reject`, `Clear`,
`Report`, `Exit`. A decoder keeps pictures back and hands them out later, in
order; flushing hands out the rest and then the end; destroying a decoder
flushes it as well. FFmpeg is external: time stamps follow libavformat's
behaviour of leaving `AV_NOPTS_VALUE` where there are none, and packets of
extra data decode to no picture. `InterruptCallBack` is never installed, so
that reads do not time out. `data_handler_util.cpp` names members of
`DataFrame` that are commented out in `easysa_frame_va.hpp`, and
`framework/modules` is not in the list of modules the top `CMakeLists.txt`
builds: the model follows what the text of these files says.

### The components around the pipeline

Each is a module of its own, and they do not meet in the program except where a
module says so (the samples use the networks; the caches, the pools).

- `Inference`: `task_queue_size` is counted in a step after the push and before
  the pop, as in the code, modulo `Width`. A worker pops, is counted, takes a
  memory, fills it; an inference thread executes it; the caller collects, and
  puts the memory back. `Manager` adds workers in the free slots its loop reaches,
  which is bounded by `max_queue_num_` and not by the number of slots
  (`FreeSlots`), and asks others to leave. The threads of `Init` are not in
  `live_thread_num`. `crash` is set where the code would assert, join twice, or
  index past `workors_`.
- `ModelCache`: reading, building, writing and closing the cache are steps, and
  `Kill` ends the process at any of them; the file stays.
- `SampleRun`: a stage is a thread between two conveyors of bounded size. A frame
  carries its faces and the networks it skips. `Delete` deletes the models and
  only then the threads are joined, so that a thread may use a deleted model.
- `Profiling`: `Fresh` lists the fields of a `ProcessProfiler`; actions are the
  places of the data path that record. `recorded` is whether the source records
  its packets: the file handler has those calls commented out. `parsed` is the
  number of packets read, `thread` what the source thread is sending. `traced` replays
  the events, as `GetProfileBefore` and `GetProfileAfter` do.
- `TraceBuffer`: taking a position, acquiring a slot (`kBusy`) and releasing it
  are three steps of a writer; the reader reads `end()` and `begin()` apart.
- `Detection`: coordinates in half pixels, in which the arithmetic of the code
  is exact. The input is a batch of images with an output of the network for each;
  it is given to `detect`, image by image, and to `detectBatchImages`. What lies
  behind `scales` is `PastTheEnd`, a value that is no scale.
- `Canvas`: scaling into the grid buffer and drawing into the canvas are two
  steps, with the lock let go between them; a picture whose scaling fails is not
  drawn. A buffer of the Scaler is the format it declares and the one its bytes
  have. `GetCanvasOf` is `GetCanvas` with an output buffer: the canvas drawn in is
  the source of the Scaler, and where that converts in the memory of its source the
  canvas is `spoilt`. Whether it does is computed by `Process`, the same operator
  that models the Scaler.
- `Configuration`: a JSON value is its kind and what it holds. The factory may
  know no class: `ModuleFactory::Instance()` makes a new one at every call.
- `ModuleIds`: `unset` are the modules whose `id_` is what memory held.
- `FrameObjects`: `holder` is a thread that locked `attribute_mutex_` twice.

## 4. The runs

Deadlock is not checked: with the bounds below every system comes to a stop
of its own (all starts used, all handlers removed, all frames drawn).

| Run | What it is | Checked | Result |
|---|---|---|---|
| `pipeline_diamond` | fork A→B,C→D, conveyors of one frame, two frames, started twice; fairness | `TypeOK`, `OnlyCompleteFramesArrive`, `DataInv`, refinement `ImplementsFlow`, `StopTerminates`, `EosGetsThrough` | pass |
| `pipeline_join` | two sources A and R, a join with two threads, two streams | `EosMsgIsLast`, `ImplementsFlow` | pass |
| `pipeline_drain` | the diamond | `ConveyorsEmptyAfterStop` | **violated** |
| `lifecycle` | two streams of two handlers, one used with care and one with every habit, handlers that overlap, one index for all of them | `TypeOK`, `ForcedRemoveWaits`, `RefusedOnlyWhileRemoved`, `ObjectInv`, `UniqueIndex` | pass |
| `lifecycle_live` | one stream, two handlers, every habit, fairness | `RunningIsMapped`, `RemovalReturns` | pass |
| `lifecycle_waits` | one stream, removals with and without force | `AlwaysWaits` | **violated** |
| `lifecycle_race` | two threads that add and remove | `ClosedFirst` | **violated** |
| `control` | a chain that starts, one with too few conveyors, one with a thread at its root; two starts, watchers, a module that calls in; fairness | `ControlTypeOK`, `QuietWhenStopped`, `RunningIsWhole`, `NoCallIntoDestroyed`, `StopReturns`, `DestroyReturns` | pass |
| `control_events` | the chain that starts | `InformedOfPosted` | **violated** |
| `reading` | three short files, flow depth 1, two openings, one rewind; fairness | `ReadingTypeOK`, `LiveWithinUndercount`, `UniqueTimestamps`, refinement `KeepsContract`, `CloseReturns` | pass |
| `pools` | a network behind a queue longer than its pool has slots; fairness | `InferenceTypeOK`, `MemoryConserved`, `PictureConserved`, `CrashCauses`, `DestroyReturns` | pass |
| `suite` | the components around the pipeline | see below | pass |

Why these bounds. A conveyor of one frame is full with one frame, so that two
frames meet every case of the push loop; the diamond is the smallest graph with
a fork and a join, and the join graph the smallest in which a stream needs a
route mask and a join gets a frame over paths of different length. Two starts
make left-over frames meet a new run. Two handlers of a stream are enough for a
stale entry and for two objects to overlap; a second stream is needed for an
index to be given away. `lifecycle` has one index for two streams: a
handler of the second one opens with none free, and a handler of the first that
dies while the other one of its stream lives returns the index that one counts
on. `lifecycle_live` has two data frames, so that a handler
leaves its loop with and without frames left.

`control` has two starts, because what a failed or stopped start leaves behind
only matters to the next, and two watchers, because the first may end the loop
before the second is informed. `reading` has files with packets before a key
frame, of another stream, empty, broken and without time stamps; a flow depth
of 1 rejects the second frame; the interval 2 drops every other one; the second
opening meets what the first left in the flags.

`pools` has the case the other bounds of a network exclude. `Manager` only adds
workers in the first `max_queue_num_` slots, while tasks are more than
`live_thread_num_`: with a queue of four and three slots it fills them all, asks
workers to leave, whose slots are joined in the end all the same, and, since
`live_thread_num_` lacks the thread of `Init`, looks for a slot behind the last.
Each of the three crashes of `CrashCauses` occurs. With the queue of one in `suite`
`Manager` adds nobody, and one worker has to do: there batches meet the circle of
bounded queues.

**The run `suite`.** The components around the pipeline are small
and do not share state, so that one module checks them all: `MCSuite` extends or
instantiates each with variables of its own, `part` is chosen at the start and says
which component moves; the others rest in one initial state. Its states are the
sum, not the product, of the components' states, and each property is that of one
component, or a conjunction over parts where a formula speaks of `part`. `Parts`
says which components a run has: this one has all of them.

| Part | Bounds | Property |
|---|---|---|
| network | one memory, one inference thread, one worker behind a queue of one, a batch of up to four: it fits only while each picture has a place somewhere | `NetworkAnswers` |
| loader | three starts: a cut cache is read by the next | `EndsForCause` |
| samples | three and two frames, none or two faces, conveyors of one: skipped networks, frames without faces, results in disorder | `LabelsOfFaces`, `CapturedIsDrawn`, `EndsForCause` |
| profiler | two lives of a stream, a decoder that reorders by one and a limit of one: records are lost and found late | `ProfileAccounts` |
| tracer | two writers, a ring of two positions, five events: a writer is overtaken by a lap | `TraceReads` |
| detection | three networks; cells that are neighbours, of two anchors, at the border, and of two feature maps; sizes that are kept and that are scaled in either direction; batches of one to three images, so that there are fewer images than maps and as many, of one scale and of several | `DetectionsStand` |
| tiler, scaler | three threads, two grids, three pictures, a limit of three buffers; a BGR canvas, an NV12 one and one no scaling succeeds on; all formats, two uses of one source | `PicturesStand` |
| file, parameters | a source, two modules and a join with what may be wrong in each item; texts with blanks, signs and more digits than `Wrap` | `ConfigurationStands` |
| ids | three modules, two ids, two pipelines one after the other or at once | `ConfigurationStands` |
| objects | three threads, one name, two values | `PicturesStand` |

Where the code is wrong and the property would fail, the property names the exact
case: `TilerShows` excepts a grid that `GetCanvas` of an output buffer spoilt, and
says that this takes a YUV canvas of an even height; `BatchOf` says that the faces
of a batch are placed as those of the image by itself, and scaled as it *if and only
if* each feature map with a face has the number of an image of the same scale. Both
sides of either occur in the runs.

What the violations show:

- `pipeline_drain`: lines 390-393 of `Pipeline::Stop` claim that pushes are
  rejected after `connector->Stop()` and that `EmptyDataQueue` leaves the
  conveyor empty. A thread between the test and the push of line 498 pushes
  after the queue was emptied. The frame is processed by the next run.
- `lifecycle_waits`: the EOS map is keyed by stream. A handler removed without
  force leaves its EOS frame in the pipeline; when that frame is destroyed after
  the next handler has sent its own EOS, the entry becomes true and the forced
  removal of that handler returns while its frames are still in the pipeline.
- `lifecycle_race`: "Close handler first" (`easysa_source.cpp:127`), but
  `RemoveSource` looks the stream up twice, at lines 127-136 and 140-148. In the
  trace one thread closes and joins the first handler of the stream; the other one
  removes all sources, so that the first handler leaves the map, and adds the
  stream again; the first thread goes on to its second lookup and erases the new
  handler: opened, not closed, in no map.
- `control_events`: `WaitAndTryPop` waits while there is something to pop. The
  event thread pops from the empty queue as soon as the bus is started, and the
  watchers are informed of an event nobody posted.

A second way to lose a handler is `RemoveSources` (lines 152-174), which closes,
waits and clears in three critical sections: one that is added after the second
is dropped by `clear()`. It is a finding at line 171, and the reason why
`RunningIsMapped` is checked and proved for one caller only.

Other places where the code does not do what a comment says, or has an error
the models had to take over, are in `findings` without a run: each is modelled as
the code is, and the definition is named there.

Fairness. Threads are scheduled (`WF` of each `ThreadStep` and of a begun
`Start` or `Stop`); sources need not send and the application need not call
anything. The retry loops of the code are sleeps, so weak fairness is all that
is needed. For handlers, weak fairness of leaving the loop applies only once
`running_` is cleared: a looping file never ends by itself. That the pipeline
destroys frames is an assumption of `StreamLifecycle` and a conclusion of the
data path (`EosGetsThrough`).

In `control`, threads of the bus and of messages, `Stop`, the destructor and
modules that leave the pipeline are scheduled; nobody needs to call `Start`. How
long the destructor waits for `container_lock_`, which modules may take shared
again and again, `std::shared_mutex` leaves open: `DestroyReturns` begins after
that. In `reading`, the thread of the handler is scheduled; the pipeline need
not destroy any frame, so that `CloseReturns` shows that even a rejected handler
gets out of its retry loop, thanks to the undercount. In `suite` and `pools`, the workers,
inference threads and stages are scheduled, and the timer of `Manager` only once
the pool stops; the process ends with `crash`.

Every property of a passing run is paired in `PROJECT.json` with a variant of a
definition (an operator marked *Variant* in the module) under which TLC finds
it violated.

## 5. The proofs

All theorems are for every value of the constants the assumptions allow:
any graph, parallelism, capacity, number of streams, frames, handlers and
application threads.

**Pipeline.** `TypeCorrect` (types; needs that workers are off outside
`Start`…`Stop`). `Inductive`: `Spec => []IInv`. `CompleteFrames`, `EosLast` and
`FlowRefinement` follow. The invariant is local: it never speaks of paths, only
of a frame, a module and threads.

- `WaitingInv`: what waits at a module has been passed by its parents, and
  neither it nor a later frame of the stream by the module.
- `PassingInv`, `MaskInv`: a snapshot is a lower bound of the mask; masks are
  closed under parents.
- `PendingInv`: a push still to be made is the first arrival there. This is the
  join: two branches may hold the same frame at once, and it needs
- `ChainInv`: of two threads that transmit the same frame, the one that marked
  first has a snapshot without the other.
- `SortedInv`, `HandlerInv`, `PlacedInv`: a stream keeps its thread in every
  module, and waits there in order.

Only `Send`, `MarkPassed` and a successful `PushDataBuffer` give a thread
anything new; for the other actions one lemma says that with less to wait for
and less pending the invariant still holds. `FlowRefinement` maps `MarkPassed`
to `Enter` or `Pass`, the EOS announcement to `AnnounceEos`, everything else to
a stutter.

**StreamLifecycle.** `LifecycleTypes` (including who holds the mutex).
`ObjectsConsistent` and `IndexUnique` come from `ObjectInv`, the
conjunction of `IndexInv` and `HandlerInv`. `IndexInv` alone would be preserved
by no destructor: that the entry a dying handler returns is not one that a
living handler counts on is what `HandlerInv` says. The lemma `DestroyKeeps` is
the core: destroying handlers that are alive, and that no pointer is left to,
keeps both. `EosAlwaysPending` needs the types only: an entry is set to false
together with the creation of an EOS frame, and the destructor of any EOS frame
of the stream sets it to true.

**FileReading.** The inductive invariant is built in three layers, each proved
on top of the last. `FullTypes` says what the reader of `ReadingTypeOK` would
guess: it needs the exact types of the records for the sequences inside them.
`CodecInv` ties the decoder to the place of the thread: made from the
preparation to `ClearResources`, empty of handed-out frames whenever the thread
reads. On it rest

- `EosOnce`: EOS is the last thing handed out, the flag `eos_sent_` is true
  exactly if an EOS frame was sent, and there is one at most;
- `EosInv`: a decoder that was flushed has EOS on its way or sent, and a thread
  about to exit has one or the other or an error;
- `LastInv`: as long as no earlier opening announced the end, the one of this
  opening is followed by nothing. `eos_reached_` is never reset, so that a
  second opening needs the exception: it sends frames, and no EOS;
- `NumberInv`: the numbers in the frames sent, handed out, in the decoder and
  the next one of the parser form an increasing chain.

`FlowLimit` needs `FullTypes` and the counting alone. `ContractKept` maps
`Open` to `BeOpened`, `SendFrame` and `SendFlowEos` to `Send`, `Report` to
`ReportError`, `Exit` to `End`, the join of `Close` to `BeClosed` and all else to
a stutter. The assumption is `ReadingAssumption`: any files, intervals, flow
depth and number of openings.

`DataKept` states the data invariant of the pipeline that `pipeline_diamond`
checks.

**PipelineControl.** `ControlTypesKept` rests on `ControlTypes`, which adds to
`ControlTypeOK` that a queue is a sequence of what its producers put into it,
with a debt of one at most: the inverted predicate lets a pop through only while
the size is zero, which it no longer is after one unfounded pop.
`ControlInv` says for each place of the application thread what is open, which
threads exist and whether the bus is up: `DownInv`, `UpInv`, `StartInv`,
`StopInv`, `DestroyInv`. The point is `BusDown`, `~bus_running` and no thread
to join: `event_thread_` may end at any time without telling anyone, and the
theorems `StoppedIsQuiet` and `RunningPipelineIsWhole` say that `Start` never
assigns to one that is joinable and that `Stop` always has one to join.
`NobodyInDestroyed` follows from `calling \subseteq contained`: a call into the
pipeline holds the lock that takes the container from a module. The assumption
is `ControlAssumption`: finite graphs with their parallelism, any number of
watchers, starts, posts and messages.

**Removals** (`RemovalInvariant`). `RefusedWhileRemoved` holds for any number of
application threads: a call that set the removed flag of a stream with a handler
clears it before it erases the handler, and `AddSource` clears a flag that was
set for a stream without one. `RunningHandlersFound` and `ForcedRemovalWaits`
have the hypothesis `OneCaller`: one application thread adds and removes, which
the interface does not ask for; `RemoveSources` breaks the first without it
(line 171), and `lifecycle_waits` shows how the second fails for streams used
without care. The invariant follows a call through its critical sections:

- `ThreadsMapped`: a handler whose thread exists is the entry of its stream.
- `JoinedInv`: between its sections a call may rely on what it found: the
  handler it has closed and joined is still the entry, and is quiet.
- `StreamInv`, for careful streams: every frame in flight is of the current
  handler, the EOS frame is the last, and an entry of the EOS map that is not
  `false` means that nothing is in flight. The EOS frame of a stream is
  destroyed after the frames sent before it, which is what makes its destructor
  a witness for the others.
- `WaitedInv`: a forced call that is past its wait has left nothing behind, and
  the entry of the EOS map is gone.

**Inference.** `InferenceInv` has eight parts, proved in layers.

- `CountInv` relates `task_queue_size` to the queue: it lacks the task that is
  pushed and not yet counted and still has those that are popped and not yet
  uncounted. It may go below zero, and then it is `Width - 1`. What
  `QueueFull` compares is an upper bound of the length exactly because of the
  tasks still to be uncounted, and the worker that takes a task the caller has
  not counted yet does no harm (`InferenceTypesKept`).
- `MemoryInv`: each memory is in one of five places once (`Once`) and in the
  others not at all (`Never`), and the place says whether it is filled. With it
  a worker never fills, and the caller never collects, a memory of the wrong
  kind (`MemoriesConserved`).
- `PictureInv`: a picture that was pushed is in one of four places once, and
  one that was not is nowhere. Beginning the next batch needs a pigeonhole: a
  batch is complete by the number of its results, and as many different results
  as pictures are all of them, so that nothing is left in queues or memories
  (`BatchComplete`, then `PicturesConserved`).
- `EndInv`: by the same lemma a destructor that begins after a complete batch
  finds no task and no busy worker; the assertion of `PreProcess` therefore
  fails only in a batch that is abandoned.
- `ThreadsInv` counts the slots: until the pool stops, those with a thread are
  the threads of `Init` and the `live_thread_num` that Manager added. From it
  come the other two parts of `EndsOnlyForCause`. Workers are asked to leave only
  when Manager has added some, which needs more than twice `MinThreads` slots
  within the reach of its loop; and the loop passes the last slot only when
  each slot has a thread.

The lemmas `PopOnce`, `PushOnce`, `ChangeOnce` and their `Never` forms say what
popping, appending and overwriting do to the places of a value, and carry all of
the moves. `InferenceAssumption` asks for a `Width` above the counters
(`unsigned int` in the code) and that the names for "no memory", "idle" and
"over" are no memories.

**TraceBuffer.** `TraceReadsWholeEvents` says that a trace consists of whole
events in their places and in order, whoever writes meanwhile. No lock covers
the ring; a slot is its lap, or `kBusy` while someone copies. `TraceInv` names
for each slot the newest position that was released (`IsNewest`): the lap of the
slot is that of this position, later positions of the slot are still with the
threads that took them, and the slot holds that event or one that a slower
thread was forced to write over it (`Keeps`). Laps are kept modulo
`LapMask + 1`, and are compared within half of that circle. Hence the
hypothesis `NobodyLapped`: between the position it takes and the release of its
slot a thread is not overtaken by more than half of the circle, which is 64 laps
of the buffer for the `kMask` of 127 in `circular_buffer.hpp`. Nothing in the
code enforces it, no scheduler this code is run on comes near it, and it is
needed: with `LapMask` 1, 2 or 3 TLC finds a trace that reads an event out of
place, and none when the hypothesis constrains the states. `TraceAssumption` asks
for a ring of at least one slot; `trace_event_capacity` is taken from the
configuration without a check (`easysa_config.cpp:57-62`).

**Profiling.** `ProfilerAccounts` follows a frame and its records. Frames leave the
decoder in another order than they were read in, and a record that is skipped
by later frames more than `MaxDpb` times is dropped as useless; dropped too early,
its frame would be counted twice. `ProfilingInv` therefore relates three things:

- `OneByOne`: a frame is in one place, and the EOS frame, once sent, is the last
  of those in flight (`Flight`: the leaf, the conveyor, the source thread).
- `NotOvertaken`: a frame in the decoder was overtaken by at most `Reorder` others
  (that is what `MayLeave` keeps), and one in flight by no more of those in front
  of it and those that are through.
- `Holds`: a process has a record of every frame still to leave it, in the order
  of reading, and none was skipped more often than later frames have left. So no
  record of a frame on its way is ever useless, as long as `Reorder <= MaxDpb`
  (`ProfilingAssumption`: a decoder reorders no further than its buffer).

`CountsInv` is what every call keeps by itself; `MatchedInv` says that every end
finds its start, unless the stream was added again before its EOS was through,
when frames of two lives share their keys; `ReplayInv`, that the replay differs
from the profile by the end of the stream alone. What
`RemoveThisAndOtherUselessRecords` returns is proved for records of any length:
the recursive function over positions is followed by its smallest counterexample
(`SmallestNat`, from the well-foundedness of `<` on the naturals), in `KeptExists`
and `KeptFacts`. After a removal frames go unrecorded, so that the order is
claimed for streams that are not removed only.

**The suite** (`SuiteProof`). Each component of `MCSuite` has an invariant of its
own; `SuiteStep` says that a step is one of the component that moves.

- `LoaderInv` follows a process through its steps: a file is partial only while
  it is written or after the writing was cut short, so that going on without an
  engine has one of the two causes. `ModelsInv`: models are there until the user
  has left. They give `EndsOnlyForTheirCauses`.
- `FramesInv` says what a frame has at each place between the camera and the main
  thread (`Made`): its faces after the detector, and of each network behind it a
  result for each face, or the mark that the frame skips it. `LabelsInv` says
  that the members which hold the labels are those of the last face drawn that
  was not skipped; to be inductive it also says that there is a last one
  (`HaveLast`). `LabelsAreOfFaces` follows; that results of the second sample
  come back in any order is in `ResultFacts`.
- `TilerInv`: while nothing was drawn on a canvas that is shown, its two buffers
  differ only if `differs` says so, so that `GetCanvas` may turn to the other
  without a copy. A grid may be spoilt in one of them, if the canvas is one that
  `GetCanvasOf` spoils (`SpoiltFor`), and a picture drawn later covers that
  (`StaysFresh`). `ScalerInv` adds to its property the types that let each path
  of `OpenCVProcess` be followed (`ConvertedIs`), `CropsFit` is about the unsigned
  arithmetic of crops, and `ObjectsInv` says what a module without a picture has
  not yet done. That the grids tile a canvas is a fact about `Divide`, which no
  step changes. `DivideIs` gives each grid its column and row in closed form: the
  recursion of `Divide` has one solution, since there would be a first grid at
  which another differs, and the closed form is one. When a canvas has fewer
  pixels than columns, the columns that are left are empty. `GridsCover` then says
  that places and grids meet once. `PicturesKept` follows from these.
- `IdsInv`: a module that is in no pipeline and whose id was written has none.
  That the id `GetModuleIdx` takes is the least free one needs that there is a
  least one (`SmallestExists`, from the well-foundedness of `<` on the naturals).
  `ModulesToldApart` follows: it is the part of `ConfigurationStands` about ids,
  and excepts modules whose `id_` was never written (`easysa_module.hpp:106`).
- The assumptions (`SuiteAssumption` and those it names): capacities and intervals
  that are naturals, positive where they are divided by, sizes that are naturals,
  finitely many modules; a canvas has a column, a row and a pixel of width, of
  which `Tiler::Init` sees to the first two (`tiler.cpp:76-77`). Those of files and
  of detection are named with their proofs below.

**What is computed** (`ConfigurationProof`, `DetectionProof`). A file that is
read, parameters that are inspected, an image and a data set are each one step of
their component, and what can go wrong is inside it: loops over items, links,
boxes, votes. The invariants `FileInv`, `ParamInv` and `DetectionInv` only say
that the result on record is what these loops compute of what was given; the work
is to show, for inputs of any size, that the loops compute what the properties
ask for. The same argument carries all of them.

- *Folds as steps.* A `FoldLeft` is a recursion over sets of positions.
  `FoldExists` shows that the recursion has a solution, `GoesOn` turns it into a
  function of the number of steps, and `UpTo` carries what holds at the beginning
  and is passed on to the end. A lemma cannot be given the operator that is folded,
  so that `MemberFold`, `ItemFold`, `AddFold`, `VisitFold`, `EndFold` and
  `VoteFold` are one lemma each.
- *Files.* `ReadUpTo` says what the configs of the first items are: one of each
  module, with the name of its item, the names different. `AddedUpTo` says the
  same of the graph, `AsManyModules` that no name is lost. `FileBuilt`: the number
  of conveyors that `Start` compares with the threads follows from the file, through
  the conversions to `int` and back (`WrapsBack`).
- *Routes.* The breadth-first search keeps `Searched`: what was visited is
  reached, the route mask is the rest, and successors of what was visited are
  visited or wait in the queue. Each round takes one from the length of the queue
  plus the links that wait (`Pending`), so that as many rounds as there are modules
  and links are enough; with an empty queue what was visited is closed under links,
  hence all that is reached (`RouteMasks`). `EndModuleIs` goes through the map
  in any order: one leaf is found, the second takes it back. With three or more
  leaves the code may return one of them, and the property leaves that out.
- *Parameters.* `UnblankedIs`: removing in place and not erasing changes a text
  without blanks not at all, and one with blanks from the first of them on.
  `SameNumber`: a number that is followed by blanks is read as the same number,
  since a character that is no digit ends it as the end of the text does. A blank
  before or within it is the finding at `ModuleParam.hpp:50`.
- *Boxes.* `NmsIsGreedy` follows `Nms` through the list: what it kept of the first
  boxes do not overlap, and what it merged overlaps one of them. Sorted lists put
  the better one first. `NmsAlike` says that positions alone decide, so that a
  batch, whose faces differ in their scale only, keeps the same ones. `FacesAlike`
  says which scales these are: the score of a face tells its cell, the cell its
  feature map, and `PastTheEnd` is no scale (`ScalesArePositive`), so that a batch
  with fewer images than maps never agrees by accident (`BatchScales`). A list is
  sorted by ranks, the number of better faces, and `RankIs` shows that ranks put the
  faces in one order when their scores differ (`Apart`, from the initial states:
  which of two equal ones `std::sort` puts first is not fixed).
- *Anchors.* `AnchorsAre` and `AnchorIs`: windows around the middle of the base,
  for every scale and ratio of the configurations there are, shifted to the cell;
  `FlattenSeq` and the division of the index give back number and cell
  (`CellCentred`). `ImageFills` is about the rounding of the sides of an image:
  one that was too large has `NetSize` for its longer side, no side is longer than
  that, and the border is the rest.
- *Pose.* `VoteIsMost`: the elected label has the most votes of those gone
  through so far, in any order of the `unordered_map`.

`ConfigurationRight` combines `ParametersRead`, `FileBuilt` and `FileRoutes` with
`ModulesToldApart`, `DetectionsRight` the others. `ConfigurationAssumption` says
what the parser returns: sequences, unsigned numbers below `Wrap`, and `Wrap` above
the default size of a queue. `DetectionAssumption` says what the network is:
finitely many cells of its feature maps, images with pixels, integral scores. The
proof of `DetectionsRight` corrected the property: a box that clipping turned inside
out by less than a pixel still overlaps others and may be dropped; one that is
left without any pixel never is (`NothingOverlaps`), and `Greedy` says so now.

Model-checked only: the liveness properties (`StopTerminates`, `EosGetsThrough`,
`RemovalReturns`, `StopReturns`, `DestroyReturns`, `CloseReturns`,
`NetworkAnswers`, `CapturedIsDrawn`), which are out of the prover's reach. Every
safety property of a passing run is a theorem.

## 6. What is not modelled

- The bodies of modules; FFmpeg, TensorRT, OpenCV and CUDA; pixels; numbers of
  networks; the text of JSON; log output; and time, except that sleeps and
  timeouts may end at any moment. `FrameController` only sleeps.
- Frames of nested pipelines (`payload`), inner modules that transmit on their
  own, module observers.
- `scaler_libyuv.cpp` (commented out as a whole), `scaler_npp.cpp`,
  `plugins/retinaface/tensorrt` and the `.cu` file: GPU variants of what is
  modelled. `ScalerFillBufferStride`: it copies rows.
- `plugins/track`: names members its headers do not declare, and is not built.
- `easysa_any.hpp`, `easysa_allocator.cpp`, timers, `trace_serialize_helper.cpp`:
  containers, memory, clocks and text. Locks are the atomic sections.
- Unit tests and the programs under `sample/unitest`.
- Uses of the interface nothing in the repository makes: a pipeline destroyed
  while it runs (its threads would end the process), one module in two pipelines
  at once, several threads in `Start` and `Stop`, names of items in a JSON file
  that are not objects (an assertion of rapidjson).
