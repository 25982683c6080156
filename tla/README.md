# A TLA+ verification of DTIO

DTIO moves the file I/O of an application to a task runtime without a change to
the application: an interception library takes the place of `open`, `read`,
`write` and their kin, and turns those on chosen paths into tasks that a runtime
module serves on some node. An older connector does the same for the objects of
HDF5 files. This directory holds TLA+ models of the parts that have state, runs
of TLC on small instances, and proofs that TLAPS checks for every instance.

- [The system](#the-system): its components and what is hard about each
- [The modules](#the-modules): how each corresponds to the code
- [What the runs show](#what-the-runs-show), with bounds and fairness
- [What is proved](#what-is-proved)
- [What the code does differently from its text](#disagreements)
- [What is not modelled](#what-is-not-modelled) and [the plan](#the-plan)

## The system

An application's thread calls an intercepted function. The wrapper asks the
configuration manager whether the path is DTIO's, and the client metadata manager
what it knows of the descriptor; if the file is intercepted it copies the data to
a shared-memory buffer, submits a task through the runtime client, and waits. The
runtime routes the task to a container of the DTIO module, on this node or on
another, whose worker runs the method and completes the task.

| component | source | state | operations | hard to get right |
|---|---|---|---|---|
| POSIX interception library | `adapter/posix/posix_api.cc` | none of its own; the kernel's descriptors, and one table per process | `open`, `creat`, `read`, `write`, `lseek`, `close`, `unlink` | threads between the look-up, the task and the update of one call; reuse of descriptor numbers; two offsets of one file |
| STDIO interception library | `adapter/stdio/stdio_api.cc` | one table per process; in the runtime, a stream for every write | `fopen`, `fwrite`, `fclose`; the others are stubs | server streams that are never closed; reuse of `FILE` pointers |
| client metadata manager | `include/dtio/client_metadata_manager.h` | descriptor → path, offset, flags; stream → the same; a lock for each | register, look up, unregister, update the offset | a pointer into the table leaves the lock |
| configuration manager | `include/dtio/config_manager.h` | the sorted path entries | load, match | the order that an unstable sort leaves, prefixes of characters, paths that are not normalised |
| runtime module | `dtiomod_runtime.cc`, `dtiomod_lib_exec.h`, `dtiomod_tasks.h` | per container: a counter, a metadata map; on the node: files | `Schedule`, `Write`, `Read`, `MetaPut`, `MetaGet`, `Prefetch` and their monitors, (de)serialisation | interleaved tasks of clients; what crosses nodes; descriptors |
| runtime client | `dtiomod_client.h` | per call: its task, number and buffer | the same, from the caller's side | two tasks for one transfer |
| HDF5 VOL connector (old) | `adapter/vol/vol-old/H5VLDTIO.cc` | stored objects, links and the maximal index; per rank its own copy of the index | file, group and dataset create, open, flush, close; dataset I/O | ranks that must agree without talking; two-part broadcasts; crashes between two writes; walking and merging selections, writing back what was read |
| HDF5 VOL connector (current) | `adapter/vol/H5VLDTIO.cc` | none | empty callbacks | – |

Interaction is by function calls inside a process, by tasks between a client and
the containers, by shared memory for the data of a transfer, by the table that
the threads of a process share, and between the ranks of the connector by MPI
broadcasts and the object store. Nothing but the connector's objects and the
files themselves outlives a process.

What makes each component correct:

- *interception library and metadata manager*: a program cannot tell that it is
  intercepted; the table knows of exactly the descriptors that the kernel has
  open on intercepted paths; a transfer goes where the path of its descriptor says.
- *STDIO library*: a byte that `fwrite` has reported is at its place in the file or
  in a buffer that will be flushed; an entry of the table is of the stream that has
  its pointer now.
- *configuration manager*: the longest entry that is a prefix decides.
- *runtime module and client*: the containers together behave as one file system
  and one map; every call returns; a buffer is not freed under a task; the
  numbers that spread the transfers are distinct, and the transfers spread.
- *connector*: ranks agree on every object; each receive meets its broadcast; a
  link leads to an object; an object that was flushed is found again; every
  collective call returns; writing a dataset in chunks is writing an array.

`PROJECT.json` lists the hazards, each at its line with the properties about it.

## The modules

| module | what it is |
|---|---|
| `FileOps` | contents of a file as a sequence: write at, read at, the target of a seek |
| `PosixFile` | abstract specification: what POSIX promises for open files of one process |
| `ClientMetadataManager` | the table of the metadata manager, as operators |
| `PosixAdapter` | the POSIX library on the kernel, the table and the runtime; implements `PosixFile` |
| `PosixAdapterProofs` | its theorems |
| `StdioAdapter` | the STDIO library on the same table operators, with the runtime's streams and its end |
| `StdioAdapterProofs` | its theorems |
| `DtioService` | abstract specification: one disk, one map, calls that take effect at one instant |
| `DtioMod` | the runtime module on N nodes and its clients; implements `DtioService` |
| `DtioModProofs` | its theorems |
| `InterceptPaths` | the configuration manager |
| `VolConnector` | the old VOL connector: objects, links, indices, collective calls, crashes |
| `VolConnectorProofs` | its theorems about types and links |
| `VolCollectiveProofs` | its theorems about what ranks agree on, and about the objects that are stored |
| `VolSelect` | the connector's algorithms on selections: chunks, and lists of transfers |
| `DatasetArray` | abstract specification: an array that ranks write element by element |
| `VolDataset` | the connector's dataset write on chunks and buffers; implements `DatasetArray` |
| `VolSelectProofs` | what is proved of `VolSelect`: the walk over chunks, the lists of transfers |
| `VolDatasetProofs` | the theorems of `VolDataset` |
| `MCPosixAdapter`, `MCStdioAdapter`, `MCDtioMod`, `MCInterceptPaths`, `MCVolConnector`, `MCVolDataset` | instances for TLC |

The abstract specifications are instantiated in the detailed ones with a
refinement mapping (`File!Spec` as `Transparent` in `PosixAdapter`, `Service!Spec`
as `Linearizable` in `DtioMod`, `Array!Spec` as `Implements` in `VolDataset`). Definitions whose comment begins with "A
mistaken" are plausible bugs; the mutants of `PROJECT.json` put them in the place
of the real ones to show that a property can fail.

### PosixAdapter and ClientMetadataManager

State: the kernel's directory (`dir`), inodes (`data`) and descriptors (`kernel`);
the shared map `posix_files_`; `owner`, the thread that holds a descriptor; for
each thread a program counter and the locals of its wrapper (`call`). `Open` is the real open
with the path test; `OpenRegister` the registration and return. A `read` or
`write` is `IoCall` (the registered test), `IoInfo` (the `FileInfo` pointer is
taken), `IoSubmit` and `Serve` (the task is sent, and served by the runtime as
open-seek-transfer on the registered path, or in vain, see below), `IoOffset` (the new offset is read
through the pointer) and `IoStore` (it is stored under the lock), or `IoReal` for
a plain file. `lseek` and `close` are split in the same way at each access to
shared state; `close` removes the entry before it closes the descriptor. A
pointer whose entry is gone gives any entry: that is what reading freed memory
may produce. What the application does is bounded by `Habits`, the careless
things it may do: share a descriptor between calls under way, close one under a
call, seek from the current position, read past the end, remove an open file.
What may come of a task is widened by `Deployment`: on `several_nodes`, which share
the file system, a task may run elsewhere and a read then brings nothing back; once
the runtime is `past_limit`, its process having as many descriptors as it can, the open
fails, and so does the transfer. The code logs it and answers the call as done in both
cases, and so does `Serve`. `DtioMod` has the reasons: nodes, copies of tasks, and
descriptors that are never closed.

### StdioAdapter

State: the files; the C library's streams; the shared map `stdio_files_`; the list
of streams that the runtime has opened, one for every write it served, each with
what its buffer holds back; `said`, the bytes that the program believes written.
`fopen` and `OpenRegister`, `fclose`, `CloseUnregister` and `CloseReal` are split as
in `PosixAdapter`. An intercepted `fwrite` is `WriteSubmit` (path and offset are read
through the pointer), `Serve` (the runtime opens the file with `"rw+"`, which
requires that it exists, seeks, writes, and keeps any part shorter than a buffer),
`WriteOffset` and `WriteStore`. The runtime ends in order (`Exit`, then
`FlushServed` for one stream after the other, in any order) or dies; at its limit of
streams the open fails and it dies in the `fseek` that follows. Modes are `"w"` and
`"a"`: a stream opened to read can only be given to stubs. A program uses a stream
from one thread, and opens an intercepted path once, and only with `"w"`: a second
stream, or one that appends to what is there, would write to a file which what the
runtime still holds of an earlier stream could reach at any later time. What the
library does of such programs is not in the model; a plain path is opened again and
again, by one stream at a time, with either mode.

### DtioMod

State: the disk and the descriptors each container holds open; the buffers; each
container's `schedule_num`, `metamap` and task queues; for each client its place in
a call, the call and its task. A read or write of a client is `BeginIo` (buffer
allocated, schedule task submitted), `SubmitIo` (the number has come, the I/O
task is routed by it) and `Finish` (data copied, buffer freed); `BeginMeta` and
`Answer` are a metadata call, `Return` ends each. `Run` is a container's worker: it
takes the first task of one of its queues and runs the method. A task to another
node passes `SerializeStart` and `SerializeEnd`, and the method works on the copy:
only what these two serialise crosses, which is how the model finds that the data
of a read does not come back. External, as the module uses it: the task runtime,
with one shared file system under all nodes. The queues of the two priorities are
served independently, which includes every order a single queue would give. The
monitors' switch falls through from the replica case to the scheduling one, and
with it every metadata task goes to container 0. No wrapper in `src/` calls the
metadata methods; the model calls them as their client class permits.

### InterceptPaths

One behaviour is: load the default or parse a configuration, let the sort leave
any order it may, match one opened path. A path is a sequence of names, with an
empty name for a trailing slash; a name begins with another by a given relation,
so that `/tmpx` begins with the characters of `/tmp`. `std::filesystem::absolute`
prepends the working directory and resolves nothing.

### VolConnector

State: the object store (`meta`, `links`, and `glob`, the global metadata object);
for each rank the file's `max_oid` and dirty flag and the object of its call; the
broadcasts in the order they were `sent`, with how many of them each rank has
`taken`; `log`, the collective calls that the program makes in
one order on every rank. `Create` is the part of a create callback that all ranks
execute; `WriteMetadata` and `link_write` are the two writes of the rank that acts;
`Open` and `ReadMetadata` the traversal and the reads; `Broadcast`, `BroadcastRest`,
`Receive` and `ReceiveRest` the two parts of the transfer, in which sender
(`SendsRest`) and receiver (`ExpectsRest`) decide by formulas of their own. `Flush`
writes the index if it is dirty, alone or in a close. `Crash` ends the whole job at
any point; what is stored remains. Metadata is identified with the path it was
written for and a length in words. A callback that fails logs and goes on in the
code, and so it does in the model: an object without metadata is opened with a
length of 0. (`Stored` gives that length for an object without metadata;
`dataset_open` would decode a buffer that nothing was read into. It is never reached in
the runs: `NoDanglingLink` is why.) The file is not part of the CMake build and does not
compile as it stands: statements are cut up or end without a semicolon (lines 781-787),
names are not declared (`_dset` at 1584). It is modelled as the one implementation of the connector that
the repository has, each line as what it is evidently meant to say.

A broadcast is taken not to block its sender, which allows more interleavings
than an MPI that synchronises. The application creates a path once, opens
what has been created, opens files for writing, and creates a file only where
`H5Fis_accessible` finds none.

### VolSelect and VolDataset

`VolSelect` is pure. A dataspace is an extent and a set of coordinates; what HDF5
computes of it (bounds, shape, the sequences of selected elements) is external.
`get_selected_chunk_info` walks the chunks of the selection's bounding box, with a
carry from one dimension to the next, until every point is accounted for, and makes
of each chunk a file space of the chunk's own extent and a memory space.
`build_io_op_merge`, `build_io_op_match` and `build_io_op_contig` turn two selections
or one into a list of transfers. The loops are recursive functions of the number of
rounds. `SeqListLen` is the number of sequences got at a time, two in the runs.

State of `VolDataset`: for each rank its place in a call, the chunks that are left
and the background buffer; the object of each chunk, a partial function from offsets
to units. `Begin` is everything up to the loop over chunks. A round of the loop is
`WriteEqual`, or, if the types differ, `WriteConverted`, which `ReadBackground`
precedes when `fill_bkg` says so; each is one operation on one object. A type is a
sequence of members and gaps, one unit each, and a unit in a buffer names the rank,
the call, the place in memory and the member it came from, so that any mistake in an
offset is seen. The background buffer `bkg_buf` serves all chunks of a call: it is empty
when the call begins, a conversion leaves its elements in it (`H5Tconvert` makes them
there), and a read of the next chunk fills only what the object has, so that at other
places an earlier chunk's elements remain and are written with the rest. It has room for
as many elements as the first chunk has in its extent, each of the size of the memory
type (`BufferUnits`), although it is filled with elements of the dataset's type. If the
memory type is the smaller (`HasRoom` is false) the code writes beyond its end; the model
has `Junk` there, and does not follow what such a write does to the heap.

Selections of different shapes end the rank in `Begin`: the array of
chunks that was not made is used. A rank may die between two operations.

Programs follow two rules of HDF5: the selections in file and memory have as many
points (and, for chunks, as many dimensions: that HDF5 takes shapes that differ in
dimensions of size one for the same is left out), and calls that overlap in the file do not run together if one of them reads
the background. `DatasetArray` promises that the k-th element selected in memory goes
to the k-th selected in the file and that nothing else changes that has a value; a member
that was never written has none, and a write of the others may leave anything there
(in the code, what the background buffer held of another chunk). That is what
`Implements` has TLC compare, by coordinates, with what comes of the chunks,
sequences and offsets.

## What the runs show

Every passing run covers its whole state space; its properties are the
`INVARIANT`s and `PROPERTY`s of its `.cfg`.

| run | shows | bounds |
|---|---|---|
| `adapter_registration` | `TypeOK`; `RegistrationMatchesKernel`: the table has an entry for exactly the open descriptors on intercepted paths, whatever threads share, close and reopen | two threads, two descriptors, an intercepted and a plain path; several nodes and the limit of descriptors included; data without values, since no property here reads them |
| `adapter_transparent` | `RoutedByPath`; `Transparent`: for careful programs the library implements `PosixFile` | the same on one node below the limit, with data, files of at most two cells, truncation, transfers of one cell |
| `dtio_local` | `TypeOK`; `Linearizable` up to and past the descriptor limit | one node, three clients (so that two can queue behind a third), two buffers, three transfers, a limit of two descriptors |
| `dtio_remote` | `BufferHeld`, `ScheduleDistinct`, `FairShare`, `Linearizable`, `CallsReturn` | two nodes with a client each, every call but read, four transfers, a counter that wraps at three |
| `intercept_match` | `TypeOK`, `LongestMatchDecides`, `TiesAreOfOnePath` | lists of at most two included and two excluded paths out of six, two working directories, six opened paths |
| `vol_collective` | `TypeOK`, `CountersAgree`, `SameObject`, `BroadcastsMatch`, `NoDanglingLink`, `ObjectsIntact`, `CallsReturn` | two ranks; five calls on a collective file, four on another, and a crash; a group, a group and a dataset in it; metadata that fits the first broadcast and metadata that does not |
| `dset_write` | `TypeOK`: no offset beyond a chunk; `ChunksOfCall`: the chunks are disjoint parts of the selection, in the file and in memory; `WholeSelection`: no element is left out; `BackgroundCurrent`: what a rank has read of a chunk for the conversion to leave is what the chunk holds until it is written back, whatever an earlier chunk left in the buffer; `BackgroundFits`: the buffer, sized once, has room for every chunk; `Implements` | alone, with and without conversion: every selection of a 3×3 dataset in 2×2 chunks and of a line of five in chunks of two, those of 1, 2 and 5 elements of 3×3 in one chunk, 3×3 contiguous and 2×2×2 in three-dimensional chunks, each from `H5S_ALL` and from a larger memory with the selection moved, the contiguous one from a row and a column too; an empty selection and one of another shape. Together: two ranks, three calls with selections that share chunks and elements, full and partial types, one death |
| `stdio_write` | `TypeOK`: what the runtime holds back is bounded; `StreamsMatch`; `NoByteLost` | two threads, two `FILE` pointers, an intercepted and a plain path, writes of one and two bytes, buffers of two, two streams in the runtime, files of three bytes |
| `adapter_seek`, `dtio_remote_read`, `vol_group_path`, `dset_members` | a violation each, see [below](#disagreements) | as small as shows it |

Why the bounds suffice. A thread's wrapper touches one descriptor and holds no lock
between its steps, so two threads give every pair of steps, and the second
descriptor gives the reuse of a number beside a live one. The order of tasks in a
queue matters to at most the task at its head and one behind it; a third client
keeps the queue busy while the two others race. The wrap at three of four
transfers reaches a repeated number, which `ScheduleDistinct` and `FairShare`
exempt. In the connector a broadcast is of one sender, so a second receiver would
repeat the first; five calls let a file be made, written, flushed, lost and
opened again with a new object made in it, and let the program be several calls
ahead on one rank. What a chunk write does depends on the selection within the
chunk and on the carry to the next: 3×3 in 2×2 has whole and cut chunks in both
dimensions, the cube a carry over two dimensions, and lists of up to five sequences
need a batch of two to be got again in the middle of a merge. Three written bytes
over buffers of two give a stream that has written a part, one that holds all, and
a third write that meets the limit.

*Habits.* `RegistrationMatchesKernel` is checked for programs with every habit but
the removal of open files, races of `close` with running calls included.
`Transparent` is for programs with none of the habits: with them, the code behaves
otherwise: `seek_cur` has a violation of its own, and the others give what the
hazards at `posix_api.cc:220`, `233`, `236` and `418` describe. It is also for a runtime
of one node with descriptors left (`Deployment = {}`): no care of the program keeps a
read from being scheduled on another node, nor the runtime from its limit, and
`Transparent` is violated when either is put into its cfg. `RegistrationMatchesKernel`
needs no such condition.

*Fairness.* `CallsReturn` of `DtioMod` assumes that a client's thread runs, that the
network between nodes delivers, and that each queue has a worker that keeps
taking tasks: the runtime polls its lanes, and no method of the module blocks.
That of `VolConnector` assumes that a rank which can go on does, and that a
program makes a collective call on all its ranks, which MPI demands of it. Neither
assumes that another call is ever begun.

*Deadlock* is checked except where the system stops: in the two `VolConnector` runs
after a bounded number of calls (that no rank is left in a call there is
`CallsReturn`), in the two of `VolDataset` when the ranks have made their calls, and
in `stdio_write` once the runtime has ended, after which an intercepted write waits
for good.

## What is proved

The theorems hold for all values of the constants that satisfy the `ASSUME`s of
the modules, without the bounds of the runs. TLC has checked each inductive
invariant on the instances of the runs too.

**`PosixAdapterProofs`**, for any threads, descriptors, paths, program habits and
deployments, but for the last:

- `TypeCorrect`: `TypeOK` is an invariant. It is not inductive alone: a wrapper
  indexes the table with its descriptor and reads through its pointer, so
  `ControlOK` adds that a running call has a descriptor and a live pointer an entry.
- `RegistrationCorrect`: `RegistrationMatchesKernel`. The table and the kernel
  disagree while an open or a close is under way, and what makes that harmless is
  that nobody else can have the descriptor then. `TableInv` says it for each
  descriptor: one that is closed has no entry; one with an owner agrees; and a
  thread inside an open or past the erasure in a close holds the descriptor
  alone (`Holds`, `Held`). It needs the order in `close`, erase first.
- `RoutingCorrect`: `RoutedByPath`, under the hypothesis of the property that
  nothing is closed under a running call. `RoutedInv` follows a wrapper from its
  look-up to its task; the hypothesis is used in one place, where another
  thread's close begins.
- `LibraryTransparent`: for a program with none of the `Habits` and a runtime of one node
  that has descriptors left (`Deployment = {}`), `PosixAdapter` implements `PosixFile` (`Transparent`). The mapping names three things that the code
  never holds in one variable: an intercepted descriptor's offset is the table's, plus
  the transfer that the runtime has done and the wrapper has yet to count, or the
  kernel's while an `lseek` is about to store it (`Offset`, `OffsetLemma`); a descriptor
  is gone once it is unregistered; a result exists from the step at which the call took
  effect. `CarefulInv` adds to `RoutedInv` that an open descriptor's name still names its
  file, and no other file's (`FilesInv`), and what each wrapper may rely on (`CallsInv`):
  its descriptor is its thread's own, the offset its task carries is still the entry's,
  the bytes a read counts are there. Each action has one lemma (`...Sim`) that keeps the
  invariant and gives the step of `PosixFile`: steps that look up, compute or store are
  stutters (`SilentStep`), the others take effect on one descriptor (`TakenStep`), and
  `DescriptorSame` says that no step changes what another descriptor maps to.

**`StdioAdapterProofs`**, for any threads, streams, buffers and bounds:

- `TypeCorrect`: `TypeOK`, with its bound on what the runtime holds back.
- `StreamsCorrect`: `StreamsMatch`. Both come from `StreamInv`. A wrapper reads a
  stream and an entry through its FILE pointer, so that even types depend on who has
  the pointer: `TableAt` says that a thread inside an `fopen` or an `fclose` has it to
  itself and how far its work is, `Writes` that one inside an `fwrite` owns it, and
  `FilesExist` that whatever will be flushed has a file. Every step of a thread is
  one use of `StepKeeps`: what the invariant says of other streams and threads stays.
- `BytesKept`: `NoByteLost`, from `ByteInv`, which adds two parts. `CountInv`: a path
  has one stream, and the entry's offset is the number of bytes reported written, a
  write about to be reported added, so that each task has the place of its data to
  itself. `ContentInv`: of an intercepted path every byte due is in the file or held by
  a stream of the runtime, and no other is (`Split`); any other path is its file and
  then the buffer of its stream (`Joined`). That streams of a path hold disjoint ranges
  need not be said: what each holds is due, so two that overlap agree. The order in
  which the runtime flushes them is then immaterial.

**`DtioModProofs`**, for any clients, containers and buffers:

- `TypeCorrect`: `TypeOK`. `CallAt` adds what a client's place in its call says of
  the task it has submitted and of the arguments that the method will index with.
- `BuffersHeld`: `BufferHeld`. With the types it is inductive as it stands.
- `NumbersDistinct`: `ScheduleDistinct`. A number is distinct because one counter
  draws it and is advanced in the same step; that a task is run once is
  `LaneInv` (a queued task is in one queue, once). `NumberInv` counts: the numbers
  drawn and the calls waiting for one are together the calls begun, so that until
  the wrap the counter is the count of those drawn, and each drawn is below it.
- `SharesFair`: `FairShare`. Of the numbers drawn every N-th hashes to a container;
  `ShareInv` says that the files a container has opened and the calls whose number
  hashes to it but whose transfer has not run (`Owed`) are together at most its share,
  with the arithmetic of `\div` and `%` for any number of containers.
- `OneService`: `Linearizable`, the refinement of `DtioService`, for any number of
  nodes if the clients make no reads, and on one node with all four calls (a read of
  another node returns no data: `dtio_remote_read`). Every step is a step of the
  service or none (`ServiceStep`): only a method takes effect. `ServedAt` adds to the
  invariants above that a write's data is with its task by the time it is run, in the
  client's buffer or in the copy that `SerializeStart` made, and that metadata tasks
  are on container 0. That a call's buffer is its own (`BufferHeld`) keeps the answers
  of the others (`OthersAnswers`). Results name the arguments of a write or a put, so
  that what takes effect is what the call was given.

**`VolConnectorProofs`**, for any ranks, names, sizes and bounds, crashes included:

- `LinksLead`: `NoDanglingLink`. `StoreInv` adds that a rank about to write a link
  has an object whose metadata is stored; metadata is never removed.
- `TypeCorrect`: `TypeOK`, which says more than types: that rank 0 never takes an
  index from a storage that has none, and that a link is made in a group that is
  there. `TypeInv` has four parts. `ControlInv` ties a rank's place to its call and
  the call to `log`, and whether it has the file open to how far it is in `log`;
  `IndexInv` says when the index is stored or still to be flushed; `TreeInv` that a
  parent is created before what is in it; `DataInv` has the rest.

**`VolCollectiveProofs`**, on `TypeInv`, for any number of ranks:

- `BroadcastsMeet`: `BroadcastsMatch`. Ranks may be any number of calls apart, so the
  invariant (`Mail`) is about all broadcasts sent. `SentInv`: they are in the order of
  the calls, a call has one of each part, and rank 0 has sent those of the calls it is
  past. `TakenInv`: a rank has taken exactly those of the calls it is past, and the
  first part of the call in which it waits for the second.
- `CountersKept`: `CountersAgree`. `CountInv` names what all copies are counted from: a
  `b` such that every rank's `max_oid` is `b` and the creates among the calls it has
  counted, and so is each index broadcast with an open of the file. It needs that rank
  0, when it opens, reads `b` and the creates before (`Flushed`: an index that is not
  dirty is stored), and that no other rank's flag is ever dirty.
- `ObjectsSame`: `SameObject`. `OutcomeInv` says what a call leaves a rank with, by the
  kind of call: an oid made from its counter, nothing, or the parts of a broadcast.

- `ObjectsKept`: `ObjectsIntact`. `ObjectInv` says of every object made that it is
  `Found` from the root with its parent (`FoundInv`), that its index is at most rank
  0's, below it while a new one is being written, and at most the stored one if a
  flush has kept it (`BoundInv`), and that a path being created is new and its group
  was found (`FreshInv`). So a write of metadata overwrites no object, a link is on the
  way of no other path (`LinkAside`), and rank 0 never goes on from a smaller index.

**`InterceptPathsProofs`**, for any names, configurations and working directories:

- `TypeCorrect`, `LongestDecides` and `TiesSame`: `TypeOK`, `LongestMatchDecides` and
  `TiesAreOfOnePath`. `PathsInv` says that the entries tried are the configured ones,
  longest first, and that an answer is that of the first that hits.
- `length` is a recursive function on paths. That it is defined, is a number and adds
  up when paths are joined (`LengthIs`, `LengthJoined`) is induction on the length of the
  path: no theorem of the library with a predicate as its parameter can be used, so
  `Induction` is stated of a set of numbers, from the well-foundedness of `<`.
- `StartsAgree` is what makes ties harmless: of two entries that one path starts with,
  the shorter is the longer one's beginning, within a name too. It needs what
  `NameAssumption` says of strings: a prefix is not longer than the whole, equal if
  as long, and of two prefixes of one name the shorter is a prefix of the longer.

**`VolSelectProofs`** has no theorem of a specification: it proves, for any number of
dimensions, chunk sizes and selections, what the operators of `VolSelect` compute.

- The walk, `WalkTakesAll`. `NextIs` says of the carry that from a chunk of the bounding
  box with another one still to come the next chunk is in the box and not beyond that
  one, in the order in which the last dimension is the fastest (`Before`). `WalkInv`, by
  induction on the rounds, says that the points left are those of elements in chunks not
  passed, so that the walk does not end early, and that each round has passed a chunk,
  so that it does not run out of the box or of rounds. `ChunkInfoIs` says what is made
  of one chunk: its elements moved by its corner, and by the way between the two
  bounding boxes in memory (`ToMemory`), which is injective.
- Places. Everything about offsets is about how many numbers of a set are below one
  (`Below`). `Linear` is order-preserving and stays below the size of the extent
  (`LinearOrder`, `LinearBound`); elements of `size` units keep the order (`UnitOrder`); so a
  unit's place among the units selected is its element's place in the selection
  (`PlaceIs`, `UnitPaired`).
- Lists of transfers. The sequences HDF5 gives are the runs of the selected units
  (`SequencesAre`, `RunList`). `AtPlace` says of a cursor, whatever the batches, how many
  units it has come past; `MergeStepAt` is the invariant of the merge: the two cursors
  have come equally far and the transfers so far pair exactly the units passed. So
  `MergeMoves`: a unit in memory goes to the one with its place in the file, and
  `ContigMoves` and `MatchMoves` for the other two lists.
- The loops are functions of the number of rounds. That there is such a function
  (`Iterate`, `Recursion`) is proved by induction as in `InterceptPathsProofs`.

**`VolDatasetProofs`**, for any datasets, ranks, numbers of dimensions, chunk sizes,
selections, types and batches:

- `ChunksCorrect` and `WalkComplete`: `ChunksOfCall` and `WholeSelection`, from
  `WalkTakesAll`. `WriteInv` adds what a rank has where: chunks and a background
  buffer only in a call.
- `DatasetTyped`: `TypeOK`, `BackgroundStays`: `BackgroundCurrent`, and `BufferFits`:
  `BackgroundFits`. `ObjectInv` is `WriteInv` and five parts. `PairedInv`: each chunk of a
  call lies with its elements at the places they have in the call's selection, in the file
  and in memory. `ApartInv`:
  the calls that run are as far apart as HDF5's rule has them. `BackgroundInv`: a rank
  about to convert holds all that it would read now, at the places where the object has
  something. `BoundInv`: no object is longer than its chunk. `BufferInv`: no buffer is
  filled beyond that either, which is within what was allocated if the memory type is no
  smaller than the dataset's (`RoomIs`). The step that matters is another rank's write to
  the same object: by `ApartInv` and `PairedInv` it writes units of other elements (`UnitsSelected`), so what
  is read through `build_io_op_contig` of this rank's selection stays.
- `WritesAnArray`: `Implements`, the refinement of `DatasetArray`. `Delivers` says that a
  list of transfers and its source bring to every unit of the chunk what `DatasetArray`
  means it to get; it has a lemma for each way a chunk is written (`MergeDelivers`,
  `MatchDelivers`, `ConvertDelivers`), and `ElementsWritten` takes it from units to elements.
  Then `Begin`, a write, `Return` and `Die` are the steps of the array with these names
  and everything else is a stutter (`StepMaps`). The theorem assumes of the calls of every program that
  they are `Filled`: the memory type is that of the dataset; or it is no smaller, so that
  the buffer is not overrun, and has all members of the dataset, or a member or a gap
  of its own that makes `need_bkg` ask for the background. Every call of `dset_write` is;
  one that is not is what `dset_members` shows to lose data, so the assumption cannot be
  dropped.

Every invariant and action property of the passing runs is stated by a theorem.
Only model-checked: the two liveness properties (`CallsReturn` in `DtioMod` and in
`VolConnector`), and the four violations.

Assumed, besides the `ASSUME`s on constants: that calls which overlap do not run
together if one of them reads the background (`MayBegin`, a guard of the model:
the connector does not check it, HDF5 demands it of the application), and what is
external in `VolSelect` (what HDF5 and the object store make of a selection and of a
list of transfers).

## Disagreements

Each is a run that stops at a state the code reaches and a text of the repository
denies; `PROJECT.json` quotes both.

- `adapter_seek`: `lseek(SEEK_CUR)` on an intercepted descriptor asks the kernel,
  whose offset the transfers have not moved.
- `dtio_remote_read`: a `ReadTask` sends its buffer to the other node and brings
  nothing back.
- `vol_group_path`: a collective open of a group inside a group fails an assertion
  on a buffer that has been freed and not reset.
- `dset_members`: `dataset_write` asks `need_bkg` with the two types exchanged, so a
  write whose memory type lacks a member of the dataset does not read it first and
  overwrites it with what the buffers held. A member or a gap that only the memory
  type has makes it read the background, which `dset_write` shows to be right then.

## What is not modelled

- `MPI_Init`, the `stat` family, `fsync`, the `dlsym` tables: no state of DTIO's.
- `fgets`, `fread` and `fseek` of the STDIO library: stubs that change nothing.
- `Prefetch` and the current VOL connector: empty in the code.
- `Create` and `Destroy` of the pool, the start-up of the runtime, the deployment
  scripts, the Python stub, the benchmarks: no behaviour of their own to check.
- In the old VOL connector: dataset read, which hands the arrays of its arguments to
  calls that take one element and compares pointers where it means sizes, so that
  what it does is not defined; calls on several datasets, which go on with freed
  buffers; compound types inside compound types; soft links (never written by
  the connector), attributes, comparison and copying of its info object, files
  opened for reading only, opening by address.
- Failures that the code only logs (allocation, MPI, storage errors), except where
  a length of 0 is passed on; `IDX_MASK`, since 2^62 objects are out of reach.
- Flags and access modes in the table: written, never read.

## The plan

Done: the interception library with its table (1), the runtime module and its
client (2), the configuration manager (3), objects and collective calls of the
VOL connector (4), the theorems above (5), dataset writes (6), the STDIO library (7).
The three that were left of dataset writes are proved: that offsets stay within a
chunk, that a background is current, and the refinement of the array (8).

What a further step would need is outside the model as it stands: calls on several
datasets and dataset reads can be modelled once the code defines what they do.
