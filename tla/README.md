# LeanCLR for Unity: TLA+ models and proofs

LeanCLR is a small CLR (an IL interpreter with its own metadata loader, object
model and collector) that takes the place of IL2CPP in Unity WebGL builds. The
runtime is C++ under `src/LeanCLR~/runtime/` (paths below are relative to it);
`src/Editor` and `src/Runtime` hold the C# that plugs it into Unity's build.

Everything runs on one thread. What makes the code hard is re-entrancy: the
interpreter calls native code that calls the interpreter, a collection runs
finalizers that may allocate, store, drop roots or collect again, the first use
of a class runs managed code in the middle of an instruction, an exception
leaves a handler while another unwinds, and all of them share global stacks,
tables and recycled addresses. Next to that stands a compiler of two stages that
must give every IL instruction the opcode of the right width on the right slots.
The repository has no tests, and its documents are two READMEs on installation;
the statements of intent that the models hold the code to are its assertions and
comments, and for compiled code the CLI standard (ECMA-335).

How to run (from this directory): `tlc -config X.cfg M` for a row of the table
of runs, `tlapm M_proofs.tla` for a module of proofs.

## 1. Inventory

| Component | Source | State | Operations | Hard behaviour | Correct when |
|---|---|---|---|---|---|
| GC handle table | `vm/gchandle.cpp` | map of ids, free list, last id | new, free, set target and type, scan strong, sweep weak | cells and ids are reused; retargeting between collections; id counter wraps | a cell is filed under its own id or is on the free list once; no handle on a freed object |
| Mark-sweep collector | `gc/mark_sweep/mark_sweep_heap.cpp`, `vm/gc.cpp` | heap, mode | allocate, collect, enable, disable | a collection runs managed code before it marks; collections nest | frees garbage only; weak handles and registry follow |
| Finalizers | `gc/gc_finalizer.cpp` | registry by address, queue `s_freachable` | register, suppress, reregister, run pending, promote, wait | the queue is copied to a local while it runs; objects resurrect; addresses return | queued objects live until their turn; the registry is exactly the live objects with finalizers |
| Roots | `gc/gc_roots.cpp` | registered slots and visitors | register, visit | interpreter frames are not among them | everything that is used again is reachable |
| Small-object heap | `gc/mark_sweep/small_heap_arena.cpp` | per arena: use bits, free list, chunk mask; per pool: arenas, current, cursor | allocate, sweep, add and drop arenas | an arena is moved while the list is walked; indices survive a sweep | the three copies of "in use" agree; grows only when full |
| Object scanner | `gc/obj_scanner.cpp`, `gc_roots.cpp` | mark bits, deferred queue, depth | scan, flush, mark, promote | flush inside recursion, cycles, bounded C++ stack | marks exactly the live objects, each scanned once |
| Address bitmap | `utils/segmented_address_bitmap.h` | segments, direct-mapped cache that holds misses | mark, is_marked | a stale miss; entries that share a cache line | answers as a set |
| Liveness walk | `il2cpp/liveness.cpp` | bitmap, batch of results | begin, from root, from statics, end | several calls share one bitmap; batches are cut by the callback | every wanted object it reaches is reported once |
| Interpreter exceptions | `interp/interpreter.cpp`, tables from `interp/ll_transformer.cpp` | global `s_exception_flows` | throw, rethrow, leave, endfinally, unwind | exceptions in handlers, in finally blocks of a leave, through native frames; frames named by reused addresses | finally blocks are not skipped; the stack mirrors the running handlers |
| Interpreter stacks | `interp/machine_state.{h,cpp}` | frame stack, evaluation stack | enter from native, from interpreter, leave, save point | overlaid argument areas; nested activations; overflow halfway through a call | frames and tops represent the calls in progress; live areas disjoint |
| Class initialization | `vm/class.cpp` | flags per part, fields, layout, tables | initialize_all and its parts | recursion over a cyclic graph of classes; errors leave the flag set | no part is used before it is complete; each is computed once |
| Layout, GC bitmaps, static data | `vm/class.cpp`, `metadata/layout.cpp` | offsets, sizes, bitmaps, list of classes with static data | field, layout and bitmap setup | value types in value types; inherited fields placed again | fields do not overlap; bitmaps name exactly the references |
| Virtual tables | `vm/class.cpp`, `vm/method.cpp` | slots, interface offsets | setup_vtable, dispatch | overrides, hidden slots, explicit and default implementations | a call reaches the method the standard names |
| Static constructors | `vm/runtime.cpp:414-494` | status per class, flag per module | run class, hierarchy, module constructor | re-entry through the module constructor; failure | each runs once, before use |
| Transformers | `interp/basic_block_splitter.cpp`, `hl_transformer.cpp`, `ll_transformer.cpp` | basic blocks, typed stack, frame layout | IL to HL to LL | widths; stacks at joins; which block was seen first | the code means what the IL means, in the frame it asked for |
| Instructions | `interp/interpreter.cpp` and its opcode tables | slots of a frame | one per opcode | partial writes of 8-byte slots | each by its specification |
| Monitor | `vm/monitor.cpp` | count per object address | enter, exit, test | a count outlives its object | an object starts unlocked |
| GC accounting | `gc/gc_pressure.cpp`, `mark_sweep_heap.cpp:177,252` | byte counters | on_alloc, on_collect | freed and allocated bytes are rounded differently | a collection is due when it should be |
| Type assignability, casts | `vm/class.cpp:2290-2582` | cache of answers | is_assignable_from | recursion over variant generic arguments | the relation of the standard |
| Strings, reflection, delegates, generics | `vm/`, `metadata/` | hash tables filled once | lookup, insert | recursion of instantiation | structural identity |
| Metadata images, assemblies | `metadata/` | tables read lazily | load, resolve | data | conforms to ECMA-335 |
| Internal calls, intrinsics, marshalling, platform | `icalls/`, `intrinsics/`, `platform/` | none or OS | 22,000 lines of library | data | each by its specification |
| il2cpp API, embedding API, startup, settings | `il2cpp/`, `public_impl/` | settings | facade | handles as ids or as pointers | passes on |
| Profiler, logger, allocators, containers | `profile/`, `log/`, `alloc/`, `utils/` | counters, pools | count, bump | none | as used |
| Unity editor scripts, runtime assembly | `src/Editor`, `src/Runtime` | files | build steps | none at run time | files in place |

How they interact. The transformers turn a method into code at its first call.
`Interpreter::execute` runs it on the machine state and the exception flows;
instructions call the allocator, which takes a block from a pool and registers
finalizable objects, and the class runtime, which initializes classes and runs
static constructors (back into `execute`). The host, through the il2cpp API, or
managed code, through `GC.Collect`, calls `MarkSweepHeap::collect`, which runs
pending finalizers (again into `execute`), marks through roots, handles, static
fields and the object scanner, promotes dead finalizable objects, sweeps weak
handles, large objects and the pools, and unregisters what was freed. The
scanner finds references by the bitmaps that class initialization made, and
remembers what it visited in an address bitmap; the liveness walk uses both.

`PROJECT.json` lists every component with its status and the hazards of the
code at their lines.

## 2. Modules

| Module | Models | Extends / instantiates |
|---|---|---|
| `GCHandleSpec` | what a GC handle promises: a bag of live handles | |
| `GCHandleTable` | `vm/gchandle.cpp` | implements `GCHandleSpec` (`ImplementsSpec`) |
| `MarkSweepGC` | collector, finalizers, roots, weak handles, mutator and host | marking as the closure that `ObjScanner` computes |
| `BlockPool` | what a pool of blocks promises | |
| `SmallHeap` | one size class: pool, arenas, free lists, chunk masks | implements `BlockPool` (`ImplementsPool`) |
| `ObjScanner` | the scan of a heap: recursion, deferred queue, flushes, phases | `MarkingExact` is the abstraction `MarkSweepGC` takes for its atomic step |
| `AddressBitmap` | segments and cache | operations only |
| `HeapWalks` | a collection's marking and a liveness walk, over the bitmap | composes `ObjScanner` and `AddressBitmap` |
| `ExceptionFlow` | exception flows and the unwinding loop | |
| `MachineState` | both interpreter stacks | |
| `FieldLayout` | arithmetic of layouts, sizes and GC bitmaps | |
| `VTable` | construction of virtual tables and dispatch through them | `FieldLayout` |
| `ClassInit` | initialization of classes part by part, static constructors | `VTable` |
| `EvalTypes` | types, widths, partial reads and writes of slots | |
| `Transformer` | basic blocks, frame layout, stack simulation (`hl::Transformer`) | `EvalTypes` |
| `Lowering` | opcode selection, code layout, clauses (`ll::Transformer`) | `Transformer` |
| `IRMachine` | the interpreter's instructions on the slots of a frame | `Lowering` |
| `ILMachine` | what IL means, by ECMA-335 III: a specification, no code | `IRMachine` |
| `Compilation` | a method is compiled and run in step with its IL | `ILMachine` |
| `*_proofs` | theorems of the module named | extends it and TLAPS |
| `MC*` | symmetry, small graphs, programs and methods for TLC | extends the module named |

### GCHandleTable
`info` is the `HandleInfo` of every cell, `map` the id map, `freed` the
free list, `last` the id counter. `NewFromMalloc` and
`NewFromFreeList` are the two ways through `alloc_handle`, `Free` is
`free_handle_impl`, `Retarget` the branch of `get_target_handle` that stores
type and target into an existing handle, and a collection is the strong scan
followed by the weak sweep. Ids keep a modulus (`IdSpace`) so that `id + 1`
wraps as the 32-bit counter does; `MintBound` caps the ids handed out.
`GCHandleSpec` knows no cells and never reuses an id: a live handle has a target
and a type, and a collection clears the weak handles of the dead.

### MarkSweepGC
An address is live or free; `serial` is a ghost that tells an object from the
next one at its address. `calls` is the control stack: managed activations with
the references they hold, and finalizer runners with what is left of their copy
of the queue. One action per thing managed code does to references (`Allocate`,
load, store, root, unroot, weak handles, suppress, reregister, enabling and
disabling), `HostCollect` and `CodeCollect` for the two ways in, `RunFinalizer`
and `SkipPending` for a runner's step, and `FinishCollect` for everything that
`collect` does after the finalizers have run: mark, promote, sweep weak
handles, sweep the heap, unregister. Which dead objects are promoted depends on
the hash order of the registry, hence the choice of `promoted` within what some
order yields.

`ManagedCollect` says when managed code calls `GC.Collect`: never; only when no
activation will use a reference again ("bare"); or at any time.

### SmallHeap
Arenas with `BlockCount` blocks, a use bit and a mark each, a linked free list,
and a mask with one bit for every word of `WordBits` use bits. `AllocateFromCurrent`,
`AllocateFromNext` and `AllocateFromNew` are the three ways through
`allocate_block`, `AllocateFails` the case without memory. The sweep goes from
`BeginSweep` block by block (`SweepBlock`), keeps or frees each arena, an emptied
one being replaced by the last of the list, and resets the cursor at `EndSweep`. All the words of a use
map are numbers of blocks, so bit arithmetic is set algebra here.

### ObjScanner, AddressBitmap, HeapWalks
`ObjScanner` is the scan over a graph of objects that does not change while it
runs. `stack` is the C++ recursion, bounded by `MaxDepth`; beyond it an object
goes to the deferred queue, and reaching `Threshold` flushes the queue inside
the recursion. Slots are taken in any order, which covers every field layout and
array length. A collection is two phases, roots with static fields, then
promotion of dead registered objects, each closed by a flush (`PassEnds`); a
liveness walk is a phase per call of the host.

In `HeapWalks` every visit goes through the bitmap: `mark` looks a segment up in
the cache, then in the map, and creates it, and the cache remembers
misses too. An action of `ObjScanner` takes place together with the bitmap's, and
`is_marked` answers where the scanner's `marked` would. The liveness walk takes
the calls of its `plan` one by one, collects wanted objects in `batch`, which the
callback receives when it is full and at the end of each call, and releases its
state at the end.

### ExceptionFlow
A method is its clause table, in the order `ll_transformer.cpp` emits, over a
few code points, and its leave instructions. `Throw`, `Rethrow`, `Leave`,
`EndFinally`, calls from managed and native code, and the cases of the loop at
`unwind_exception_handler` are actions; a flow records frame, clause searched
next, current handler and the exception or leave target, as the code does. The
frame of a flow is its depth, because the address of a frame is reused by the
next call. A frame saves the address *after* its call, and unwinding looks that
address up (`interpreter.cpp:439`); the model keeps both, and `CallsBeforeTry`
says whether a call may stand directly before a try block.

Five shapes of code are left out of the passing run, because with them its
properties fail; the methods are in `MCExceptionFlow` and the hazards in
`PROJECT.json`: a call directly before a try block (its exception is caught by
that block), a leave that exits a handler with a block around it (`early`,
finding 2), an exception out of an inner catch handler that a filter clause
takes (`filterOut`: `setup_filter_checker` pops no flows), a catch inside the
second finally block of one leave (`twoFinTry`: it pops the flow of the leave),
and a leave out of a catch through a finally inside another try of that catch
(`finInCatch`: the flow of the catch is popped before the finally runs, and the
other try may catch what the finally throws). `Plain` describes the methods
without the last four; the theorems are about all of them, and an assumption
of `MCExceptionFlow` has TLC confirm which of its methods are Plain. A fault
block is skipped, as it should be, by a leave that goes on through it.
Not modelled: `setup_filter_handler` and the end of a filter, which no IR
instruction reaches (a filter clause is entered at its handler without
evaluating its condition; the model does the same); and the one failure that
raises no exception, a virtual call or `ldvirtftn` whose method lookup fails
(`interpreter.cpp`, 2958, 3351, 5817, 6205): it returns from `execute` with the
error, so that no handler of that activation runs and its flows stay on the
stack. Verifiable IL meets it only where a class lacks the interface or a generic
method cannot be inflated.

### MachineState
`slots`, `ftop`, `etop` are the arrays and tops; `acts` the save points of the
activations of `execute`, each with the frame it stands in; `calls` is a ghost:
the chain of calls in progress. `leaked` records slots that `CallOverflows`
took and did not give back, and leave discards with the rest; it is a ghost too.
Leaving follows a build without assertions (`ftop` falls to the frame's index)
and goes on in the slot below, whatever it holds. Where a failed call left that
slot (finding 3) the interpreter stands in a stale frame: what an earlier call
wrote there, which has its own base and size, calls and returns like any other.
The properties cover these steps. `FramesIntact` says where the interpreter can
be (in the innermost call, or in a leaked slot above it), and a stale frame that
is left ends no call; `TopsExact` holds throughout; `LiveDisjoint` exempts calls
that a stale frame made (`stale` in their record) and those after them, whose
areas may lie anywhere. A leaked slot that no call ever entered is all zeros,
and the code would crash on its null method; the model goes on with an empty area.
Not modelled: 32-bit wrap of the two additions, and functions nobody calls.

### FieldLayout, VTable, ClassInit
A class has eight parts. `initialize_<part>` sets its flag first and then calls
itself on the parent, on interfaces and on the value types of fields, which may
lead back to a class whose part is in progress. The native call stack is a
sequence of items still to do, each one call or one piece of straight-line work;
`Body` is what a call expands to. `calls` is the stack of managed activations:
the program, and the static constructors that run above it, each with the native
work it waits for. A native error empties the work of the top activation, which
sees it as an exception. `FieldLayout` and `VTable` are the pure computations
(offsets, sizes, bitmaps; slots, overrides, interface maps), as operators on the
classes' records, so that what they *read* depends on what has been computed by
then.

`MCClassInit` loads one of six programs of seven classes: `Plain` (fields of
every kind), `SelfStatic` (a value type with a static field of itself), `Cycle`
and `Mutual` (value types that hold each other), `Explicit` (explicit layouts,
packing and sizes) and `Constructors` (static constructors that use other classes,
and a module constructor). Each program states how many requests managed code
makes (`uses`), which parts it asks for on their own, and where one native error
may strike.

Programs of these shapes are left out, because properties fail on them (each has
its hazard): a class below one with explicit layout (against the assertion at
`layout.cpp:117`); a `MethodImpl` whose slot a later new-slot method overwrites;
an override below a class that lists an interface again; a default interface
method that wins over an inherited class method. Others are in the run, and the
properties exempt exactly them, by a history variable: a class whose first use
starts a module constructor that uses it (its constructor runs twice, `again`), value
types laid out from a type in progress (`hasty`), and everything after a native
error, which leaves flags set (a retry takes them for completion). A static
constructor that throws counts as finished, as in the code.

### EvalTypes, Transformer, Lowering, IRMachine, ILMachine, Compilation
`Transformer` lays arguments and locals out in slots, cuts IL into basic blocks
and walks them in order, simulating a stack of typed variables whose slots the
emitted instructions (`hl`) name. Its loops are one step per round. `Lowering` is
what `ll::Transformer` makes of `hl`: an opcode per instruction, by the width of
its operands, branch targets and clauses as positions. `IRMachine` executes that
code on a frame whose slots hold leftovers until written, and in which a narrow
write leaves the upper bytes. `ILMachine` is the standard: it knows no slots,
blocks or opcodes. `Compilation` runs both in step: one IL instruction, then the
code it was compiled to, whereupon `SameMeaning` compares arguments, locals,
stack, memory and outcome.

IL offsets count instructions. Calls are atomic: a callee reads its parameters,
leaves anything in the slots from there on, and leaves its result or throws. A
virtual call checks its object and finds its method, which belongs to a class:
the lookup that fails and the `obj + 1` that a method of a value type receives
(`interpreter.cpp:3350-3357`) are left out. Objects thrown are exceptions
(without the `InvalidCast` of line 3543). One object serves as object, array and
static area.

Bodies on which code and standard differ are left out of the ~440 methods of
`MCCompilation`. They are, in `hl_transformer.cpp` unless another file is named:
operators `and`, `or`, `xor` on int32 and native int (the int32 is not widened,
1015); comparison and conditional branch of int32 with native int, addition of
float32 and float64, and a native store to an int32 element; fall-through into a block with a loaded stack (a
block receives only what a branch handed it, so legal code may be rejected); a
loop back to IL offset 0 (clears the locals again); the exception slot of a
method that pushes nothing else (lies beyond its frame); small return types (not
narrowed at `ret`); `ldelem <token>` of byte or ushort (sign-extends,
1953-1958); a native int index (read as int32); `newobj` of a value type of a
single byte (reserves bytes for slots, 1318); every call of the JIT helpers
class (`ll_transformer.cpp`, about line 556, tests `strcmp` the wrong way round, and
they become `Nop`); the field offset of `StfldI1` (always 16 bits wide,
`ll_transformer.cpp:1803`). The code also accepts int64 with int32 where the
standard does not. None of these contradicts a document of the repository, which
makes no statement about the standard, so they are noted here and not in the list
of findings.

## 3. Runs

| Run | Module / cfg | Bounds | Shows |
|---|---|---|---|
| `gchandle` | MCGCHandleTable | 2 cells, 2 objects, 4 ids of 8 | table exact, no handle on a freed object, implements `GCHandleSpec` |
| `marksweep` | MCMarkSweepGC | 2 addresses, 1 field, 1 life each, no weak handles, depth 4, fair; host collects | no dangling reference, queued objects kept, queue empty at promotion, frees garbage only; garbage goes, queued objects get their turn |
| `marksweep_nested` | MCMarkSweepNested | 2 lives, 1 weak handle, depth 5; finalizers collect too, holding nothing | nested collections keep references, registry and weak handles right |
| `marksweep_managed` | MCMarkSweepManaged | managed code collects at will | **violates** `NoDangling` (finding 1) |
| `smallheap` | MCSmallHeap | 3 arenas of 3 blocks, 2 to a word | copies agree, grows only when full, implements `BlockPool` |
| `scanner` | MCHeapWalks | 3 objects, at most 4 references, depth 1, flush at 2, batches of 2, segments of 2 bits, 1 cache entry | exact marking in bounded stack, each object once; the bitmap answers as a set; liveness results exact; marking ends |
| `exceptions` | MCExceptionFlow | 6 methods, 2 exceptions, 2 frames | flows mirror handlers, no finally skipped, handlers entered from their try |
| `exceptions_early_leave` | MCExceptionEarly | 2 methods | **violates** `LeaveFindsItsFlow` (finding 2) |
| `stacks` | MachineState / MCMachineState | 4 frames, 6 slots, methods that need 0, 2 or 3 | frames intact, tops exact, areas disjoint, in stale frames too but for the areas of their calls |
| `stacks_overflow` | MachineState / MCMachineOverflow | 3 frames, 4 slots | **violates** `FrameIsTop` (finding 3) |
| `classes` | MCClassInit | 6 programs of 7 classes, 2 or 3 requests each, at most 1 native error | parts computed once, constructors once and on finished classes, layouts, bitmaps, static data and dispatch right |
| `compile` | MCCompilation | some 440 bodies, boundary values, int32 of 4 bits and int64 of 8 | compiled code means what its IL means, stays in its frame, well-typed bodies are accepted |

Why the bounds are enough. Two cells make a free list with order, and four ids
let a cell come back twice. Two addresses and one field make every graph with
cycles and self-references; two lives make an address return while a weak
handle, a registry entry or a queue entry still names it; depth 4 holds the
host, a runner, a finalizer in it and a runner in that. Three arenas let one be
emptied, replaced by the last and swept there; three blocks over words of two
leave a partial last word. Depth 1 and flush at 2 put flushes inside recursion
on chains of three; three objects in segments of two share one segment and need a
second, and with one cache entry every change of segment evicts, misses
included; a batch of two is both filled and left partial. Two frames let a flow
outlive its frame and meet the next at the same address; the six methods nest
each kind of clause in the try region and in the handler of another. Four frames
and six evaluation slots make both stacks overflow at several depths, between
them activations of `execute`. The programs of `classes` have a class, a
subclass, two value types that hold each other, an interface and a module
constructor, so that every part recurses in each of the ways the code has. With
one bit to a byte, int32 and int64 keep their ratio, their signs and all their
boundaries, while slots hold leftovers (all zeros, all ones) above a narrow value,
so that a wrong width shows; `compile` was also run with 4-byte pointers and two
bits to a byte. The theorems of section 5 hold for all sizes.

`CHECK_DEADLOCK FALSE` stands where a program may really stop: bounded ids,
lives or calls in the first two groups, a finished marking, a stack whose every
continuation overflows, a program whose requests are done, a method that has
returned.

With `ManagedCollect = "bare"`, the properties `PendingIntact`,
`QueueEmptyAtPromotion` and `FreedOnlyGarbage` of `marksweep` are violated: a
nested collection frees objects of the copied queue, whose finalizers then never
run, and a finalizer that re-registers its object and collects meets the
assertion of `promote_unreachable`. What `marksweep_nested` checks does hold.

## 4. Fairness

Safety runs assume none. `marksweep` assumes that the runtime finishes what it
began (weak fairness of runner steps: it is a loop in C++ without waiting), that
managed code and finalizers return, and that the host collects again and again
(strong fairness: other activations come in between, and nothing else disables
them for good; Unity calls `il2cpp_gc_collect_a_little` every frame). Collections
that the host skips for lack of pressure are left out, so the property speaks of
a program that keeps allocating. Both properties are conditional on collections
staying enabled, which managed code decides. `scanner` assumes only that the
walk goes on: it is one C++ call, or a few that the host makes in turn.

## 5. Proofs

All steps are checked by TLAPS; parameters are any values that satisfy the
assumptions of the module.

| Theorem | Says | Assumes |
|---|---|---|
| `GCHandleTable_proofs!TableExact` | type, `CellsAccounted`, `NoDanglingHandle` | `NoWrap`: ids are not exhausted |
| `GCHandleTable_proofs!HandlesNameLiveObjects` | `NoDanglingHandle` | `NoWrap` |
| `GCHandleTable_proofs!TableImplementsSpec` | `ImplementsSpec`: the table implements `GCHandleSpec` | `NoWrap` |
| `MarkSweepGC_proofs!CollectorSafe` | every safety invariant of the module | only the host collects |
| `MarkSweepGC_proofs!QueueIsEmpty` | the assertion of `promote_unreachable` | only the host collects |
| `MarkSweepGC_proofs!FreesGarbageOnly` | `FreedOnlyGarbage` | only the host collects |
| `MarkSweepGC_proofs!QueuedObjectsKept`, `RegistryFollowsObjects`, `WeakHandlesFaithful` | `PendingIntact`, `RegistryExact`, `WeakFaithful` | only the host collects |
| `MarkSweepGC_proofs!NestedCollectionsSafe` | `NoDangling`, `RegistryExact`, `WeakFaithful`, `FreeMemoryZeroed` | managed code collects only while no frame holds a reference |
| `MarkSweepGC_proofs!NestedFreesUnused` | no step frees what roots or frames reach | the same |
| `SmallHeap_proofs!ArenasExact`, `PoolGrowsOnlyWhenFull` | `FreeListExact` and the other invariants; the pool grows only when full | |
| `SmallHeap_proofs!PoolCorrect` | `SmallHeap` implements `BlockPool` | |
| `HeapWalks_proofs!MarkingIsExact`, `ScanIsBounded`, `EachScannedOnce` | of `ObjScanner`: `MarkingExact`; `StackBounded`; `ScannedOnce` | |
| `HeapWalks_proofs!BitmapIsVisitedSet` | `BitmapFaithful` | |
| `HeapWalks_proofs!LivenessReportsExactly` | `ReportedExact` | |
| `HeapWalks_proofs!WalksMarkExactly`, `WalksScanOnce` | `MarkingExact` and `ScannedOnce`, over the bitmap | |
| `ExceptionFlow_proofs!FlowsMirrorTheHandlers` | `FlowsMirrorHandlers` | `PlainCode`: the methods are Plain |
| `ExceptionFlow_proofs!LeavesFindTheirFlows` | `LeaveFindsItsFlow` and `FlowsNotEmpty`: the assertions on the stack of flows | `PlainCode` |
| `ExceptionFlow_proofs!NoFinallyIsSkipped` | `FinallyNotSkipped` | `PlainCode` |
| `ExceptionFlow_proofs!HandlersComeByTheirTry` | `HandlersGuardTheirTry` | `PlainCode`, and no call directly before a try block |
| `MachineState_proofs!StacksExact`, `AreasDisjoint`, `FramesSurvive` | `TopsExact`; `LiveDisjoint`; `FramesIntact` | |
| `MachineState_proofs!CallerFound` | the caller of a frame is the slot below it, while no frame leaked | |
| `Compilation_proofs!CodeInFrame` | `OperandsInFrame`: emitted code names slots of the frame it asks for | `MethodAssumption`: resolved metadata |
| `Compilation_proofs!VariablesApart` | `SlotsApart`: variables that live together have slots of their own | `MethodAssumption` |
| `Compilation_proofs!FrameSafe` | `FrameHolds`, if stores through pointers and ill-typed returns keep to the frame | `MethodAssumption`, `SlotsAssumption`, and sizes: the frame size fits 16 bits, constructed value types have two bytes or more |
| `Compilation_proofs!OnlyPointersLeave` | no step but such a store or return breaks `FrameHolds` | the same |
| `ClassInit_proofs!OneCallPerPart` | `PartsComputedOnce` | `WorldAssumption`: tables name existing classes, no class is its own ancestor, `<Module>` has no subclass |
| `ClassInit_proofs!ConstructorsOnce` | `CctorOnce` | `WorldAssumption` |
| `ClassInit_proofs!DoneRestsOnDone` | `DoneIsClosed` | `WorldAssumption` |
| `ClassInit_proofs!ConstructorsFindClasses` | `CctorReady` | `WorldAssumption` |
| `ClassInit_proofs!AllocationFindsClass` | `AllocationReady` | `WorldAssumption` |
| `ClassInit_proofs!LayoutsExact` | `LayoutExact` | `WorldAssumption`, and `LayoutAssumption`: legal packings, references of explicit layouts on word boundaries, nothing below a value type, no field above one, explicit layouts below explicit ones |

`OperandsInFrame` and `SlotsApart` are defined beside their proofs. They are about
the code as emitted; `FrameHolds`, which a run checks, is about its execution.
`MethodAssumption` says that the types of a method are known (the metadata are
resolved before the transformer starts), that a constrained call has the
parameter it dereferences, that a conversion is one of the three kinds there are
and that a static field has an offset; nothing is assumed of the order of its
instructions, so ill-typed IL is included. `SlotsAssumption` says that the slots a
pointer can reach are counted by a natural number.

`FrameSafe` takes the rest as hypotheses. A program that stores through a number it
takes for a pointer may write anywhere, and a method that returns a number where a
value type is due copies as many slots as the value type has: `MayLeave` names these
steps (the stores of `StInd`, `InitObj`, `CpObj`, `Stfld`, `Stelem`, and that return),
and the theorem asks that they keep to the frame. All others do, whatever the IL.
The frame size is stored in 16 bits: `[](maxStack < FrameLimit)` says that it fits.
`RoomForValues` excludes a slip of `add_newobj` (`hl_transformer.cpp:1318`), which
reserves the bytes of a value type as if they were slots: enough for its slots and
the pointer the constructor gets, except where the type is a single byte. With such
a type TLC finds the last parameter of a constructor one slot above the frame.

The inductive invariants, and why they are needed:

- *GCHandleTable*: the stated invariants and "every id in the map is at most the
  last one handed out", without which a new id might collide. For the
  refinement each step is mapped by what it does to the bag of live handles:
  taking a cell from the free list or growing the map adds one handle, freeing
  removes the one in the cell, and the weak sweep is the abstract collection
  because each live handle has a cell of its own (`TableExact`).
- *MarkSweepGC*: the stated invariants, "a collection stands second on the
  control stack" and "while one is there the queue is empty and the host holds
  nothing". That the finalizer queue is empty when marking begins is what keeps
  queued objects from being freed, for the queue is no root; this rests on the
  host being the only one that collects. Reachability is closure under every
  closed set, so the step of the sweep needs no induction. Where finalizers
  collect too, collections nest to any depth; what is invariant then is that
  every activation below a collection holds nothing (`BareBelow`), so that the
  roots are all there is to mark. What waits in a queue is not kept then.
- *SmallHeap*: free lists, masks and use bits of listed arenas, plus where the
  sweep stands: arenas before it are swept, the rest have their marks.
- *ObjScanner*: what a marked object holds is marked, or its scan is queued or in
  progress (`MarkedCovered`); an object queued or being scanned is marked and
  stands in one place only (`OnceInv`); the scan stays inside what its sources reach
  (`ScanSound`); what each phase has completed (`PhaseInv`); and the shape of the
  recursion with at most one flush in it (`StackShape`).
- *HeapWalks*: the scanner's invariant; every cache entry tells the truth about
  the map, a miss included (`BitmapInv`), which each creation of a segment must
  restore; a bit is set exactly for a visited object; what a liveness walk has
  marked lies between what its finished calls reach and what all its calls
  reach, and the wanted part of it is reported or in the batch, once.
- *MachineState*: between the frames of consecutive calls only leaked slots
  lie (`SlotsInOrder`); a callee's area begins inside its caller's or at its
  end, unless a stale frame called it, and its frame remembers where the area
  below ends (`AreasInOrder`); so does every leaked slot (`LeakedInOrder`), so
  restoring `old` restores the top, whichever of the two is left; activations
  are the calls from native code, in order, each standing in the call its
  successor was made from or in a leaked slot above it (`ActsMatchCalls`), so
  a save point restores what was there.
- *ExceptionFlow*: flows lie in the order of their frames; each one names a clause
  that guards where its exception was thrown, or one of the finally blocks its
  leave still has to run (`FlowOk`); the flow behind each one runs the innermost
  of the handlers that were running when it was pushed (`Behind`, `Under`), so
  that popping it uncovers the right one; where a frame runs, the last of its
  flows runs its innermost handler (`Mirrors`); while unwinding the top flow is
  new or its handler has ended (`Unwound`). `FlowsMirrorHandlers` alone is not
  inductive: it says nothing of the flows below. Every conjunct of `Plain`
  is needed: TLC finds a step out of the invariant when one is dropped.
- *Compilation*: arguments, locals, the simulated stack and the popped parameters
  are rows of variables laid end to end (`Laid`), each row beginning where the one
  below it ends; the same holds of every stack handed to a block that has not been
  entered yet (`HandedInv`), for the transformer goes on with that stack and not
  with its own. Only a call in progress has popped parameters, and the end of
  their row was a top of the stack, so the frame reaches it. A widened operand stays in
  its slot because a primitive value needs just one. For the execution, each
  emitted instruction has the operands of its kind, and what it writes at the size of
  a value type has that size (`SizesInv`); `Lower` turns such an instruction into one
  that writes below the frame size (`LowFits`, `LowerFits`), and every instruction of
  `LoweredCode` is one of these (`CodeIsLowered`); an execution step then raises
  `high` to the end of its destination at most (`Reaches`).
- *ClassInit*: what may still stand in the work of an activation, and in which
  order (`CallsInv`): constructor work comes after every part in progress, so no
  call of `initialize_<part>` waits while a constructor runs, and each one in
  progress has its mark, which keeps a second one out. At most one activation
  below the top has a constructor still to start (`OnceInv`): only the module
  constructor runs between the test of the status and its change, and it runs
  once. Status and number of runs of each class then agree (`ClassInv`). For what
  is complete when: each item of work in an activation finds what it rests on,
  established before or by an item in front of it (`Ready`), and a finished part
  rests on finished parts (`Closed`); only calls in progress are exceptions, and they end before
  managed code goes on. That a constructor finds its whole hierarchy complete
  needs an induction along the parents, which is why they must be acyclic.
- *ClassInit*, layouts: `LayoutExact` says nothing of a layout on the way, so
  `LayoutInv` adds what is left of each one in the todo: one chain of rounds, in
  order and behind no managed work (`Chained`, `Ranked`, `FrontLoaded`), whose
  class is marked and not laid out (`InProgress`); the fields of the rounds that
  are over have left their mark in `refs`, and their types are laid out or will
  not be before the chain ends (`Begun`, `Seen`). A class laid out from finished
  types is `Sound`: what it rests on, sizes and alignments included, can no
  longer change. That it holds no reference unless its metadata say so
  (`Holders`) is what puts the references of explicit layouts on word boundaries.
  The loops over the fields are recursive functions on `0..n`; that they exist,
  and what they preserve, is proved by an induction of its own (`Recursion`,
  `Induct`).

## 6. Findings

1. `GC.Collect` from managed code collects at once, although interpreter frames
   are no roots and `vm/gc.cpp:121` says this is not supported: an object held
   only by the caller is freed under it. The runs `marksweep` and
   `marksweep_nested` show what does hold. Rooting everything the caller holds
   is not enough either: the collection first runs finalizers, and one of them
   may remove that root before marking.
2. A leave out of a catch handler that also exits an enclosing try (a `return`
   in a catch inside a try/finally) is compiled as the exit of a try; the flow of
   the catch stays on the stack, and the next leave of a catch in a caller fails
   `assert(data.frame == frame)`.
3. A call that finds the evaluation stack full keeps the frame it took; the
   frame that catches the error is no longer on top and fails
   `assert(_frame_stack_top == index + 1)`. Without assertions, the next call it
   makes returns into the slot left behind (`leave_frame` answers `frame - 1`) and
   goes on there with what an earlier call wrote; `MachineState` follows that.
   With the default sizes (131072
   evaluation slots, 2048 frames) the evaluation stack is the first to fill for
   methods of more than 64 slots.

Behaviour that contradicts no document or assertion of the repository but that a
reader of the code should know stands with its module in section 2 and among the
hazards of `PROJECT.json`. Met while reading and not modelled:
`Class::is_assignable_from` stores an answer in its cache only when it is
complete, so a contravariant hierarchy such as `C : IN<IN<C>>` recurses without
bound; the condition at `vm/runtime.cpp:446` that should record that a
hierarchy's constructors are done is inverted and never records it (modelled, and
harmless, see `AllocationReady`); an interface without a parent never reads its own
interface list.

## 7. What is only model-checked, and what is not modelled

Model-checked only:

- Liveness (`GarbageReclaimed`, `PendingRuns`, `MarkingEnds`) and
  `RejectsOnlyIllTyped`, which speaks of `ENABLED`: out of the prover's reach.
- What folds over lists of methods compute for every input: `DispatchExact` of
  `ClassInit`; its `BitmapExact` and `StaticsExact`, which read a recursion through
  nested value types; and `SameMeaning` of `Compilation` (bit patterns, and the whole
  of the opcode selection). The recursive definitions that are proved about
  (`Lineage`, `HierarchyFields`, the loops of the layout) have inductions of their
  own in `ClassInit_proofs`; the folds of the library would each need one.
- `CyclesOnly` of `ClassInit`, which depends on the six programs being well formed
  in ways `WorldAssumption` does not state.
- `FrameHolds` of `Compilation` where a method stores through pointers:
  `FrameSafe` takes it as a hypothesis that these stores keep to the frame, and the
  run shows that those of its well-typed methods do.
- `ExceptionFlow` on methods that are not Plain, where the properties fail; and
  `MarkSweepGC` where code collects while a frame holds a reference (finding 1).

Not modelled, by part:

- *Collector*: the contents of objects beyond their references, byte accounting,
  large objects as a kind of their own (they differ from small ones only in where
  their memory comes from), the debug quarantine of freed blocks.
- *Classes*: generic instances, arrays and pointers (they copy or inflate the
  parts of a base class), thread-static and RVA fields, properties, events and
  nested classes beyond their order, assignability and casts.
- *Compiler and instructions*: floating point, casts, boxing, `newarr`, function
  pointers, tokens, typed references, finally and filter blocks (`ExceptionFlow`
  has what they do at run time), special methods of the core library, and the
  encodings: the short opcodes are almost unused (`optimize_short_instructions`
  is a stub), and the long ones write the operands the models name.
- *Everything else*: metadata images, generics, reflection, delegates, strings,
  internal calls and intrinsics, marshalling, platform, the il2cpp facade and the
  editor. Most of the repository's lines are there: tables of opcodes, cases and
  stubs that are alike, library functions, parsers of data. They have little
  state and no interleaving; `PROJECT.json` gives the reason for each.

Undefined behaviour after finding 1 (use of freed memory) is not followed; of
what a stale frame does after finding 3, its calls and returns are.

## 8. Plan

Done, in the order of their importance: `GCHandleTable`, `MarkSweepGC`,
`SmallHeap`, `ObjScanner`, `ExceptionFlow`, `MachineState`, `ClassInit` with
layouts and dispatch, the address bitmap and the liveness walk composed with the
scanner, and the compiler with the instructions against ECMA-335. What would come
next:

1. Monitor counts added to `MarkSweepGC` (`WeakFaithful` for locks), and byte
   accounting: the counters against the heap.
2. The compiler: floating point, casts, boxing, arrays of structures; finally and
   filter blocks, whose code `ExceptionFlow` would then run.
3. `MachineState` and `ExceptionFlow` composed: flows name frames by slot, with
   the slots of `MachineState`.
4. Assignability with variance and its cache; generic instances in `ClassInit`.
5. Theorems: `BitmapExact` and `StaticsExact`, from `LayoutInv`; `CyclesOnly`, with
   the assumptions on programs it needs; `FrameHolds` without its hypothesis on
   stores, for well-typed methods.
