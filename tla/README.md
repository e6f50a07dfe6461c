# Verification of XPCCI

XPCCI is a small component runtime in C++ in the manner of XPCOM: a component
manager with factories and services, a category manager, module loaders, a
persistent registry, an allocator with object handles, weak references, and a
portability layer of locks, containers and streams. This directory holds TLA+
modules of it, TLC configurations, and proofs that TLAPS checks.

Run, in this directory:

    tlc -workers 2 -config cm_clients.cfg MCComponentManager.tla
    tlapm ComponentManager_proofs.tla

Paths below are relative to the root of the repository.

## 1. The system

### Component manager (cci/components/cciComponentManager.cpp, cciCOMInit.cpp)

State. `mFactories` maps a class id and `mContractIds` a contract id to a
`cciFactoryEntry*`; the entries (factory, service object, or the location of a
module) are raw pointers shared by both tables. `mLock` is a read/write lock,
`mMutex` a recursive mutex, `gCCIShuttingDown` and `gComponentManager` are the
globals of start and stop.

Operations. `CreateInstance`, `GetService`, `GetClassObject` and their
`ByContractID` forms; `RegisterFactory`, `RegisterFactoryLocation`,
`UnregisterFactory(Location)`; `AutoRegister`, `AutoUnregister`;
`ReadPersistentRegistry`, `WritePersistentRegistry`; `FreeServices`,
`Shutdown`; `CCI_Init`, `CCI_Shutdown`.

Interactions. It calls foreign code: factories (whose constructors call it
back), module loaders, destructors of services (which call it back during
shutdown). The category manager is a service that it registers itself.

What is hard. Two different locks guard the same tables: the registrar takes
`mLock` for writing, `CreateInstance` takes it for reading and drops it before
it uses the entry it has found, `GetService` and `GetClassObject` take `mMutex`
only. Constructors re-enter `GetService`. `GetFactory` tests, clears, fills and
reads back a shared member. Registration and unregistration are of several
steps over two tables. Shutdown runs foreign destructors in the middle.

Correct means: no dangling pointer in a table, no entry lost, one service per
entry, a service that stays the same, services gone before entries, entries
before modules, and calls that use live entries.

### Category manager (cci/components/cciCategoryManager.cpp)

State. A table of category nodes under a read/write lock; in each node a table
of entries under a lock of its own. An entry has a value and a persistent
value.

Operations. `AddCategoryEntry`, `DeleteCategoryEntry`, `GetCategoryEntry`,
`DeleteCategory`, `EnumerateCategory`, `EnumerateCategories`,
`WriteCategoryManagerToRegistry`. Enumerators hold a read lock until their last
release.

What is hard. `AddCategoryEntry` gives up the manager's lock before it takes
the node's; the deletions take one while they hold the other; enumerators hold
one across the calls of their client. `GetCategoryEntry` reads a node's table, and
`Enumerate` takes its iterators, without the node's lock. `DeleteCategory` asks for a
lock it holds.

Correct means: what changes a category is atomic, a look-up gives what was there,
what is enumerated does not change, nobody waits for ever, nobody uses a deleted node.

### Locks (utilities/include/dmRWLocks.h, dmMutex.h, plateform/*)

On POSIX `dmRWLock` and `dmMutex` are thin wrappers of pthread objects. On
Windows `dmRWLock` is built from a critical section, a counter of readers and a
semaphore, which is the algorithm modelled. Correct means: a writer excludes
everybody, readers share, everybody who waits is woken.

### Objects (cci/glue/cciSupportsImpl.h, cciCOMPtr.h, cciWeakReference.cpp, cci/components/cciAllocatorImpl.cpp)

State. Each object has a reference count and lies behind a header with a magic
number, in the list of its allocator. Owning pointers (`cci_Ptr`) hold counted
references; a weak reference is a proxy object that points to its referent and
back. An object may be a part of another one (aggregation) and let that count
and answer `QueryInterface`.

Operations. `AddRef`, `Release`, `QueryInterface`; every assignment of a
`cci_Ptr`, `forget`, `swap`, `getter_AddRefs`; `do_GetWeakReference`,
`do_QueryReferent`; `NewObject`, `RevokeObject`, `ReleaseAllocatorState`.

What is hard. A release runs a destructor in the middle of an assignment; the
destructor releases other objects, hands out its own, and may destroy the object
whose member is being assigned. At the end the collector destroys objects that
still own each other. Counts are not atomic, in the macros named thread-safe as
well: an object belongs to one thread.

Correct means: an object lives exactly as long as it is owned, is destroyed once,
and nobody calls it afterwards; a weak reference never leads to freed memory; all
pointers to an object agree on what it is.

### Modules and the runtime (cci/components/cci*ModuleLoader.cpp, cciGenericFactory.cpp, cciCOMInit.cpp, runtime)

State. The loaders' tables of modules, each with its library; in a module, the
factories it keeps, and for each class a variable that points to its factory;
`gDaimRefcount`, which counts the callers of `DM_Initialize`; in each embedder,
whether its glue is initialised.

Operations. `LoadModule`, `UnloadModules`, `AutoRegister`, `AutoUnregister`;
the generic module's `Initialize`, `Shutdown`, `GetClassObject`, `RegisterSelf`,
`UnregisterSelf`; `DM_Initialize`, `DM_Finalize`, `DM_InitXPCCIGlue`,
`DM_ReleaseXPCCIGlue`.

What is hard. Modules are loaded, and register themselves, in the middle of a
call that wants a factory. Any step of an initialisation may fail with the ones
before it done. Factories point into libraries that are unloaded at the end.
Starts and stops of several embedders do not pair up when one fails or forces.

Correct means: whatever points into a library is gone before the library, no
reference is lost, and the runtime runs while somebody was told that it does.

### Persistent registry (cciComponentManager.cpp, cciManifestReader.h, cciCategoryManager.cpp)

A text file of contract ids, classes, locations and category entries, truncated
and rewritten in place, and read at the next start. Hard: the writer may stop
anywhere, and nothing quotes a comma in a name. Correct means: nothing is read
that was not there, and what was there is read if it was all written.

### Hash table (utilities/include/dmHashtable.h, dmHashMap.h)

Buckets of chained nodes, insertion, erasure by key, position and range,
`resize`, iterators that walk on from bucket to bucket. Sequential. Correct
means: it is a multiset, and a traversal meets every element once.

### The rest of the library (utilities, cci/io, cci/glue)

Vectors and intrusive lists, strings that share buffers until one changes, pools
of memory cells, Julian days and times of day, input streams over memory and
files, enumerators that join two others. All sequential; the hard cases are
arguments that lie in the container itself, sharing, boundaries of the calendar,
unsigned offsets, and calls mixed in unusual orders.

### Left aside

Exceptions, tracing, portability (wrappers of the C library), the XPCOM bridge
(headers that rename), the IDL compiler (a code generator), the build system and
the tests.

## 2. Modules

| module | of | kind |
|---|---|---|
| `ComponentManager` | component manager, start and stop | state machine, properties |
| `MCComponentManager` | | who calls what in the instances |
| `ComponentManager_proofs` | | inductive invariants and theorems |
| `CategoryTable` | what the category manager promises | abstract specification |
| `CategoryManager` | category manager with both its locks | state machine that implements `CategoryTable` |
| `MCCategoryManager` | | who calls what in the instances |
| `CategoryManager_proofs` | | inductive invariant, refinement and theorems |
| `ReadWriteLock` | what `dmRWLock` promises | abstract specification |
| `WinReadWriteLock` | `dmRWLock` on Windows | state machine that implements `ReadWriteLock` |
| `WinReadWriteLock_proofs` | | inductive invariant, refinement and theorems |
| `Objects` | reference counts, owning pointers, weak references, collector | state machine, properties |
| `Interfaces` | `QueryInterface`, inheritance, aggregation | state machine, properties |
| `Enumerators` | singleton and union enumerators | state machine, properties |
| `Objects_proofs` | of `Objects`, `Interfaces` and `Enumerators` | inductive invariants and theorems |
| `MCObjects` | | these three, each by itself |
| `Modules` | loaders, generic modules, factories | operators on the state of a process, and the calls of a client |
| `Runtime` | start, stop, embedders | state machine over `Modules` |
| `Runtime_proofs` | of `Runtime` and `Modules` | inductive invariants and theorems |
| `Registry` | the persistent registry across a crash and a restart | state machine, property |
| `Registry_proofs` | | lemmas on lines and folds, inductive invariant and theorem |
| `MCModules` | | `Runtime`, and `Registry` by itself |
| `Multiset` | what a hash table promises | abstract specification |
| `HashTable` | `hashtable` | state machine that implements `Multiset` |
| `HashTable_proofs` | | inductive invariants, refinement and theorems |
| `Cells`, `Vector` | `dmVector` on its memory | operators; state machine, property |
| `Strings` | `dmTString`, on `Cells` | state machine, properties |
| `Lists` | `dmNode`, `dmList`, `dmOList`, `dmTList` | state machine, property |
| `Pool` | `dmMemoryManager` | state machine, property |
| `Library_proofs` | of `Vector`, `Strings`, `Lists`, `Pool`, `Streams` and `Dates` | invariants, lemmas on sequences, theorems |
| `Dates` | `dmDate`, `dmTime` | operators; state machine that goes from day to day, property |
| `Streams` | memory and file input streams | state machine, property |
| `MCLibrary` | | these, each by itself |

Where an MC module checks the properties of several modules, it extends them, so
that the run checks the very formulas the theorems state; `InterfacesInit`,
`PoolNext` and the like are named after their modules for that.

### ComponentManager

*State.* `mFactories` and `mContractIds` are functions to addresses (`Entry`) of
`heap`, which holds the entries; a deleted entry is still an address, with
`live = FALSE`. `lock` is `mLock`: the writer, and where in its critical
section the writer is. `mMutex` has an owner and a depth. `stack[t]` holds the
calls of thread t in progress, the innermost last, because constructors and
destructors call back. `exit` says where `CCI_Shutdown` is, with the part of
`mFactories` its loop has not visited.

*Steps.* A critical section of `mLock` over the tables is split where foreign
code runs or where it changes a second table. `BeginCall` takes the mutex (or
does not) and `LookUp` is `GetFactoryEntry`; readers of `mLock` do nothing else
inside it, so a read lock is the instant of `LookUp` with no writer inside.
`TestService`, `TestFactory`, `Load`, `Loading`, `Loaded`, `TakeFactory`,
`RequestNeeded`, `Construct` and `StoreService` are `cciFactoryEntry::GetService`,
`GetFactory` and `CreateInstance`, split at each access to a shared member: the
factory is tested, cleared and filled, read back, and read once more for the
reference that is handed out, and others may come between any two of these. The registrar
enters with `RegisterFactory`, `RegisterFactoryLocation` or
`UnregisterFactory` and goes on with `HashContractID`, or `EraseContractID` ...
`RemoveFactoryEntry`, `DeleteEntry`. `CCI_Shutdown`, `FreeServices`,
`ReleaseManager`, `ShutdownEntry` and `ShutdownComplete` are the end, and
`CCI_Init` may follow again.

*Abstractions and assumptions.*
 - One operation of a hash table is one step, although `GetService` reads the
   class table under `mMutex` while a registrar writes it under `mLock`. That
   race is listed as a hazard; here the reader sees the table before or after.
 - A call that is about to use a deleted entry (`UsesDeleted`), or finds the factory
   cleared between its test and its use (`UsesNull`), does what is undefined: here it
   returns, or never does (`Undefined`), and changes nothing else. The address of a
   deleted entry is not reused while a call holds it (`Allocatable`).
 - A factory, a loader and a constructor may fail or succeed at any call. A
   constructor may ask for one service (`Needs`), no component needs itself
   (`NeedsAcyclic`), and the nested call may fail without the outer one.
 - `CCI_Shutdown` starts when no call is in progress. The assertion in
   cciCOMInit.cpp:98 demands it: the manager must go with that release. Destructors
   of services and factories, which run in `FreeServices`, `Shutdown` and
   `UnregisterFactory`, may call `GetService`, which the flag refuses during shutdown,
   and `GetClassObject`, which it does not; they do not call what takes `mLock`,
   which their thread may hold.
 - How long a factory object lives is not modelled: a call that replaces the factory
   of an entry may destroy the one another thread is about to add a reference to
   (listed as a hazard).
 - `UnregisterFactoryLocation` is `UnregisterFactory` without the test of the
   factory; both are the action `UnregisterFactory`.
 - `CCI_Init` succeeds. Its error path is listed as a hazard.

*Shape of the constants.* `MayCall` says which operations each thread calls, so
that an instance can ask one question without the state space of the others.

### CategoryTable and CategoryManager

`CategoryTable` has a table of entries and, per thread, nothing, a request or
an answer: `Call`, `TakeEffect` and `Return`. A call takes effect at one instant
between its start and its return, and only `GetCategoryEntry` answers with
data: the value at that instant, or anything (`Torn`) if an addition to the same
category is under way then (`MayBeTorn`).

`CategoryManager` has `mCategories` (category to node address), the nodes with
their entries and locks, the lock of the manager, the call of each thread with
its program counter, and the enumerator each thread holds. A call goes through
`Call`, `EnterManager`, then its own steps, and `Leave`, which gives back the
locks that go out of scope.

Whatever the code does without the lock of what it uses is split:

 - `AddEntry` searches, and then `InsertLeaf` ends an insertion (with the resizing of
   the table it may cause) and `SetLeaf` the assignment of a value. From `AddEntry`
   on the write is under way (`insert`, `set`), and who reads the table, or that value,
   meanwhile may read anything.
 - `LookUpEntry` finds the entry and `CopyValue` copies its value, both under the
   manager's lock only (cciCategoryManager.cpp:315-322): either gives `Torn` beside such
   a write (`Beside`), or what it should.
 - `TakeIterators` is the evaluation of `begin()` and `end()` (178), `EnumerateNode` the
   constructor of the enumerator, which takes the node's lock (63).
 - `DeleteCategory` holds the node's lock when the destructor asks for it again, in `Clear`
   (392, 393, 221). POSIX lets a thread that asks for a write lock it has wait for
   ever, or report it; glibc reports it, and `dmRWLock::WrLock` does not look. The model
   has both: `DeleteNode` goes on, `ClearWaits` stays where it is for ever, with both
   locks.

The refinement mapping takes the entries of the node of each category for the
table, and, for a call, its request until it is at `leave` and its answer from
then on. So `LookUpEntry` (when it finds nothing, or reads what is half written),
`CopyValue`, `AddEntry` (when it may not replace), `InsertLeaf`, `SetLeaf`,
`RemoveEntry`, `DeleteNode`, `EnumerateNode` and `EnumerateManager` implement
`TakeEffect`, and the creation of an empty node is a stutter.

*Abstractions and assumptions.*
 - The locks are those of POSIX: shared by readers, several times by one reader
   too, and a waiting writer does not hold readers back (what glibc does for a
   lock with default attributes).
 - Names and values are model values. A read beside a write gives `Torn`, and does no
   harm to the table; in the code it may also fail. `EnumerateCategories` and
   `EnumerateCategory` say nothing of the order of names.
 - A thread has one enumerator at a time. `WhileEnumerating` says what it calls
   while it has one; `DeletersWait` says that nobody starts to delete a category
   while somebody is adding an entry, or the other way round. Both are
   conventions that clients may keep and that the code does not enforce:
   `cat_clients` shows what the code does when they are kept, `cat_deadlock`
   and `cat_deleted` what happens when they are not.
 - `DeleteCategory` deletes the node that contains the lock it holds, and the
   lock is given back afterwards, in freed memory. The model gives it back in the
   record of the deleted node, which is not used for a new one meanwhile.

### ReadWriteLock and WinReadWriteLock

`ReadWriteLock` says what each thread holds: nothing, a read lock or the write
lock. `WinReadWriteLock` has the critical section's owner, the semaphore's
count, the count of readers, and a program counter per thread. One action is one
call of the Windows API or one access to the count; `Unlock` reads the count
before it enters the critical section, as the code does. A thread holds a lock
from the return of its call until it calls `Unlock` (`Holder`).

*Abstractions and assumptions.* A thread that holds several read locks stands
for several threads: the code does not record who reads. Nobody asks for
a second lock while it writes, or for the write lock while it reads (both are
errors with a POSIX lock as well), so the critical section need not be
recursive. A `Try` call that finds somebody inside changes nothing and is no
step. Construction is `Init`; destruction is left out.

### Objects

*State.* `heap` is the memory of each address: the state of its header, class,
count, member, proxy, referent. `mInstances` is the allocator's list. `slot` are
the `cci_Ptr` variables of the program, `loose` an `already_AddRefed`, `filling`
the variable a `getter_AddRefs` refers to while the callee runs. `stack` holds
the destructors in progress, so an assignment whose release begins a destructor
is one step, and what the destructor does are the next ones.

*Steps.* One per way of assigning (`Create`, `Assign`, `AssignFromCall`, `Swap`,
`Forget`, `AssignAddRefed`, `StartAssignment` with `CalleeReturns`,
`SetMember`), `GetWeakReference`, `QueryReferent`; the four stages of a
destructor (`DestructorBody`, `DestroyMembers`, `ClearWeakReferences`,
`RevokeObject`); and the collector.

*Abstractions and assumptions.* One thread. Objects have one member; there are
two kinds, one that owns through a `cci_Ptr` and one through a raw pointer,
because only the former looks whether its object has been collected
(cciCOMPtr.cpp:74). Three habits of the program are assumed, and the code breaks
without them: nobody promotes a weak reference to an object whose destructor is
running, no static `cci_Ptr` outlives `ReleaseAllocatorState`, and nobody passes
`getter_AddRefs(p)` to a method of the object that only `p` holds.

### Interfaces

A class with an inherited base, an inner object it aggregates, and an object of
the inner class by itself: the three ways the macros offer. `Counter` is the
object whose count an interface pointer changes, `Answer` what it gives for an
interface id. The constructors are steps (`stage`), because the inner object's
`Init` may already ask for interfaces, and may fail. No class of the repository
uses the aggregation macros; the module takes them as cciAggregated.h offers them.

### Enumerators

A union of a union of two singletons and a third one: `HasMoreElements` moves
on, `GetNext` does not. A client that asks before it takes is told the truth
(`AnswersAreKept`); one that does not stops early and loses no order
(`InOrder`).

### Modules and Runtime

*State.* `w` is the process as the loaders and the manager see it: which
factories exist and how often they are referenced, the entries and their
`mFactory`, the modules loaded and initialised, the factories a module keeps,
the class-info variables, what the client holds. `lost` and `late` record what
may not happen: a factory whose only reference was overwritten, one destroyed
when its library was unmapped. `Runtime` adds the count, whether the manager is
there, and the state of each embedder.

*Steps.* The operators of `Modules` are the calls of the code, one operator per
function, and may fail at the places `Fault` lists; a client's call is one step.
`DM_Initialize` starts the manager, fails after it has published it (`half`), or
cannot read the registry; the glue may not find the library or a symbol.

*Abstractions and assumptions.* One thread: the race of two first calls is in
`ComponentManager`. A module has one location, and a class is in the table of one
module (`ModulesAssumption`). `Room` is the bound on addresses: a call starts only
when there are more unused ones than its module has classes. Clients have given back what they
hold when the runtime stops, and a forced release is by one that knows there is
no other. When `CCI_Init` fails, `DM_Initialize` releases a variable it has not
set (xpcci.cpp:139); the model goes on as if it had been null.

### Registry

`manager` has the contract ids, classes with locations and category entries of
the running program, `file` complete lines and the rest. A line is the words
between its commas, so a comma in a name makes one word more.
`WritePersistentRegistry` writes everything, or stops after any line and any
part of the next, or loses a category's lines to an error it does not report.
`Restart` begins a program that may have registered a class of its own before
it reads (the modules linked in do). A program that goes on after it has written
forgets the file here, and writes it anew.

### HashTable and Multiset

`Multiset` has the number of elements of each key, and the answer of the last
call. `HashTable` has the buckets, chains of node identities, so that an
iterator stays valid across a resizing; the refinement mapping counts the nodes
of each key. `due` is what a traversal in progress has still to meet. Hash values
are the keys, as `hash<int>`; the list of primes is <<2, 3, 5>>. A hash function
may throw during insertion, a copy may throw: both leave what `Multiset` says.
Throwing in the middle of a resizing is left out (the code leaves its count
stale then).

### Cells, Vector, Strings

`Cells` has what each operation of `dmVector` does to memory: cells with raw
memory behind the end, and arguments that may lie in the vector. `Vector` applies
them. `Strings` has buffers with a count, and the operations that write in place
or take a copy of the buffer first; `ReplaceString` is a fold over the text, since it
replaces at most once for each character. A text may hold the character that ends texts
where `Fill` has left one; `is_null_string` and `strlen` are what callers make of it.
`ReplaceChars` does not return when it finds a character that replaces itself (it looks
again at the same place); such calls are not made (`ReplaceCharsReturns`). Characters
are numbers, 1 is one of them and 0 ends a text (`StringsAssumption`). In `StringsAreValues` the calls are compared
with what their names promise of texts; those that do not keep it in this code
are excepted by name there (see "Notes on the code").

### Lists, Pool, Dates, Streams

`Lists` has the links of nodes and heads, and each call as the assignments to
them; what its callers see to is `Loose`, `MayMove`, and that a stretch does not go
into itself. `Ring` follows the links. `Pool` has
chunks, free cells and the count. `Dates` goes through days, by the seconds around
their midnights; the code's floating-point factors are fractions in it, which give the
same whole numbers on each of the days it is about (computed for every one of them
with the doubles of the code). `Streams`
opens both kinds of input stream on the same data and makes the same calls on
both; offsets are modulo `Wrap` in place of 2^32.

## 3. Runs

| run | asks | expected |
|---|---|---|
| `cm_clients` | two clients and the main thread, nobody unregisters, start and stop repeatedly; deadlock checked | pass |
| `cm_unregister` | a registrar that replaces and unregisters, and a client; deadlock checked | pass |
| `cm_lazy_load` | the factory a module has just stored is read back | violation |
| `cat_clients` | three threads on one category | pass |
| `cat_deadlock` | look-ups inside an enumeration, against a deletion | violation |
| `cat_deleted` | additions to a category, against its deletion | violation |
| `win_lock` | all calls of the Windows lock, four threads | pass |
| `win_writer` | `WrLock` returns if readers give their locks back | violation |
| `objects` | object lifetimes up to the collector; composite objects; enumerators | pass |
| `library` | seven containers and value classes against what they stand for | pass |
| `modules` | two embedders, a library and a linked-in module; the registry across a crash | pass |
| `mod_eager` | factories are destroyed before their library is unloaded | violation |

What they show.

 - `cm_clients`: `EntriesInUseAreLive` (a call uses a pointer after it has given
   up the lock it found it under, and still no entry in use is deleted, in
   particular not by shutdown, unless a destructor asks for a class then), `OneServicePerEntry` (however many threads ask,
   and although a constructor asks for other services inside), `ServicesGoFirst`
   (the flag goes up before the services go, so a destructor cannot make one
   anew), `ShutdownTerminates` (whatever its destructors call, unless one of them
   gets at a deleted entry).
 - `cm_unregister`: `TablesSound`, `NoEntryLeaks` and `ServiceStable` hold also
   when a class is unregistered under the feet of a call, and when a
   registration fails at an empty contract id after it has made its entry.
 - `cat_clients`: `Linearizable` (the refinement: no change is lost, although an addition
   takes its two locks one after the other, and a look-up without the node's lock is
   wrong only beside an addition), `EnumerationStable` (although the iterators are taken
   before the lock: no addition can begin in between, because the manager's lock is held,
   so only one that had begun before changes what is enumerated, and it takes nothing
   away), `LookupsReturn` (unless a deletion waits for itself). As one may, deadlock is
   not checked.
 - `win_lock`: `ImplementsLock` (a writer excludes everybody), `UnlockKnows`
   (`Unlock` tells a writer from a reader by a count it reads unprotected) and
   `SemaphoreInStep` (a first reader never waits, so `TryRdLock` does not block).
   Deadlock is not checked here: it is what `win_writer` finds.
 - `objects`: `CountsOwners` and `OwnersHoldLive` (no path through the owning
   pointers loses or keeps a reference, although releases run destructors in the
   middle), `DestroyedOnce` (the count of a dying object cannot reach zero again,
   and the collector and `delete` do not both take one), `CallsReachObjects` (the
   collector may destroy objects that own each other, in any order),
   `WeakIsMutual`, `NothingLeaks` (cycles are collected, lists and memory agree);
   `LivesWhileHeld` (every reference to a composite object is counted where its
   release will look for it, also while a constructor is at work or has failed) and
   `OneIdentity`; `InOrder` and `AnswersAreKept` for unions. Deadlock is checked.
 - `library`: `ImplementsMultiset` (a refinement), `QueriesAgree` and
   `TraversalIsComplete` for the hash table; `VectorIsSequence`,
   `StringsAreValues`, `BuffersAreCounted`, `ListsAreSequences`,
   `CellsAreSomewhere`, `TimesFollowCalendar`, `StreamsGiveTheData` for the rest.
   These compare every call, with every argument of the instance, with its
   meaning, in every state the calls can reach. A calendar ends with `Span` and
   a vector at `MaxCapacity`, so the run may stop.
 - `modules`: `LibrariesGoLast` (counts agree with owners, class-info variables
   point to factories of their class or nowhere, and the end of the runtime takes
   entries, modules and libraries in this order, whatever failed before),
   `RunsWhileInUse`, `UnloadedAtTheEnd` (a stop by anybody unloads every module),
   `RestoredWasThere`. The bound on the count ends behaviours
   in which embedders force a stop again and again, so the run may stop.

Findings.

 1. `cm_lazy_load`: `GetFactory` fills the member `mFactory` through
    `getter_AddRefs`, which clears it, and `CreateInstance` calls it without a
    lock. Of two threads that create the first instance of a class known by its
    location, the second clears the factory the first one is about to read back:
    "Loader says it succeeded; got null factory!" (cciComponentManager.cpp:149).
 2. `cat_deadlock`: a client that looks up each entry of the category it
    enumerates, and a thread that deletes an entry, wait for each other, although
    "This implementation is thread-safe." (cciCategoryManager.h:66).
 3. `cat_deleted`: `AddCategoryEntry` uses a node that `DeleteCategory` has
    deleted between its two locks (same comment).
 4. `win_writer`: on Windows a `WrLock` that meets a reader waits for the readers'
    semaphore with the critical section in its hands, and a reader's `Unlock`
    needs that critical section to give the semaphore back: both wait for ever,
    although WrLock shall "Wait until read lock becomes available then lock"
    (dmRWLocks.h:53). The theorem `WriterWaitsForEver` says so for any number of
    threads. The locks that the two managers assume are therefore the POSIX
    ones.

 5. `mod_eager`: `GetFactory` hands `mFactory` to the module it has just loaded
    (cciComponentManager.cpp:142-144). Its `Initialize` registers a factory for each
    class with `EAGER_CLASSINFO` (cciGenericFactory.cpp:318), and that goes to the
    same `mFactory`; `GetClassObject` then overwrites it without a release. The
    first factory is in no entry any more and outlives the libraries, although the
    entries are cleared first so that "Factory destructor (if any) will be called
    here" (cciComponentManager.cpp:268); when the allocator collects it
    (cciCOMInit.cpp:103), its destructor reads the class info of an unloaded
    library. `LibrariesGoLast` says that this is the only way.

### Bounds

 - Component manager: two classes, one that needs the other, so that requests
   nest; two entry addresses, so that every class has one, and the address of a
   deleted entry is found again by the next; one or two factories, so that one
   can be replaced by another; two or three threads: two clients race in
   `CreateInstance` and in `GetService`, and the main thread registers and
   stops. A call needs one entry, a race two calls; a third client would only
   repeat what the second does. No counter needs a bound: `made` stays at one
   where services are kept (`cm_clients`), and in `cm_unregister` too; the depth
   of a stack is bounded by `NeedsAcyclic`.
 - Category manager: one category and one name, because operations on different
   names of a node exclude each other by the node's lock, and those on different
   categories share only the manager's lock; two values, so that a replacement
   shows; one node address in `cat_clients`, two where a deleted node must not be
   confused with its successor.
 - Windows lock: four threads, so that a first, a middle and a last reader meet a
   writer; the proofs hold for any number.
 - Objects: three addresses and two variables suffice for a cycle of owners, a
   chain of two destructors below an assignment, and an object, its proxy and a
   third that owns one of them; addresses and variables are symmetric. Composite
   objects: four references besides the constructors' own.
 - Library: three nodes and keys with the primes 2, 3, 5, so that a table with
   full buckets grows and two keys share a bucket before but not after; vectors up
   to five cells, so that they grow twice and are shifted with room left; two
   strings that share or do not; two lists and four nodes, so that a stretch of two
   moves between two others, in its own list or to another;
   two chunks of up to three cells, so that
   the free cells of one mix with the other's; a stream of three bytes and offsets
   modulo five, so that offsets wrap into the data and past it.
 - Dates: 120 days from the first of the calendar, from February 1900, 2000 and
   2100, from the end of November 2008, and the last 120 of the theorem; one second on
   either side of midnight, sums of up to two days and a second.
 - Modules: one library with an eager class and one without a constructor, and a
   module that is linked in; five factory addresses (a call starts only when there
   is room for what a module makes by itself); two embedders; a count up to three.
   Registry: two contract ids of which one is the other with a comma and a word
   more, two classes, a location with a comma, two entries, one value.
 - Every passing run explores its state space completely. Mutants (see
   PROJECT.json) show for each property a plausible fault of the code that it
   detects with these bounds.

### Fairness

 - Component manager: the thread in `CCI_Shutdown` runs (weak fairness of its calls,
   `CallStep(Main)`), and each destructor it runs comes to an end: strong fairness of
   `ExitStep`, which is what goes on after a destructor. No other thread is in a call
   then, so it waits for nobody.
 - Category manager: weak fairness of each thread's steps and of the release of
   an enumerator (a client that never releases one blocks writers for ever, by
   design), and strong fairness of a *reader's* entry to the manager's lock: with
   the readers' preference of the POSIX lock a reader passes waiting writers.
   Nothing is assumed for writers, so nothing is claimed for them: readers that
   follow each other may keep a writer out for ever.

 - Windows lock, for the refutation: weak fairness of every step of a call and of
   `Unlock`, and strong fairness of entering the critical section, which is more
   than Windows grants. `WrLock` does not return even so.

## 4. Proofs

TLC found every invariant below to hold in its instance before it was proved; the
theorems say the same for every value of the constants.

| theorem | what it states | assumed |
|---|---|---|
| `ComponentManager_proofs!TypeCorrect` | `[]TypeOK` | |
| `TablesAreSound` | `[]TablesSound` | |
| `EntriesDoNotLeak` | `[]NoEntryLeaks` | |
| `MutexIsExclusive` | `[]MutexInv` | |
| `OneService` | `[]OneServicePerEntry` | |
| `NoServiceAfterFree` | `[]ServicesGoFirst` | |
| `ServicesAreStable` | `ServiceStable` | |
| `EntriesInUse` | `[]EntriesInUseAreLive` | nobody calls `UnregisterFactory` |
| `WinReadWriteLock_proofs!Implementation` | `ImplementsLock` | |
| `UnlockKnowsItsLock`, `SemaphoreFollows`, `TypeCorrect` | `[]UnlockKnows`, `[]SemaphoreInStep`, `[]TypeOK` | |
| `WriterWaitsForEver` | a `WrLock` that has met a reader never returns | |
| `CategoryManager_proofs!TypeCorrect` | `[]TypeOK` | |
| `EnumeratedIsStable` | `EnumerationStable` | |
| `AtomicCalls` | `Linearizable` | `DeletersWait` |
| `Objects_proofs!TypeCorrect` | `[]TypeOK` | |
| `CountsAreExact`, `OwnersAreSafe` | `[]CountsOwners`, `[]OwnersHoldLive` | |
| `DestructorsRunOnce`, `CallsAreSafe` | `[]DestroyedOnce`, `[]CallsReachObjects` | |
| `WeakReferencesAreMutual`, `NothingIsLeft` | `[]WeakIsMutual`, `[]NothingLeaks` | |
| `LivesAsLongAsHeld` | `[]LivesWhileHeld` | |
| `IdentityIsOne` | `[]OneIdentity` | |
| `UnionDeliversInOrder`, `UnionKeepsItsAnswers` | `[]InOrder`, `[]AnswersAreKept` | |
| `Runtime_proofs!RuntimeIsKept` | `[]RunsWhileInUse` | |
| `LibrariesDoGoLast` | `[]LibrariesGoLast` | |
| `AllIsUnloaded` | `[]UnloadedAtTheEnd` | |
| `Registry_proofs!RegistryIsRestored` | `[]RestoredWasThere` | `RegistryAssumption` |
| `HashTable_proofs!TablesAreMultisets` | `ImplementsMultiset` | |
| `QueriesAlwaysAgree`, `TraversalsAreComplete` | `[]QueriesAgree`, `[]TraversalIsComplete` | |
| `Library_proofs!VectorsAreSequences` | `[]VectorIsSequence` | |
| `StringsStayValues` | `[]StringsAreValues` | |
| `BuffersStayCounted` | `[]BuffersAreCounted` | |
| `ListsStaySequences` | `[]ListsAreSequences` | |
| `CellsAreKept` | `[]CellsAreSomewhere` | |
| `EveryByteOnce` | `[]StreamsGiveTheData` | |
| `TimesAreRight` | `[]TimesFollowCalendar` | days from 15 October 1582 to 10 April 11000 |

Besides what the last column says, a theorem assumes what its module's `ASSUME`
says of the constants: which of them are finite, that heads are not nodes, that the values that stand
for "nothing" are not among the others, that the length of a stream's data fits
its type (`Widths`), that the list of primes has a first number and no zero
(`HashTableAssumption`), that a class has one module. The real hypotheses are four.
Two are necessary, and runs show it: `cm_unregister` has a call in progress whose
entry another thread has deleted, and `cat_deleted` is the refutation of atomicity
without `DeletersWait`. The third, `RegistryAssumption`, is that contract ids, places
and entries are texts, and that no contract id has a comma and then what
reads as a class id: one that has is read back as a contract of that class. The
instance in `modules`, which has a contract id with a comma, satisfies it
(`MCModules` has it as an `ASSUME`). The fourth, `DatesAssumption`, is that days are
between the first one of the Gregorian calendar, before which the code is wrong, and
one in the year 11000; up to there the fractions of the model give what the code's doubles do.

### Component manager

`TypeCorrect`, `TablesAreSound`, `EntriesDoNotLeak` and `MutexIsExclusive` rest on
`Invariance` (`Spec => []IInv`). `TablesSound` is not inductive. In the middle of an
unregistration the entry is in neither table and still allocated; in the middle
of `Shutdown` the class table holds addresses of deleted entries; between the
two steps of a registration an entry has no contract id yet. `IInv` therefore
adds `WriterInv` (what the writer of `mLock` knows at each place of its critical
section: the entry it holds is live and under its class, or already out of both
tables), `ExitInv` (what each stage of the shutdown has left, and that there is
no writer then), and `EntriesKept` (`NoEntryLeaks` with these two in view).
`MutexInv` says that the depth of the mutex is the number of `GetService` and
`GetClassObject` calls on its owner's stack, and that no other thread has one; so
every path of these calls, failures included, gives back exactly what it took.
The steps of calls change neither table, and of the entries only the factory,
the service and the counter: one lemma (`CallKeepsInv`) covers them all. The
registrar's and the shutdown's steps are treated one by one.

The services need more (`ServicesInvariant`, `SInv`). That an entry makes one
service object is not only a matter of the mutex, which is recursive: a
constructor runs inside `GetService` and asks for other services. `StacksInv` says
that the calls above one on its stack are for components of lower `Rank`, a
numbering that exists because no component needs itself (`NeedsAcyclic`); so
between the test of `mServiceObject` and the store nobody makes this one, neither
this thread nor, with `MutexInv`, another. `MadeInv` ties the number of services
made to the member, `FlagInv` says that once the flag of the shutdown is up the
only calls are those the destructors of the exit thread make (`AllLate`), none of
which makes a service, and `FreedInv` what `FreeServices` has visited.

`EntriesInUse` adds that the entries on the stacks are live. When nobody unregisters,
the only steps that free an entry are those of the shutdown, and the only calls then
are look-ups of a class by a destructor: of `GetService` the flag makes nothing, and
for a contract id nothing is found, since `ReleaseManager` has emptied
`mContractIds` before the first entry goes. So `AsksForClassInShutdown` is the only
exception the property has to make, and it is one the code does not prevent.

### Windows read/write lock

`IInv` relates the count to the set of readers (`CountInv`, by the cardinality
theorems), places one thread at most inside the critical section (`SectionInv`),
and says when the semaphore is open although the owner is about to take it or to
give it back (`SemaphoreInv`) and what a writer has seen (`WriterInv`). The
refinement follows: a step changes what its own thread holds only (`HolderChange`).

### Category manager

`CInv` says of both kinds of locks that a writer excludes the readers and that
whoever is inside holds the lock in the right mode (`ManagerLockInv`,
`NodeLocksInv`); that each category has a live node of its own (`CategoriesInv`);
and that what a call has found is still so at each place where it uses it
(`FoundInv`): a node found under the manager's lock is the category's node as
long as the call keeps that lock; the entry `AddCategoryEntry` has not found is
still missing when it inserts, and the entry it has found, or `GetCategoryEntry` is
about to copy, is still there. `Fits` says which call may be at which place.

`EnumeratedIsStable` is an action property proved from it. Behind the read lock that
an enumerator keeps nothing changes. Between the iterators and that lock something
may, and `BegunTable` says what: the call has the manager's read lock, so nobody
begins to add, to delete an entry or to delete the category (`BegunFacts`), and what
is left is an addition that had already passed the manager's lock, which takes
nothing away.

`AtomicCalls` is the refinement of `CategoryTable`, step by step: each action maps
to a stutter (the locks, the look-up of a node, the creation of an empty one), to
`Call` or `Return` (the beginning and the end), or to `TakeEffect` of its thread.
`AddCategoryEntry` is the call that gives the manager's lock up in between, and
`FoundInv` says nothing of its node. `AInv` adds what `DeletersWait` is for: the
node it found is still that of its category (`AddInv`). That is also why a look-up
that reads beside an addition (`Torn`) maps to a look-up of the abstract table
beside an addition to the same category (`TornStep`). The assumption that an
answer differs from an idle thread's state (`Idle`) is in `ConstantsAssumption`.

### Objects

All the theorems follow from `OInv` (`Invariance`). Its parts, and why each is
needed:

 - `Sound`: the count of an object that is not being destroyed is the number of
   its owners, and owners have live objects. In the middle of an operation there
   is one reference more or less than owners; the operator has an argument for
   the reference "in hand", and the lemmas on the single writes (`AddRefKeeps`,
   `ReleaseKeeps`, `StoreSlotKeeps`, ...) move it between the hand, the variables
   and the members. An action is a chain of them between `Opening` and `Closing`.
 - `ListInv`: the allocator's list has each live object once.
 - `HolderInv`: an owner through a raw pointer is younger than what it owns, so
   the collector, which takes the youngest first, has destroyed the owner before. (Owners
   through a `cci_Ptr` need no order: the pointer looks whether its object has been
   collected.)
 - `WeakInv`: proxy and referent know each other.
 - `MemoryInv`: free memory has no traces, revoked memory only while its destructor
   runs, and none is left at the end.
 - `StackInv`: the destructors in progress are of different objects, and each finds
   the memory in the state its caller left it in: live under `delete`, revoked
   under the collector. This is what a destructor that releases its own object
   would break.

`ObjectAssumption` demands finitely many addresses and variables, since the
owners of an object are counted.

### Hash table

`TableInv` says that the nodes are in the chains of their keys (`Chains`): none
twice, those of a key next to each other, and every node with a key in some chain.
That the elements of a key stand together is what makes `count` and `equal_range`,
which stop at the first other key, right; `WithNode` keeps it by putting a new
element behind the first of its key, and `resize`, which turns chains round, as
well. The rest is about the order of a traversal (`Order`, `InOrder`), which lists
every node once, by bucket and place:

 - `Flatten...` and `KeptFact` give the elements of a concatenation of chains and of
   what is kept of one, by the one induction on numbers that is needed
   (`Induction`: a set with 0 and with the successor of each number in it has them all);
 - every erasure thins the chains out (`Thinned`), which keeps `Chains` and the order
   of what stays (`ThinnedKeeps`, `ThinnedBehind`). For a range (`ErasedFact`)
   this is where the first and the last bucket and the ones between them meet;
 - growing sorts the nodes into new chains (`RehashedFact`), copying renumbers them
   (`CopyFact`).

`TraversalInv` says that what is due is behind the iterator (`Behind`: in a later
bucket, or later in the same chain). `AfterFact` shows that `operator++` passes
nothing. For the refinement, `content` counts the nodes of each key; a range's
answer and the nodes that went are counted by a bijection (`RangeCounts`).

### Runtime and modules

`RuntimeIsKept` rests on `IInv`: `gDaimRefcount` is at least the number of embedders
inside, and exactly that as long as the runtime is not down; forced releases, which
leave the count too high, also take it down, and a count that is too high keeps it
there.

The factories (`FactoriesInvariant`) are counted, and their references move in the
middle of calls. `Sound(x, nodes, loose)` says of a state x of the process that each
factory has as many references as it has owners (entries, lists of nodes, clients,
pointers that were overwritten) and, besides, `loose[f]` that the step in progress
holds; that what anybody owns is there; that the variable of a class points to a
factory of that class; that nodes are of their module's classes, each once; and
that a factory is there only as long as its library is, unless it is one that was
overwritten. Between two calls nothing is loose. One lemma for each function of the
code says what it does to `Sound`: `NewKeeps` makes a factory with one loose
reference, `SwapKeeps` puts one into an entry and makes what was there loose,
`ReleaseKeeps` spends one, and so on, up to `InitializeKeeps`, `GetFactoryKeeps`,
`CallKeeps`, with every failure in them.

Start and stop are folds over sets of modules, classes and factories, and
initialisation is one over a module's table. `FoldExists` and `FoldStays` are the
induction they need, set up without the library's induction theorems (which take an
operator as parameter): a fold is the one function with its base and its steps,
such functions for smaller sets agree, and what each step keeps (`Steps`, a family of
sets of states indexed by the elements that are left) is kept by all. At the stop,
`EntriesGo`, `ModulesGo` and `FactoriesGo` say what is left after each of the three
loops: no entry has a factory, then no module has one either and none is loaded, then
only overwritten factories are destroyed, in `late` and in `lost` both.

### Registry

`RegistryInv` says of the managers that every contract is of a class with a location
(`IsManager`); of a file that was begun, that its lines are the beginning, or all, of
a `Whole` that lists contracts and persistent entries of the manager, each line that of
one of them (`FileOf`); and of a manager that has read it, what the property says
(`Restored`). Nothing is said of the order, which is that of a hash table. Three steps
lead from the one to the other:

 - Writing: `SetToSeqFact` gives the elements of a set in some order, `FlattenFact` those
   of the lines of the categories one after the other, and so `LinesFact` says that all
   contracts are written, and of each category as many entries as were not given up.
 - Reading: the header and the sections of any beginning of a `Whole` are found
   where they were put (`WholeFact`, `SectionFact`), because no line of a contract or an entry
   has less than three words; a last line without its end is not looked at. Within
   a section the reader is a fold over lines, and `ContractsFold` and
   `EntriesFold` say by induction what it has after any number of them.
 - Names: what the words of a line are the name and the value of (`Spells`) is unique only when
   the name has no comma. `EntryRestored` is the reason for the last part of the
   property: two entries have the same line only if they are the same or the other
   has a comma in its name, and then it begins with the words of this one.

### Strings

`Counted` is the invariant: a buffer has as many references as strings point to it,
and holds a constructed text. `BuffersStayCounted` follows at once, and
`StringsAreValues` from it: whoever writes has the only reference (`CopyFact`), there
is a free buffer for a string that has none, because there are as many as strings
(`FreeBuffer`), and so `OnOwnFact` reduces each call to what it does to one buffer,
for which there is a lemma each (`OverwrittenHolds`, `InsertedPartHolds`,
`FilledHolds`, `ReplacedHolds`, ...). The argument may lie in the buffer that is written
(`inside`). `PlacedFact` says when a text copied cell by cell is read right although
the copy overwrites it: when it is not moved upwards over itself; this is the case
`MovesUpUnderIt` leaves out. `ReplaceString` is a fold of `Replace`, and
needs no more than that each step keeps the other strings as they are.
`ReplaceChars`, which writes in a buffer others share, keeps `Counted` and nothing more.

### Lists

The invariant (`ListsInv`) is short: the links of each node's neighbours lead back to
it (`Linked`), and no list has the head of another (`Apart`). That links which
lead back form rings is `RingExists`: among the longest paths that meet no
node twice and end at n (`Leads`) there is one, it has at most as many nodes as there
are, and the node before its first can only be n. `RingIsRead` says that `Ring`, which
follows links as often as there are nodes, reads it.

All calls come down to one exchange: `Crossed(l, a, b)` gives the nodes after a and
after b to each other. `Removed` is one with the node and the one before it,
`NodeInserted` one with the ring that comes in, `Inserted` the two in turn, and
`Spliced` a cut and an insertion (`RemovedIs`, `NodeInsertedIs`, `InsertedIs`,
`SplicedIs`): these lemmas are where the order of the assignments counts, and where
nodes that are neighbours or the same would show. An exchange within a ring cuts it
in two (`CrossedCuts`, `CrossedCloses`), one between two rings joins them
(`CrossedPuts`), and a ring with neither node stays (`CrossedAway`). What is left is
about sequences: the ring of another node is a rotation (`RotatedTurns`), and a part
taken out or put in moves the head no further than to the end (`TakenOutIs`, `BeforeIs`).

### Dates

`TimesAreRight` has a simple invariant (the day is in range) and a long way from it to
the property. The code turns a Julian number into a day of a calendar in which every
century has its leap day (`Base`), and reads that in years that begin with March
(`YearOf`, `DayOf`, `DateOf`); there the day after a day is simple (`NextYearFact`,
`DayAfterFact`), and with the lengths of months from 30.6001 it is that of the
calendar. What can go wrong is the number of days left out (`Alpha`). `CenturyFact` says
that it is right except when a century has begun with March and `Alpha` has not
changed yet (`OnTime`). Those are the days `MarchOfCentury` names and no others
(`LateIsNamed`); this is where the error of 36524.65 is added up. On the other days
a date leads back (`DateIsRead`) and the next one follows (`DatesFollow`). The times are a
matter of quotients and remainders (`PlusFact`, `SumsAreExact`).

### Interfaces, enumerators, vectors, pool and streams

 - `Interfaces`: a composite's count is the number of pointers that clients hold to
   its outside, which excludes the inner object's own `cciISupports`, and one for
   the constructor; the inner's count is one exactly when it exists. That nobody has a
   pointer before the inner is made, nor when it has just been made (`InitInv`), is needed
   where a construction fails.
 - `Enumerators`: parts are consumed in order, and a union stands at its second part, or is
   over, only when the parts before are consumed (`UnionsInv`); so what was delivered
   follows from which parts are (`Delivered`), and an answer "more" has left the unions
   at a part that is not (`AnswersInv`).
 - `Vector`: the invariant (`Constructed`) is that the cells up to the end hold values and
   the ones behind it are raw, so no slice and no argument of a caller reads raw memory.
   The property follows by a lemma for each call (`InsertOneHolds`, `EraseCellsHolds`,
   `ResizeHolds`, ...): memory that was written to in this order holds that sequence,
   cell by cell.
 - `Pool`: the property is inductive with the types; the lemmas are about taking from
   and putting in front of a list without repetitions.
 - `Streams`: until a consumer calls back, a segment offered is not longer than what is left.
   Offsets wrap, and no addition that is used does; the one case where the streams
   count in opposite directions (`SEEK_END`) agrees at the end itself only.

### Only model-checked

 - All liveness: `ShutdownTerminates`, `LookupsReturn`, `WrLockReturns`. Fairness
   and enabledness are out of the reach of the provers.

Every other property of a passing run is stated by a theorem.

## 5. Notes on the code

Met while modelling. Where a property would fail because of one, the property names
the case and leaves it out; the others lie outside what is modelled.

 - Strings (dmTString.cpp): `ReplaceChars` writes into a buffer that other strings
   share (576), and does not end when the replacement is among the characters;
   `Trim` of a shared string goes on with pointers into the buffer it has left
   (544, 560); `Assign(char)` swaps count and character (464); `Fill` before the
   end loses the last character; `Insert` and `Replace` with a part of the same
   string overwrite it before they read it; `Find` accepts a beginning of the text
   it looks for at the end of the string, so `ReplaceString` replaces that; `Compare`
   with a length takes a prefix for equal.
 - Lists (dmList.h): a node inserted before itself is lost, and so is a stretch
   spliced into itself; `InsertBefore` of a node of the same ring splits the ring.
 - Dates (dmDate.cpp, dmTime.cpp): dates before 15 October 1582 (the limit is
   compared with a number of another kind, 51); the days after 28 February in 1700, 1800,
   1900, 2100, until some days into March (36524.65, 52); a sum that is a whole number of days before midnight
   gives the second 86400 (dmTime.cpp:144-146).
 - Streams: a consumer that calls back into the stream it is given; seeking from the
   end has opposite directions in the two streams; a file stream skips past its
   end; an error code is returned as a number of bytes available.
 - Hash table: a hash function that throws while the table grows leaves its count
   too high; `erase(key)` with a reference to the key in the table. `dmSetOf::Empty`
   is inverted (dmSetOf.h:81).
 - Objects: a weak reference promoted while its referent is being destroyed gives a
   pointer to it; `dmLink::operator=` releases what it has before it takes the new
   (dmShared.h:105).
 - Modules: an initialisation that failed half way is done again from its
   beginning and keeps the factories of the first time; a dying factory clears the
   class-info variable although a newer one is in it; a symbol that is missing
   leaves the library open (xpcciglue.cpp).
 - Runtime: `DM_Initialize` that fails releases a variable it never set
   (xpcci.cpp:139), and later callers are told that it is initialised already; a
   forced `DM_Finalize` keeps the count.
 - Registry: it is truncated first, so a crash while writing loses what was there;
   an error in a category's entries is taken for success (cciCategoryManager.cpp:444); a
   name with a comma is read as another; a file without its header or a section is
   accepted silently.
 - Category manager: `GetCategoryEntry` reads a node's table without the node's lock (320),
   and `DeleteCategory` asks for the lock it holds (221) and gives it back in freed
   memory. With `cat_deleted` and `cat_deadlock` these are the places where the comment in
   cciCategoryManager.h:66 is too strong.
 - Component manager: a destructor that asks for the factory of a class while `Shutdown`
   deletes the entries (264-272) may get at a deleted one, since `GetClassObject` does not
   test the flag.

Hazards that are real and have no module: threads that share an object (counts and
`RevokeObject` are not atomic) or a string's buffer (two look-ups of one category
entry do: cciCategoryManager.cpp:322), threads that load at once (the loaders' tables
have no lock), the buckets of a table read while another thread resizes it, a factory
destroyed between its look-up and its reference (cciComponentManager.cpp:155), and calls
in the middle of `CCI_Init`.

## 6. Not modelled

Not modelled: exceptions, tracing and portability (wrappers without state that other
parts read), the XPCOM bridge, the IDL compiler, the build system and the tests; the
output stream and the functions that open files; searching in strings other than
`Find`; `Format`; how a loader finds a library by its path; the raw allocations.
