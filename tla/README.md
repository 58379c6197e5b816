# edb: a TLA+ model of the storage engine, the catalog and SQL execution

This directory models edb, a small relational database in C++ (`src/src`), in
TLA+: modules translated from the code, TLC configurations that check them on
small instances, and TLAPS proofs for every instance.

## The system

| Part | Code | State | Operations |
|---|---|---|---|
| Storage I/O | `storage/io` | a file descriptor | open, close, read, write, truncate, file_size, sync |
| Page store | `storage/page` | none of its own | read_page, write_page, allocate_page, sync |
| Buffer pool | `storage/buffer/buffer_pool.*` | frames: page id, bytes, valid, dirty, pin count | open, close, fetch, fetch_new, unpin, flush, flush_all |
| Eviction policies | `storage/buffer/*_policy.*` | reference bits and hand; use histories; resident and ghost lists | record_access, record_miss, record_load, record_evict, choose_victim |
| Heap page | `storage/engine/heap/page.*` | a slotted page | initialize, insert, delete, overwrite, read |
| Heap engine | `storage/engine/heap/heap_engine.*` | pool, page store, latch | open, close, insert, delete, update, scans |
| Catalog | `catalog/` | system tables, caches by name and oid, open user tables, latch | open (bootstrap), close, get_type, get_class, get_attributes, create_table, drop_table, open_table |
| Types, row codec | `types/` | none | conversions |
| SQL | `query/` | none beyond one statement | lexer, parser, binder, planner, executor |

A statement is a text that is cut into tokens, parsed, bound against the catalog, planned one to one, and run
by executor nodes that call `Catalog::open_table` and `Table::insert` or
`Table::scan`. A table encodes rows and gives them to its heap engine. An
engine holds its latch for the length of a call and reaches pages through a
buffer pool of its own, the pool through a page store. There is no log, no
transaction and no recovery: `docs/PLAN.md:34` says that writes apply directly and
that a failed statement may leave rows behind. What makes the code hard is
therefore failure in the middle of a call, and state that is kept twice: frames
and file, pins and handles, a policy's lists and the pool, caches and tables,
cursors and pages.

## Modules and the code they model

| Module | Models | Correspondence |
|---|---|---|
| `DurablePages` | what a page cache promises | a current content for each page and a set of contents that may survive a crash |
| `PageFile` | what a page store promises | pages whose calls take effect at one moment each; a call that fails may tear the page it is about |
| `PosixIO` | `posix_io.cpp` | `fd` of each object; the kernel's descriptors and bytes; the loops of read and write, one kernel call a step |
| `PageStore` | `page_store.cpp` over `PosixIO` | `call` is the operation each thread is in: file_size, then the loop or the truncate |
| `BufferPool` | `buffer_pool.cpp`, and `page_store.cpp` as its caller sees it | `frames` is the frame table, `handle` the clients' FrameHandles, `dropped` the handles let go without unpin, `disk` what a read returns, `platter` what a crash may leave; a handle may be moved, assigned over or destroyed; one action per member function, and one per way it can fail |
| `EvictionPolicy` | the interface in `eviction_policy.hpp` | the pool as a policy sees it; extended by the three policies |
| `ClockSweep`, `LruK`, `Arc` | the policies | their fields under the same names; a hit, an unpin and a miss, loads that fail included |
| `Policies` | `eviction_policy.cpp` | extends the three: a pool under the policy its configuration names, the others untouched |
| `HeapPage` | `heap/page.cpp` | operators on a page, with the byte offsets of the code |
| `SlottedPage` | a page under any calls | checks `HeapPage` against the list of tuples it was given |
| `HeapEngine` | `heap_engine.cpp` | threads, scan cursors, pages made with `HeapPage` over the cache `DurablePages` promises; `torn` are the pages of the file that a write left half written |
| `Catalog` | `catalog.cpp` | the system tables in memory and on file (edb_index has an engine and no row), the caches, the open user tables; DDL with every point of failure |
| `Characters`, `Lexer` | `lexer.cpp` | characters are numbers, texts sequences; one operator per scanning method |
| `Parser` | `parser.cpp` | one operator per method, from tokens and a position to a tree and a position |
| `Lexemes` | the lexical grammar | which texts are lexemes and gaps, as predicates on whole texts: no positions, no order of scanning |
| `Grammar` | the grammar in `parser.hpp` | which token sequences have which trees; `Forms` names the forms that are in it beside the plain ones: NOT, which is documented, and those only the parser accepts |
| `SqlText` | lexer and parser on any input | a text or a token sequence that grows; compares `Lexer` with `Lexemes` and `Parser` with `Grammar` |
| `RowCodec` | `row_codec.cpp`, `builtin_types.cpp` | operators: parse, encode, decode, compare |
| `Expression` | expressions in `binder.cpp` and `exec.cpp` | binding and evaluation, and SQL's three-valued logic as the reference |
| `Query` | `query_engine.cpp`: binder, plan, executor, `Table` | threads that send texts, go through `Lexer` and `Parser`, and create, insert and select one tuple a step |

`*Proofs` modules hold the theorems about the module they are named after
(`HeapPageProofs` and `ArcProofs` hold the lemmas that `SlottedPageProofs` and
`HeapEngineProofs`, and `PoliciesProofs`, rest on). `MC*` modules hold the values for TLC (`MCWords` the keywords of the two that
read texts). A call that returns an error and changes
nothing is a stuttering step and has no action. An operator whose comment
begins with "Mutant" is a plausible mistake in the operator after it; it is
not part of the specification, and each one makes a property fail.

How the layers meet: `PageStore` over `PosixIO` is shown to implement `PageFile`
(`PageCallsAreAtomic`), whose calls, whole or failing with a part transferred,
are the ones `BufferPool` makes of its file. `BufferPool` is shown to implement `DurablePages`
(`CacheIsTransparent`), and `HeapEngine` is written over what `DurablePages`
promises, not over frames. `Query` is written over what `HeapEngine` and
`Catalog` show: an insert takes some free place, a scan visits places in order,
a name is bound to its columns. The policies leave the choice of victim, which
`BufferPool` makes arbitrary, to the code.

## Runs

| Run | Checks | Instance |
|---|---|---|
| `pool` | clean frames equal the file; one frame per page, pins equal handles, those let go without unpin included, handles keep their page; a successful `flush_all` makes every page durable; the pool implements `DurablePages` | 2 frames, 3 pages, 2 handles; 1 page ever written, 2 while no page is pinned; 1 handle a frame let go without unpin, once all pages are on file |
| `pool_partial_read` | finding | 1 frame, reads that fail half way |
| `policies` | a victim is found exactly if one exists; clock: second chance, no idle page stays; LRU-K: the victim has the greatest backward K-distance, from the full history; ARC: lists, location table and target agree with the pool | 3 frames, 6 pages, K = 2, 8 uses |
| `page_store` | page operations are atomic to their callers (implements `PageFile`); each one returns | 2 threads, a file of up to 2 pages of 3 bytes |
| `slotted_page` | live slots read back what was stored; regions do not overlap | 16 bytes for slots and tuples |
| `heap` | scans miss and repeat nothing; tuple ids are never reused | 2 threads, 1 scan, 2 pages of 2 tuples, a tuple too long for a page; 1 torn page |
| `heap_close_retry` | finding | 1 thread |
| `catalog` | unique names and oids, no metadata without its class row, created tables keep their columns, class cache right | 2 user tables, 2 system tables, 3 rows of user tables in edb_class |
| `catalog_bootstrap` | finding | 1 user table |
| `sql_text` | longest match, comments and strings; string escapes; the trees of the documented grammar, and which departures from it there are | texts of up to 5 of 12 characters, 6 of fewer; up to 6 tokens of any kind, up to 7 more inside a WHERE, a column definition and VALUES |
| `query` | stored rows fit their table; an INSERT leaves a prefix; SELECT agrees with SQL on the rows, and shows the asked-for columns of them | 2 threads, 2 INSERTs, 3 places, b of type int32, bool or text |
| `insert_columns` | finding | as `query` |

Why these bounds are enough to meet the cases. Two frames are the fewest with a
pinned page beside a victim and a `flush_all` that stops between frames, and with
three pages every third access evicts. Six pages over three frames fill all
four lists of ARC and move its target over its whole range, and let a sweep of
the clock pass pinned, referenced and idle pages. A page of three bytes has a
first, a middle and a last short transfer; a file may begin with a size that is
no multiple of it, and 2^64 - 1 is the size of two pages, so that the third
overflows. The texts are long enough for an escape at the end of a string, for
`/*/`, for a number with fraction and exponent; the token sequences for an OR of
ANDs, nested parentheses, every constraint after every other, and two rows. Two tuples to a page and
two pages give a scan a page boundary, a full page and a deleted slot. Three rows
of edb_class let an oid be used again. A handle let go without unpin leaves one of
the two frames pinned for ever while the other still evicts. The catalog run follows sessions that
did not close cleanly with one table only, because a bootstrap that is repeated
adds rows without end. In `query` a byte has 16 values, int32 one byte and
int64 two, so that one literal fits only the wider type; the INSERTs hold a NULL,
a negative number given as a string, and a column list in another order.

Fairness is assumed in `page_store` only: a thread inside a page operation goes on
(weak fairness of `Proceed`), and the kernel does not interrupt it, or transfer
nothing, for ever. No error has to happen. Under it every operation returns
(`CallsReturn`). Elsewhere nothing has to happen unless a caller acts: the code
has no thread of its own and no loop that waits. `IdlePagesLeave` states what
one would say as liveness of the clock as a bound on the number of evictions
instead. Liveness of a SELECT beside inserts is not stated: it would hold only
because the model bounds the rows. Deadlock is checked in all runs but
`sql_text`, where the writing of a text comes to an end.

## Proofs

Theorems hold for every value of the constants that satisfies the ASSUMEs of the
modules, which say little: there is a frame, a page has a byte, handles are
finitely many, a column list is a sequence that is not empty, the system tables
have different names, the values that stand for "none" are no members of the sets
they are missing from. A few theorems have a hypothesis of their own, given below.

| Module | Theorem | Says | Inductive invariant |
|---|---|---|---|
| `BufferPoolProofs` | `TypeCorrect` | `TypeOK` | itself |
| | `NoSecondCopy`, `PinsCorrect`, `HandlesCorrect` | `OneFramePerPage`, `PinAccounting`, `HandlesStable` | `PinsInv`, their conjunction and `DroppedResident` |
| | `CleanFramesCorrect` | `CleanFramesMatchFile` | with `PinsInv` |
| | `FlushDurable` | `FlushMakesDurable` | `PoolInv` |
| | `Transparency` | implements `DurablePages` | `PoolInv` |
| `PageStoreProofs` | `TypeCorrect` | `TypeOK` | `TypeInv` |
| | `PageCallsAtomic`, `SoleBackendAtomic` | implements `PageFile` | `FileInv` |
| `SlottedPageProofs` | `SlotsReadBackCorrect`, `RegionsApartCorrect` | `SlotsReadBack`, `RegionsApart` | `PageInv` |
| `HeapEngineProofs` | `TypeCorrect`, `ScansCorrect`, `TupleIdsCorrect` | `TypeOK`, `ScansAreExact`, `TupleIdsAreStable` | `EngineInv` |
| `PoliciesProofs` | `TypeCorrect`, `NeverFullWhileUnpinned`, `IdlePagesAreEvicted`, `ArcMatchesPool` | `TypeOK`, `FullOnlyIfAllPinned`, `IdlePagesLeave`, `ListsMatchPool` | `PoliciesInv` |
| | `UsedPagesAreSpared`, `LeastUsedIsEvicted` | `SecondChance`, `EvictsLeastUsed`: what a step may evict | `PoliciesInv` |
| `CatalogProofs` | `TypeCorrect`, `CachedClassesAreCurrent` | `TypeOK`, `ClassCacheCurrent` | `CatalogInv` |
| | `NoMetadataOutlives`, `ClassesStayUnique`, `CreatedTablesStay` | `NoMetadataWithoutClass`, `ClassesAreUnique`, `CreatedTablesIntact` | `CatalogInv`, its part `CleanInv` |

Buffer pool. None of the parts of `PinsInv` is inductive alone: a hit is
only right if the frame found is the only one, and an eviction only if no handle
is on the victim, which follows from the pin counts. A pin is counted for a live
handle or for one let go without unpin, and the frame of either stays where it is
(`DroppedResident`). For durability `PoolInv`
adds `FileInv`: what the file reads is among what a crash may leave, pages past
the end are zero, and a pool without a store has no valid frame. For the
refinement a page's current value is its frame's, or the file's if it has none:
evictions, write-backs and loads then change nothing, whether they succeed or
tear the page. The last three theorems assume `PartialReads = FALSE`, and need
it: `pool_partial_read` is the counterexample without.

Page store. Every kernel call of a loop is a stuttering step of `PageFile`, and
the call takes effect when it returns. `FileInv` says why that is possible: the
loop of a read holds what the file has, since the contract of `io_ops.hpp` keeps
writers of the page away; a write has changed a prefix of its page and no more;
an allocation still adds the page after the last; bytes past the end are zero.
`PageCallsAtomic` assumes `[]OwnFile`, that each backend reaches only its own
file. Only a close(2) that fails after releasing the descriptor can break it, and
then another backend has to be given the number (see below). The attempt to
prove the refinement without it is what showed the case. A backend that is alone
needs no such assumption (`SoleBackendAtomic`); that is the instance TLC checks.

Heap page and engine. `Formatted` adds to `RegionsApart` that live tuples do not
overlap and that the bytes between `free_end` and the end of the page exist;
without it an overwrite could not be shown to spare its neighbours.
`HeapPageProofs` states once what insert, delete and overwrite do to a page, for
`SlottedPage` and `HeapEngine` alike. A cursor's part of `EngineInv` says that
what was returned lies before the cursor, and that a tuple that is due was
returned or lies ahead. Torn pages need nothing of it: an engine is opened on a
file without one.

Policies. `PoliciesInv` has one invariant for each policy, `ClockInv`, `LruInv` and
`ArcInv`, that holds while that policy is configured, and says of the other two
that nobody has called them. `ClockInv` weighs how often a frame was passed over
against how far the hand has to go to reach it, a turn more if its bit is set.
`LruInv` says that a history is the last uses of its page, and that uses it has
dropped are older and K others are newer: why evictions and trimming do not
matter. `LeastUsedIsEvicted` assumes K # 0; the configuration does not exclude 0,
but then there is no K-th last use. `ArcInv` says that a page occurs in the list
its location names, once, and that the resident lists and frames are those of the
pool.

Catalog. `CatalogInv` was an invariant of the `catalog` instance before it was
proved. Its first part holds always: types, nothing cached or open while the
catalog is closed, the class cache current. Its second, `CleanInv`, holds as long
as every session that opened ended with a successful close and no bootstrap
stopped half way, which is the condition the properties themselves have (`clean`);
an open that failed before it wrote leaves the files as they were. It says of every oid (`Rests`) that without
a class row it has no attribute row, cached columns or open table, and that what create_table promised and nobody tried
to drop is a run of consecutive attribute rows, numbered from 1, with caches and
open table empty or equal to it. "Consecutive" is what makes the proof that
get_attributes sorts them back possible: the n-th of an interval has n - 1
before it. Two facts carry the rest. The oid after the greatest live one belongs
to no class, so by `Rests` to no attribute row, cache or table either, although
it may have been used before. And a clean catalog that is not open has every cell settled
(`AllSettled`: memory and file agree), so that what the next open finds is what
was there. After a session that did not close, only the first part is left, and
`ClassCacheCurrent` rests on it alone.

`Arc`, `HeapPage` and `Catalog` are written so that they can be reasoned about:
`Arc` erases the first occurrence of a page and prunes with a recursive function of
two lengths, bytes of tuples are members of a constant `Byte`, and `Catalog` sorts
columns by counting the rows that come before each. Induction, where a proof needs it (pruning,
the sweep, the first victim from the back of a list), is an argument about a
least element.

Only model-checked:

- `CallsReturn`, the one liveness property: the prover has no rule for fairness.
- `SqlText` and `Query`: `Lexer`, `Parser`, `Lexemes`, `Grammar` and `Expression` use
  recursive operators, and what a recursive definition computes for every input
  needs an induction over data that the provers here cannot make.
- That a system catalog is complete: `catalog_bootstrap` shows that it need not be.

## Where code and documents disagree

Checked by runs that end in a counterexample:

- `buffer_pool.cpp:259`: a read that fails half way leaves another page's bytes
  in a frame that is still valid and clean.
- `heap_engine.cpp:42`: `close` reports success when it is repeated after a
  failure, with pages unwritten.
- `catalog.cpp:219`: a bootstrap that stopped half way is taken for complete.
- `exec.cpp:235`: INSERT binds a column list and then stores the values in the
  order of the statement. With a list in another order the codec refuses the row
  or, where the types agree, the values are in the wrong columns.

Met while modelling, not stated as a run:

- `docs/plan/phase2.md:154`: `~FrameHandle` does not assert that the pin was
  released, and a handle let go without unpin leaves its frame pinned
  (`buffer_pool.cpp:34`; `PinAccounting` counts such pins); `phase2.md:128`: the pool has no lock of its own (its heap engine's
  latch serves).
- `parser.hpp:11-22` and the parser: `NOT` is refused (`parser.cpp:457`), a list in
  parentheses may be empty or end in a comma, a star may stand beside other
  items, and a text without a statement gives an empty vector where
  `parser.hpp:41` says non-empty. `ParsesGrammar` states these departures, and that
  there is no other: `Documented` in `SqlText` is the grammar of the document,
  `Extended` what is accepted beyond it.
- `lexer.cpp:219`: the text of a string literal that is not closed has no closing
  quote; the parser takes its last character for one.
- `posix_io.cpp:80`: when close(2) fails the object keeps its descriptor, open
  cannot get past it, and the number may be given to another file.
- `arc_policy.cpp:139`: making room for a page can prune the ghost entry of the
  same miss.
- `catalog.cpp:692`: the attribute cache keeps the columns of a table whose drop
  failed.
- `exec.cpp:51`: evaluation has two truth values, so a comparison of comparisons
  differs from SQL where an operand is NULL.

## Not modelled

- float64 beyond the text of its literals, hashes and the type registry, output
  column names. The names of types are a parameter of `Query`.
- `peek`, lines and columns of tokens; float literals out of range.
- mmap, datasync and sync_range, which nothing calls, and O_DIRECT.
- The plan trees: a one-to-one rewriting of the bound statement without state.
- The rows of user tables in `Catalog`, and with them a dropped table's rows
  that return under an oid used again; `drop_table` while statements run.
- An engine that is opened on a page a write left half written: there is no checksum,
  and the slot array of such a page may lie in the bytes of its tuples. `HeapEngine`
  follows the file up to the tear, and `BufferPool` and `PageStore` beyond it.
- Two allocations of one page file at a time: `page_store.cpp:74` has no lock, and
  its only caller, the heap engine, holds its latch; `PageStore` serialises them.
- A catalog after a close that failed, but for another close or its destruction.
- Page sizes the heap cannot work with (`heap_engine.cpp:208`), and files of 2^32
  pages, where a scan cursor, which keeps 32 bits of the page id, starts over
  (`heap_engine.cpp:278`).
- The memory LRU-K keeps for pages that left the pool (`lru_k_policy.cpp:39`): the
  code has no limit to state a property against.

## Plan

1. Rows of user tables in `Catalog`, and `drop_table` beside running statements.
2. The engine's sequence of pins over `BufferPool` itself, on its error paths.
