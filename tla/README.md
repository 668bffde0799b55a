# A verification project for librmn: records, and the files and services around them

librmn is the library of numerical weather prediction tools of Environment and
Climate Change Canada. About half of its 600 files are numerical kernels without state.
The rest is a record store with what it needs: *standard files* and *BURP files* are
XDF files (`src/fstd98/xdf98.c`), read and written through word-addressable units
(`src/primitives/c_baseio.c`); fields and reports are packed, compressed and described
by coded keys; and three services (a whiteboard, a memory manager, channels between
programs) keep tables in core and on disk. This project models these.

Paths below are relative to the root of the repository; `src/x` of it is found under
`src/src/x` in `PROJECT.json`.

## 1. Inventory

| component | state | operations | what is hard |
|---|---|---|---|
| **XDF random files** (`src/fstd98/xdf98.c`, `qstdir.h`) | on disk: a header (size, counters, `rwflg`), records, directory pages chained by address. In core: `file_table[]`, each entry with a copy of the header and all pages, `modified` flags | `c_xdfopn`, `c_xdfput`, `c_xdfdel`, `c_xdfget2`, `c_xdfcls` (also the checkpoint `c_fstckp`) | a close is 2 header writes with erasures and page writes in between; six counters kept incrementally in two copies; programs share the file with no lock but `rwflg` |
| **search** (`c_xdfloc2`, `next_match`) | in the same entry: `cur_dir_page`, `cur_entry`, `cur_pageno`, `page_record`, `target` | `fstinf`, `fstinfx`, `fstsui`, `fstinl` | `c_xdfput` uses the first three for itself |
| **tools** (`c_xdfcheck`, `c_qdfdiag`, `c_qdfrstr`) | none | check, diagnose, restore after a death | decide from a header that may be newer than the pages |
| **handles** (`qstdir.h:257-285`) | `STDSEQ_opened` | encode and decode file, page, record in 31 bits | a global changes the decoding; sequential addresses in clusters |
| **linked files** (`c_xdflnk`, `c_xdfunl`) | `link`, `next_page` | search several files as one | page numbers run on across files; pages are freed by the close of their own file |
| **sequential files** (`xdf_seq`) | `cur_addr`, EOF marks, postfixes | write, skip, rewind, append, mark | a mark is overwritten by the next record |
| **word-addressable units** (`c_baseio.c`) | `FGFDT[]`, `wafile[]`, page cache, `free_list` | `fnom`, `fclos`, `waopen`, `waclos`, `waread`, `wawrit` | page eviction, file tails, descriptors the system uses again |
| **standard file layer** (`fstd98.c`) | length flags, tables of ip, masks, image mode, remapping | `fstecr`, `fstluk`, `fstinf`, `fstsui`, `fstinl`, `fstlic`, `fsteff`, `fst_edit_dir` | globals that hold for the next call, or not |
| **missing values** (`fst_missing.c`) | marks, mode, decoders | encode before packing, decode after | extremes, constant fields, signs |
| **filters** (`excdes_new.c`) | table of requests | desire, exclude, group, reset | data of earlier calls stays |
| **BURP** (`burp98.c`) | one report buffer | add, replace, delete, extract blocks | headers move with the data behind |
| **codes** (`convip_plus.f90`, `convert_ip123.f90`, `moduledate.f90`, `xgaig.f90`, `igaxg.f90`) | style of levels, calendar in use | levels, dates, grids to integers and back | tables of steps, shared bits, calendars |
| **packers** (`compact_integer.c`, `float_packer.c`, `c_zfstlib.c`, `armn_compress_32.c`) | level and order of halves of the compressor | pack, compress and back | tokens across words, widths that depend on the data |
| **GMM** (`src/gmm`) | directory of named arrays, pointer tables, restart file | create, get, delete, shuffle, rename, checkpoint, restart | restart before create, cycles of names |
| **Whiteboard** (`src/whiteboard`) | pages of keys with options | put, lock, read directives, checkpoint, reload | options and locking, a directive that fails |
| **MGI over gossip** (`mgilib2.c`, `gossip_sock.c`) | channels | open, write, read | answers on the same stream, a server that dies |
| **grids and interpolation** (`src/interp`, `ez*.c`, `gdrls.c`) | `Grille[]` with chains `gr_list`, a hashed table of pairs per output grid (`gset`), `groptions`, the pair in use | define a grid from memory, a file or two grids, `ezdefset`, `ezsint`, `ezuvint`, `ezwdint`, options, `gdrls` | numbers given again, tables that grow, positions, zones and masks kept from calls made under other options |
| server threads (`gossip_thread.c`), vertical interpolation, base kernels, readlx, spectral, serializer, wrappers | tables of clients; mostly none | | numerical or textual, or outside this repository |

How they interact: a program calls `fnom` (an `FGFDT` entry), then `fstouv`, which asks
`c_xdfopn` for an entry of `file_table` on the same unit. `fstecr` turns a field into a
record: missing values are replaced (`fst_missing.c`), the field is packed and compressed,
its level, date and grid are integers in the keys, and `c_xdfput` stores it. `fstinf` goes
through the tables of ip, the masks and the filters to `c_xdfloc2`. Everything talks to
the disk through `c_waread` and `c_wawrit`; two programs meet on disk, or on a channel of
MGI. There are no callbacks and no threads in this part but those of the MGI server; the
concurrency is that of processes.

What makes each right: the directory in core agrees with its header and with the file
(random files); no session, alive or dead, makes a file that opens for writing without
being whole; a reader never takes something else for a record; a search returns every
record once, and what was asked for; decoding a handle gives back what was encoded; the
page cache is one flat array; a sequential file is a tape; what goes into a record comes
out of it, whatever type, bits, packer and code; tables come back after a death as they
were saved; a call on a channel takes its own answers, and returns; a grid keeps its number and what
it means, and each interpolated value comes from the right part of the right grid. The list of `hazards`
in `PROJECT.json` gives the line each of these can break at.

## 2. What is modelled

### `XdfFile`: one random file and the processes that have it

The disk is three variables: `dhdr` (the header), `dcell` (everything else, one cell
per unit of address) and `dsize`. The entry of `file_table` of each process is `hdr`,
`dir_page`, `npages`, `pmod` (the pages marked modified) and `fmod` (the file's). `pc`
says where the process is: `closed`, `loading` (inside the loop of `c_xdfopn`), `open`,
`flush` (inside `c_xdfcls`), or `refused`: an open that failed and left its entry behind.

| action | code |
|---|---|
| `Create` | `c_xdfopn("CREATE")`, `create_new_xdf`, `add_dir_page(WMODE)` |
| `Open`, `LoadPage` | `c_xdfopn` of an existing file: header and tests, then one action per directory page |
| `PutNew`, `PutMove`, `PutInPlace`, `PutDirFull` | the paths of `c_xdfput`: handle 0; a handle that is negative or of another length; same length; no page left |
| `Delete` | `c_xdfdel` |
| `CloseBegin`, `FlushErase`, `FlushPage`, `CheckpointEnd`, `CloseEnd` | `c_xdfcls`, one action per write |
| `CloseRefused` | `c_xdfcls` on the entry a refused open left |
| `Crash` | the process ends: disk stays, entry vanishes |

Abstractions. A page and a header take one unit each, a record 1 or 2. Keys and data of
a record are one value. A call that returns an error without changing anything is not a
step. The page write and the record write of one `c_xdfput` are one step: both are
beyond the size of the header on disk, where nobody looks until the close. A single
`write` is not torn and the system does not reorder writes. The checksum of a page is not
modelled (it only produces a message), nor are the statistics `neff` and `nrwr`, nor a
file opened in sequential mode. A slot never filled is empty; in the code the second
half of a new page's slots is not cleared (`xdf98.c:232`), which no operation modelled
looks at, but for the off-by-one on record numbers that `Valid` keeps.

`Open` takes any mode in any process: `Writers` are those whose unit is not read-only,
and `fstouv` asks for `R-W` for the others as well.

### `XdfTools`
`Checked` is `c_xdfcheck`, `Diagnosed` is `c_qdfdiag` (the scan from record header to
record header, as a recursive function), `Restore` is `c_qdfrstr`, its output taking the
place of the file. `RestoresFlagged` says whether it is used on a file whose flag is set.

### `RecordStore` and `XdfStore`: the promise, and its refinement
`RecordStore` is what one writer is promised: a session works on a view, a close or a
checkpoint makes the view permanent, a death before either changes nothing and one
later leaves the file locked. `XdfStore` maps the file to it: the view is the live entries
of the writer's directory with the data on disk under them; what is saved is read from
the chain of pages on disk when the flag is clear, and is `locked` when it is not. The
one exception the code makes, and `Overwrite` states, is a record rewritten in place.

### `XdfSearch`
Adds the position of the search to `XdfFile`, with what every call makes of it: `Locate`
is `c_xdfloc2` with `next_match`; `PutAtEnd`, `PutAtHandle`, `PutAtFull` and `PutRefused`
are the assignments `c_xdfput` does to the same variables on each of its paths.
`page_record` may differ from `cur_entry`, as in the code. `last` is a history variable:
the handle the last search returned, forgotten at every put.

### `XdfOneWriter`
The inductive invariants behind the theorems of section 4: `OneWriterInv` for the writer,
`ReadersInv` for what a reader has loaded, `SessionsShadow` for the view of a session, and
`SharedInv`, the three together; `RecordsKept`, an action property; and the assumption
`OneWriterOnly` they need of the constants. It models no code of its own.

### `XdfHandle`, `XdfLink`
`XdfHandle` is the arithmetic of handles with the widths of the code. `XdfLink` has several
files of one program: `lpage` is the pages of each in core, `next_page` the pointer behind
its last one, `link` and `link_list` what `fstlnk` keeps. `LLocate` and `LSui` follow the
walks of `c_xdfloc2` and `next_match` (`StartAt`, `WalkTo`, `NextOfLink`), `TargetPage` that
of `c_xdfget2` and `c_xdfdel`, which differs. A page that was given back is `FREED`.

### `XdfSeq` and `TapeFile`
A sequential file by its addresses: `scell` is what begins at each, `Fstecr`, `Fstweo`,
`Fstrwd`, `FstskpForward`, `FstskpBackward`, `Fstapp`, `Fstinf`, `SGet`, `SDelete` the calls.
`TapeFile` is the tape it stands for: records and marks in order, and a position.

### `WaFile` and `WordFile`
Units (`fgfdt`), slots (`wafile`, found by descriptor), pages and their buffers
(`global_count`, `nfree`), the disk. A request is worked on page by page as in `qqcward`
and `qqcwawr` (`WritePage`, `ReadPage`, `Scrap`); `Direct` is the same without pages. `PagesInCore` are
the pages of a slot, `Flushed` what the disk holds once `wa_pages_flush` has written them.
`says` is what the library says before it stops or refuses. `WordFile` is one array of
words per file.

### `WhiteBoard` and `WbMap`, `Gmm` and `FieldMap`
The pages and lines of the whiteboard, and the directory and pointer tables of the memory
manager, each mapped to a table from names to values with what a checkpoint saves and a
death leaves (`WbMap`, `FieldMap`). One action per call, and `GmmDieInCheckpoint` for
a checkpoint cut short by a death; the whiteboard dies before or after one.

### `Mgi`
Both ends of the channels of a writer and a reader (`pc`, `inbox`): the client's code is
`mgi_open`, `mgi_write`, `mgi_read` with `write_record`, `read_record` and
`get_ack_nack` under them; the server's thread runs the same `write_record` and
`read_record`, its command loop is external (`Command`), and it may die (`ServerDies`),
taking with it any end of what it had sent and the client had not yet read.

### What a record goes through
| module | code | state |
|---|---|---|
| `Excdes` | `excdes_new.c` | `Requests`, and `requested`: what the lists said |
| `FstFind` | searches, tables of ip, masks, edits of `fstd98.c` | entries, tables and flags, mask, position |
| `FstRecord` | `c_fstecr`, `c_fstluk` | length flags, image mode, records by type, bits and packer |
| `MissingValue` | `fst_missing.c` | marks, mode, decoders, one field |
| `Burp` | `burp98.c` over `c_xdfadd`, `c_xdfins`, `c_xdfcut`, `c_xdfrep` | one report buffer, and `reported`: its blocks |
| `Calendar` | `moduledate.f90`, `datec.f` | options, a stamp and what it should be |
| `IpCodes` | `convip_plus.f90`, `convert_ip123.f90` | the style, one question and its answer |
| `GridCodes` | `xgaig.f90`, `igaxg.f90` | one grid |
| `TokenPacker`, `FloatPacker` | `compact_integer.c` with `bitPacking.h`, `float_packer.c` | packed words; one field |
| `Compressor` | `c_zfstlib.c`, `armn_compress_32.c` | level, order of halves, one field |
| `EzGrids`, `EzInterp` | grids and interpolation, `src/interp` | see below |

`EzGrids` has the grids in `Grille`, their chains (`gr_list`), the pair in use (`iset`) and, in each
grid, the hashed table `gset` of the inputs it was paired with and the list `gdin_for` of the
outputs it was paired to. `EzGdefFmem`, `EzGdefFfile`, `EzGdefSupergrid` define a grid, with the two
parts of a Yin-Yang grid and their masks; `EzDefset` is `c_ezdefset` with `c_find_gdin` and the growth
of the table; `EzRelease` is `c_gdrls` with the chain it drops. `held` says which number the
program was given for what. `EzInterp` adds `groptions` and the calls `EzSint`, `EzUvint`,
`EzWdint`, `EzOption`, `EzSetval`, `EzSubgrid`. A value of the result is not a number: it says which
section of the field it comes from, at a position in which grid, with which degree, in which
zone, and by which grids a wind was turned. Where a point lies in a grid is `EzWhere`, a constant of the
model, as are the hash and the axes. A program (`ezprogram`) is an input: the grids, pairs, options
and values it may give, in any order, as often as its bound `calls` allows.

Numbers are scaled down where only their relation matters: words of 4 bits for the token
packer, 3 or 4 bits for integer fields with missing values, reals with 3 bits of exponent and
mantissa for the packers, containers of 2 and 3 bits for the compressor. Levels are decimals
of seven digits, angles integers in hundred thousandths of a degree, dates multiples of 5
seconds, as the code's own units are.

`MCXdf`, `MCXdfSearch`, `MCFiles`, `MCTables` and `MCRecords` are the instances TLC checks.
The last three put modules side by side: `part` says which of them moves in a behaviour, the
others stay as they began. They share no variable, except that the parts `xdf` and `search` of
`MCFiles` are two uses of the same XDF file, each with its own bounds. Operators marked `\* mutant` are
altered copies of the definition below them, used only to see a property fail.

## 3. What the runs check

Bounds are the constants of each `.cfg`. For XDF files `ENTRIES_PER_PAGE` is 1 or 2 and
`MAX_DIR_PAGES` 2, so that pages overflow. The directory fills up in `readers` (two records) and in the
searches of `files` (four, `MaxAddr` 7); in `crash` `MaxAddr`, the last address, ends before that. Lengths 1 and 2 make a
rewrite move or stay; two contents tell an old record from a new one. `MaxPageno` bounds
`cur_pageno`, which otherwise grows for ever (see *stale_handle*). `MCFiles` bounds the file that is
searched to records of one unit and one content, none erased on disk once there is a fourth (`SearchBound`),
and keeps the last unit from the sessions without searches (`XdfBound`). Sessions are not
bounded: a run covers any number of opens, crashes, closes and restores. For word files, two
units, two files, two pages and two slots, so that each table is full; `SMaxAddr` 13 gives
room for three or four records and marks of a sequential file, with a cluster limit among
them. Three linked files, one of two pages. Three keys and three fields: one of them larger
than a page of the whiteboard, cycles of two and three names. Two records on a channel of one
retry. `Records.cfg` and `MCRecords` name the inputs of each part: ends of ranges, values
between two codes, signs, constant and repeated fields, leap days and the ends of calendars.
`MaxSteps`, `FMaxWritten`, `MaxChanges`, `MaxBlocks`, `MaxPacked`, `MaxPasses` bound how often a
part changes what it has; two is enough for what one call leaves to the next. Five programs
interpolate, with 7 calls each, or 8 where two Yin-Yang grids are paired: enough to define two
grids, interpolate, change an option, interpolate again, pair a third and come back. `EzMaxGrids` 9 is the most grids
these hold (a Yin-Yang grid takes up to five), and `EzPrimes` 7 and 13, in place of 127 and 251,
let the third pair of a grid make its table grow.

| run | instance | shows |
|---|---|---|
| `crash` | 1 writer that may die at any write, restores in between | `WriterConsistent`: header, pages and file agree in core. `OpenableIsConsistent`: a file without flag is whole. `CheckedIsDiagnosed`: for such a file the cheap check is as good as the scan. `RestoresOriginal`: `c_qdfrstr` gives a whole file. `ImplementsStore`: `XdfFile` refines `RecordStore` |
| `readers` | a writer that may die, a reader that also closes refused units | `ReadersSeeRecords`: all the reader finds are records. `FlagClearedByOwner`. `SharedInv`, the invariant of the proofs, with a reader in every state of its own |
| `files` | XDF sessions without a death; one that searches; units and pages; a sequential file | `WriterReadsBack`, `ClosedIsSound`; `SearchFindsFirst`; `ImplementsWords`: the cache is a flat array, `BuffersConserved`, `RefusedWhenFull`, `SurvivesWithOnePage`; `ImplementsTape` |
| `tables` | linked files; whiteboard; memory manager; channels | `LinkedSearchFindsNext`, `HandleStaysWithRecord`, `FollowsNoFreedPage`; `ImplementsMap`, `PagesFit`; `ImplementsFields`; `InStep`, `MgiDelivers`, `EveryCallReturns` |
| `records` | the modules of the table above | one property each: what comes back, or is found, is what went in, or was asked for; `GridsStayDefined`: a number goes on meaning its grid; `InterpolatesFromItsParts`: what is kept from earlier calls is never used for another pair, zone or part; `PairAndOptionsKept`: an interpolation leaves both as it found them |

Seven more runs look for, and find, the violation of something the repository says of the
program (`findings` in `PROJECT.json` quote the lines):

- `two_writers`: `rwflg` is tested on disk but set in core, so it stops nobody until the
  first flush; `OneWriter` fails.
- `chain`: the test for a chain of pages that is too short compares with 0 a number that
  is -1 at the end of the chain.
- `refused`: closing a unit whose open was refused clears the flag of the session that
  holds the file.
- `restore_flag`: `c_qdfrstr` of such a file gives one that opens and is not whole. With
  `RestoresFlagged` false (run `crash`) it keeps its promise.
- `stale_handle`: a search continued after a put returns a handle with the wrong page.
- `missing`: the first point of a field never becomes a missing point again.
- `filter_grid`: a request on `ig4` is compared with the `ig2` of a record. `FilterMeansRequests` holds for
  all other criteria (run `records`).

So the runs that pass say precisely under what conditions the file is safe: one writer at
a time, refused units not closed by programs that may write, `c_qdfrstr` used on files
without flag, searches restarted after a put.

**Fairness.** `EveryCallReturns` is the one liveness property: calls of `XdfFile` and of the
others wait for nobody. A call on a channel waits for the other end, and returns under weak
fairness of the steps a client takes *within a call* and of the steps of the server's
thread of that connection. Neither has to begin a call, to write a record, or to die: the
property names the one state in which a read may wait for ever, that of a live server with
no record to give. Each end is a process of its own that blocks only in a read of its
socket, which the system wakes when there is something or the other end is gone; so each
enabled step stays enabled until taken, and weak fairness is enough. A server that stops
without closing its connections is outside of that: see section 6.

Deadlock is not checked where a process may have nothing to do (a unit refused for
good, a full directory, the bound of a part reached).

## 4. What is proved

`XdfFile_proofs`, checked by TLAPS, proves `TypeInvariant`: `Spec => []TypeOK`, for every
number of processes, pages, slots and lengths, every bound, crashes or not, and also with
several writers. It assumes only `ConstAssumption` of `XdfFile`. `TypeOK` alone is not
inductive: the page a record goes to is number `npages - 1` when it has room, and nothing
in the types makes it exist. The invariant is `TypeOK /\ HasPage`, `HasPage` saying that a
process that has the file open has at least one page. There is one lemma per action for
`TypeOK`, then `TypeStep` and `HasPageStep` collect them.

`FlagKept` proves `FlagClearedByOwner` (run `readers`) for any number of processes: a
session's flag stays on disk until a session that writes closes the file, however the
others open, refuse, search, close or die. It assumes `ClosesRefused \cap Writers = {}`, no
program that may write closes a unit whose open was refused; run `refused` is the
counterexample without it. The creation of a file also writes a header without flag, so
the proof needs the invariant `HasHeader`: a header of 0 units has no flag, and no process
that has the file open has such a header.

With the invariant of `XdfOneWriter`, `XdfFile_proofs` proves `WriterStaysConsistent` (`Spec => []WriterConsistent`) and
`OpenableStaysConsistent` (`Spec => []OpenableIsConsistent`) for every number of readers,
pages, slots and lengths, with crashes. Both assume `OneWriterOnly`: at most one process
writes, and it closes no unit whose open was refused. The code enforces neither, as runs
`two_writers` and `refused` show; they are what a user of the library has to respect.

Neither property is inductive, nor are both together. `OneWriterInv` adds what carries
one session over to the next:

- `SessionInv`: each page in core is the one on disk at its address, or is marked modified
  in a file marked modified (`Imaged`). Without it a close could leave a page behind. While
  the flag on disk is clear, the header in core announces at least what the one on disk
  does: all that is put lies where the directory on disk does not reach. And no page is
  written before the flag is (`pc = "flush"`).
- `LoadingInv`: an opening for writing has read the beginning of the chain of a whole
  directory, and its next address is that of the next page. The last page then makes the
  directory in core consistent.
- `SelfAddressed`: a page on disk bears its own address, which is how `c_xdfcls` finds
  where to write it.
- `SizesKnown`, `EntriesClean`: no header announces more than the file holds; only a session
  that writes has anything to flush.

The argument goes one action at a time, `XStep` for action `X`. Steps in core need only
the lemmas about directories of `XdfFile_proofs`: a page more (`GrowWellFormed`), a
record more (`AddWellFormed`), an entry replaced or deleted (`ReplacedEntry`,
`MarkedWellFormed`). Writes beyond the announced size and rewrites of a record in place
keep the directory on disk (`ChainKept`); a write of the flag makes it irrelevant; and the
header write at the end of a close brings the directory in core, by then equal to its
image, to disk (`CloseEndStep`). `OthersKept` says that a reader's step disturbs nobody.

`XdfSearch_proofs` also proves `RndHandleRoundTrip` and `SeqHandleRoundTrip`: decoding gives back
what was encoded, for every page, record and index of the widths of the code, and for every
address that is aligned to its cluster and not beyond the 22 bits of the largest; and
`PutAligns`: the address `c_xdfput` gives the next record is aligned, and not before the end
of this one. `PutAligns` rests on `ClusterAssumption`: the limits of the clusters are
multiples of their sizes, as 32, 128 and 512 MB are. No state is involved, so there is no
invariant; together they say why `Fstecr` of `XdfSeq` may use the handle of any record.

### Readers, and the promise to the writer

`XdfFile_proofs` also proves `ReadersAlwaysSeeRecords` (`ReadersSeeRecords`, run `readers`): every
entry in use among the pages a reader has loaded, however long ago, points at a record of the
length the entry says. A reader's pages are never refreshed, so nothing about the chain on disk
helps. What does is the action property `RecordsKept` (theorem `RecordsStay`): the announced
size never shrinks, and no step of any process, a death included, gives a unit of a record
below it to something else. Records move, are deleted and are rewritten in place, but their
space is never used again. `ReadersInv` carries it: each entry in any page on disk, whether a
chain leads to it or not, is that of a whole record below the announced size
(`PagesSound`); so is each entry a reader holds (`ReadersSound`), as nothing below that size
changes its place; and a session announces at least what the disk does (`WritersAhead`).

`XdfTools_proofs` proves the refinement: `StoreImplemented` (`ImplementsStore`, run `crash`)
for every number of readers, pages, slots and lengths, with deaths between any two writes. The
initial states map to initial states of `RecordStore`; `Create` to `Create`; the last
`LoadPage` of a writer to `Begin` of what was saved; puts, moves, rewrites and deletions to
`Add`, `Move`, `Overwrite` and `Remove` on the view; the first write of a close or a checkpoint
to `Lock`, the last header write of a close to `Close`; a `Crash` of the writer to `Die`; all
other steps, the end of a checkpoint and a reader's among them, to a stutter. The mapping reads
the disk, so each lemma has to say what a write leaves alone: that is `RecordsKept` again, and
`SessionsShadow`: as long as the flag is clear, each entry on disk is in core too, at the same
handle and with the same record under it, and what is in core only lies beyond the announced
size. Without it a put could change what a death would leave.
`WriterAlwaysReadsBack` (`WriterReadsBack`, run `files`) is the same for a writer that never
dies, and `SharedStays` says that the invariant of the three, `SharedInv`, always holds.

### Tools

`XdfTools_proofs` also proves `CheckedStaysDiagnosed` (`CheckedIsDiagnosed`), `RestoreRestores`
(`RestoresOriginal`) and `ClosedStaysSound` (`ClosedIsSound`), for any number of readers, pages,
slots, records and lengths, all under `OneWriterOnly`. The first two hold with deaths, and assume that
`c_qdfrstr` is kept for files without a flag (`~RestoresFlagged`, as in the runs with one writer; run
`restore_flag` is the counterexample without it); the third assumes that no process dies.

`c_qdfdiag` does not read the directory: it goes from record header to record header, and stops
at the first unit that has none. Its counts agree with the header only if nothing lies between
records. `TilesInv` says so: every unit behind the header, up to the announced size, is
a page of the directory or belongs to a record an entry speaks of (`Tiled`), in a session and
on the chain on disk; a record header is erased exactly where its entry is (`Typed`), an entry
marked deleted is in core only (`PagesUndeleted`), and no record is empty (`RecordsLong`).
Together with `OneWriterInv`, which says that records do not overlap and that the header counts
those of its directory, it is inductive; each action has its lemma, collected in `TilesStep`. A
record that was moved or deleted keeps its units and its entry: the close erases its header in
the step that erases the entry, so there is never a hole, and never one without the other.

The scan is a recursive function, and the induction over the file is made by the largest
address where a statement fails: `ScanExists` and `ScanFound` give its recursion, `AllScanned` says that the scan from
any record on counts what lies behind it, and `TiledDiagnosed` that from the first it counts the
directory. `RestoreStep` says that the copy keeps the invariant: all that is cut off lies
beyond the announced size. `Settled` follows the size of the file when nobody dies: a session
keeps it as its header in core says, and the last write of a close puts that header on disk.

### Searches

`XdfSearch_proofs` proves `SearchesFindFirst` (`SearchFindsFirst`, run `files`) for any
processes, writers, pages, slots and keys, without an assumption on who writes: what a search
says is about the directory its process has loaded. `SearchFindsFirst` alone is not inductive,
as `c_xdfloc2` may go on from where the last search stopped. `SearchInv` adds `GoesOn`: between
two searches the position in the file table is the one behind the handle returned last, and the
target keys are still those of that search. The puts, the deletions, the closes and the
openings between them either leave both or forget both.

### Linked files

`XdfLink_proofs` proves `NothingFreedIsFollowed` (`FollowsNoFreedPage`) and
`HandlesStayInLinks` (`HandleStaysWithRecord`) for any files, sizes and lists, and `SearchesFindNext`. The first needs
`LinkInv`: the last page of a file leads to another only while `link` says so and both are
open (`LinksOpen`); a program that unlinks before it closes keeps that, and the code asks
nothing less of it. The second assumes `~PutsLinked`, see section 6. Page numbers of linked files are
counted on over the end of each file and are kept in handles and in the position of a search, so the
invariant is about both: `HeldFound` says that the number in the handle that is held leads to its record,
and so does the number in the position, as long as the search may go on behind that record.

What a step does to a number is a matter of walks: `Ahead` is a recursive function, and all
that is used of it is that walks of every length exist (`WalkExists`), that two agree as far as
both go (`WalkUnique`) and therefore go page by page (`AheadStep`), each by a least
counterexample. `NumberAhead` counts numbers along a walk, over the end of a file too, which is what
`next_match` and `c_xdfloc2` do; `NumberKept` says that a step keeps what a number designates
when it keeps the lengths of the files that lead on and where they lead, and adds pages
only behind a page that leads nowhere.

`SearchesFindNext` (`LinkedSearchFindsNext`) needs no assumption: a page put in a linked file drops
the files behind it, and the searches that begin after it see one directory less. A search begun with a
page number begins at that page (`StartReaches`), because the walk of `c_xdfloc2`, which
stops when half of what it was asked for is walked, is right for one page and for two
(`WalkReaches`). One that goes on from the last one begins at the position of its file, which
`c_xdfput` and `c_xdfcls` change as well; `HeldAt` says that as long as the entry there is
the one behind the record held, so are page and record number.

### Page cache and units

`WaFile_proofs` proves of `WaFile`, for any units, files, slots, pages and `WA_CONFIG`:

- `BuffersStayConserved` (`BuffersConserved`): every buffer is free or holds one page, no more
  are allocated than the limit, no file has more than its share. `WaInv` adds to it the types,
  that the descriptors in use are those of the open units and a file is on one unit
  (`Connected`), and that a slot that is free has no pages and a request works for a unit
  that has a slot (`Cached`): without that a slot could be taken over with its pages.
- `RefusedOnlyWhenFull` (`RefusedWhenFull`), with `~FclosesOpen`: slots are found again by
  descriptor, and the system gives a descriptor to another file as soon as one is closed.
  `SlotsMatch` says that each open unit has one slot with its descriptor, and that all
  other slots have none. When `fclos` forgets an open unit this is false, and the slot is lost.
- `NeverStoppedWithOnePage` (`SurvivesWithOnePage`), with `~FclosesOpen` and one page to a file:
  no request stops the program. The request is worked on page by page, with the size of the
  file read before and compared after; `OnePage` (`SizeRight`) says that the size in `FGFDT` is that
  of the file once its page is written (`Flushed`), in the middle of a request too, and that a
  request to write goes on no further than one word behind it.

`FclosesOpen` is false in the run that checks the last two; the code keeps the slot and the
unwritten pages of such a unit, see section 6.

### Channels

`Mgi_proofs` proves `ChannelsStayInStep` (`InStep`) and `RecordsDelivered` (`MgiDelivers`)
for every script of records, number of retries, interleaving of writer, reader and server, and
death of the server of either connection. A write is answered three times and a read twice on one
stream, and the client looks at few of the answers. `MgiInv` says of each connection whose
server lives exactly what is on the stream, both ways, at each pair of positions of client and
server (`WriteInStep`, `ReadInStep`). A death cuts what is on its way; `WriteTaken` and
`ReadTaken` say what the client may then find, which is a beginning of the same. `Flow` counts
the records: those read, the one the reader is at (`Held`), those stored and the one being
written (`Begun`) follow each other in the script.

### Whiteboard

`WhiteBoard_proofs` assumes `WbAssumption` of `WhiteBoard`: a key takes at least one line, a page
has at least one, and puts and directives are about declared keys. `WbPagesFit` (`PagesFit`) holds for
any keys, sizes and files, also when a program puts keys before it names its checkpoint. `PagesFit`
alone is not inductive: a key of more than `WB_MAXLINESPERPAGE` lines is alone on its page only
because that page has no line left, and what a restart loads is what a checkpoint left in the file.
`ChainInv` says both (`PageOK`, `CkptOK`).

`WbImplementsMap` (`ImplementsMap`) is the refinement of `WbMap`, under `WbInitFirst`: without it
a put loads the checkpoint behind a search that found nothing, and its key is there twice (section
6). `MapInv` adds to `ChainInv` that no name has two lines, in the chain or in the file
(`Unique`). Then the order of the pages, which a restart reverses, does not matter to a search
(`ReverseBoard`), and each operation is one on the entry of a name: there is one lemma per action
(`PutMaps`, `LockMaps`, `StartMaps`, `ReadMaps`, `SaveMaps`, `DieMaps`). A lock pass stops at the first key without a
value; `ReachedNames` says that the keys before it are a set the map allows. A directive file is a
fold over its lines, on both levels: `FoldExists` and `FoldSteps` turn one into a function of the
steps done so far, by a least counterexample, and `ReadMaps` compares the two line by line.

### Fields of a standard file

`FstRecord_proofs` proves `FieldsReadBack` (`FieldReadsBack`) for every request and every table of
types to remap; the run has some of each. A reader has only the keys of the record and the length the
program declares, so the proof follows a type through the writer and back. `StoredIs` says which
types and bits go together when `StoredType` is done with a request (`BitsOK`: 16 bits at most
before a second stage and in type 6), whatever the table says (`RemappedType`). `PackedAs` says what the
packers make of each type; `PackedWanted` that the reader expects just that, and `PackedTyped`
that a copy, which sends the keys through `StoredType` again, keeps them (`CopyStays`). The
invariant is `FstRecInv`: the keys and data of a record are those, or its data are among what a copy
loses (`RecOK`). Working the proof out added cases to `LosesData` and `CopyLoses` that the requests of the
run did not have; it has them now.

### Model-checked only

The refinements of `TapeFile`, `WordFile` and `FieldMap`, and every property of run `records` but
`FieldReadsBack`.

Not provable with this prover and left to TLC for good: `EveryCallReturns`, and what recursive
definitions compute for every input: the sums and folds of the packers.
Where a function goes down to an address or a number, it can be had without induction over
data: `WFMin` of the library gives a least counterexample. This is how `XdfTools_proofs` treats
the scan, `XdfLink_proofs` walks, and how `WaFile_proofs` shows that the function behind
`Flushed` exists.

## 5. Plan

Done: `XdfFile`, `XdfTools`, `RecordStore`, `XdfStore`, `XdfSearch`, `XdfOneWriter`, `XdfHandle`, `XdfLink`, `XdfSeq`, `WaFile`, `WhiteBoard`, `Gmm`, `Mgi`, and
the modules of what a record goes through, `EzGrids` and `EzInterp` among them; the proofs of section 4.

To prove next: the refinement of `FieldMap` by `Gmm`.

## 6. Not modelled, and why

The kernels of interpolation (positions, weights, coefficients), vertical interpolation, FFT,
sorts, statistics, spectral transforms, the serializer: floating point or buffer copies, no state a model would explore. `readlx` and the command line:
parsers of text. Operating system wrappers and checksums: bindings and tables.
`gossip_thread.c` serves commands of a program outside this repository; its table of clients
is a hazard without property. `PROJECT.json` lists every component with its status.

What is left out of modelled components, because no property holds of it or nothing that is
said of it could be checked. Each is what the code does, seen while it was modelled:

- **Page cache with more than one page to a file.** The test for overlapping pages
  (`c_baseio.c:2073-2083`) compares any two, and ends the program on the first read that finds
  two pages in core. `ImplementsWords` is about what is read before that;
  `SurvivesWithOnePage` is about the default. A request whose first word is a multiple of the
  page size is not given to the run (`Adrs`): the first word of its page is computed one page
  too far (`c_baseio.c:2040`, `c_baseio.c:2152`), and the word read or written is the one
  before the buffer. `Wa0`, `ReadPage` and `WritePage` say so (what is read is `Junk`, what is
  written is lost), `ImplementsWords` fails as soon as `Adrs` holds such an address and no
  other page holds the word, and the theorems of `WaFile_proofs` hold with it. `fclos` of a unit that is still open for words
  (`c_baseio.c:1902`) keeps its slot and its pages: `FclosesOpen` is off.
- **Linked files.** A put that adds a page to a linked file drops the files behind it:
  `PutsLinked` is off. From three pages behind (`xdf98.c:1734`), and on the page the search
  stands on (`xdf98.c:1747`), `c_xdfloc2` loses its way: `LinkedSearchFindsNext` leaves out
  those searches (`far`). A deletion through a linked handle is counted in the header of the
  first file (`xdf98.c:1086`).
- **Sequential files.** A search ends at a deleted record (`xdf98.c:3335-3341`), which
  `TapeFile` says too; a session that created its file cannot rewind behind its header
  (`RewindsCreated` is off).
- **Whiteboard.** A checkpoint cut short is not given to a reload, whose loop would not end
  (`WhiteBoard_c.c:1747-1760`); a put before any other call after a restart duplicates its key
  (`WbInitFirst`); the lock pass of a reload stops at a key without a value, and a failed
  directive leaves what it changed, as `WbMap` says.
- **Memory manager.** A field created before the restart is read has two entries after it;
  deleted entries are never used again, so the 2049th creation ends the program; types are
  never compared. Cycles of `gmm_shuffle` of which a name is missing are not given
  (`GWholeCycles`).
- **Channels.** The result of `select` is not looked at (`gossip_sock.c:1513-1530`), and the
  socket is blocking again after it is opened (`gossip_sock.c:704`): a call on a server
  that has stalled does not return, whatever the time-out. A retry of `mgi_open` always asks to
  write (`mgilib2.c:416`). A read of a record of the wrong length leaves words on the stream.
- **Filters.** A range of ip that is open at one end takes the record's own value there, but
  kinds must match (`excdes_new.c:974-990`); dates refused leave a criterion without values,
  which matches everything (`BadDates`); what is asked of `ig4` is compared with `ig2`
  (`excdes_new.c:1088`), which `MatchSuppl` does too and `MCAsk` of run `records` does not ask.
- **Reports.** The room checks of `c_xdfins` and `c_xdfadd` count the header of the buffer as
  room, and a failed insertion is not noticed by `c_mrbrep`: the buffer is taken to have room.
- **Fields.** The second stage of a type that is refused by the compressor drops the missing
  flag; bytes with 1 to 7 bits are read with 8. Reals of more than 32 bits sent by a table to type 133, which
  has 32, and fields it sends to another kind of values; fields with missing points and `npak` 0 or 1
  become raw data, in which no missing points are put back (`fst_missing.c:1611`). A copy in image mode
  loses complex fields, which have twice the bits of their keys, and characters of fewer than 8
  bits, which are packed in 8. `LosesData` and `CopyLoses` name all of them; see also `Suits`.
- **Missing values.** A field of reals of 32 bits is not encoded (the call is behind a
  `return`, `fst_missing.c:1509-1514`); values without room above them (`HasRoom`).
- **Searches.** Tables of ip2 or ip3 are looked at only when there is one of ip1
  (`fstd98.c:1825-1837`); a full table of ip1 continues in that of ip2.
- **Dates.** In the 365 day calendar, an addition that ends half an hour before the leap day
  loses a day when rounded to the hour; below 1980 a fraction of an hour gives the stamp of an
  error. `DatesFollowCalendar` is about additions that are exact.
- **Level codes.** `LostByOldStyle` names the pressures and heights the old style loses. Kind 17 is
  coded as a negative value, for which the limit is 48000 in place of 1000000
  (`convip_plus.f90:168-191`): above 4.8e8 `convip` gives -1, although its header has the kind go to 1.0e10
  (`LostByNewStyle`). A
  range that ends at 0 mb decodes as a level and a time, with the status of a guess; an
  encoder that refuses is not noticed. `CodesComeBack` is about answers that report neither an
  error nor a guess.
- **Grids.** An angle below -180 or above 360 degrees is lost in the new polar style
  (`AngleLost`). The projection under it is a constant of the model.
- **Grids and interpolation.** Left out: inputs of type `#` and `Y`, whose weights are kept in a
  way of their own; averages, which are only said between plain grids; the interpolation of a
  Yin-Yang grid to itself. The value of extrapolation is lost when a mask of a Yin-Yang grid is
  interpolated under another extrapolation, and masks are computed as if the polar correction were on.
  `EzNoLoop`: `c_ez_findgrid` does not advance when two keys of one chain differ in `igref` only, and
  never returns. `EzSizesHashed`: the sizes of two Yin-Yang grids are compared before they are known,
  and only their hash tells them apart. One that is not found by its `ref` is compared as any other grid,
  which the run, with one `ref`, does not meet. `EzReleasable` says which grids a program releases: one
  held twice, the last, or all: `gdrls.c:73` drops the whole chain of a grid, and its number may be given again only at the
  end of the table. Grids numbered from 127 on are not reached: `c_find_gdin` looks first at the
  place for the smallest table (`ez_find_gdin.c:22`), from the last place of which it goes on behind
  the table (`ez_find_gdin.c:27`; `EzFindIn` takes that for a free place, and no state of the run comes there), and `c_ezdefset` keeps a grid number where
  `c_find_gdin` takes a place (`ezdefset.c:109`). A grid given by memory and by file has two numbers.
- **Packers.** `Fits`, `Bogus` and `Spoiled` name the arrays that do not come back: tokens of no
  bits under a header, ranges of a whole word, values too small to be told from zero next to
  others that are. A field compressed with one order of halves and read with the other has
  them exchanged.

## 7. Running

    tlc -workers 2 -config Xdf_crash.cfg MCXdf
    tlc -workers 2 -config Files.cfg MCFiles
    tlc -workers 2 -config Tables.cfg MCTables
    tlc -workers 2 -config Records.cfg MCRecords
    tlapm XdfFile_proofs.tla
    tlapm XdfSearch_proofs.tla
    tlapm XdfLink_proofs.tla
    tlapm WaFile_proofs.tla
    tlapm Mgi_proofs.tla
    tlapm XdfTools_proofs.tla
    tlapm WhiteBoard_proofs.tla
    tlapm FstRecord_proofs.tla

`XdfFile_proofs` also holds the lemmas about directories that others extend. Each run ends within four
minutes on two cores; each module's proofs take less than ten.
