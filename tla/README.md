# A TLA+ verification of the Vstr string library

Vstr is a C library for strings that are lists of nodes instead of one block of
memory: data can be copied in, added by reference, deleted and written out with
`writev()` without being moved.  The repository also holds, as examples, network
programs built on it, with an event loop of their own.  This directory holds
TLA+ modules translated from the source, TLC models of them, and TLAPS proofs.
Paths in the text are relative to the repository (`src/vstr.c`,
`include/vstr-inline.h`, `examples/evnt.c`).

The library is sequential.  What is hard in it is different: one string is
described by a list of nodes **and** by three caches kept in step by hand;
memory may run out between any two steps of a call; objects (references,
exported nodes, configurations) are shared by counts, so that they are released
in an order the caller chooses; callbacks change the string or the table that
calls them; and algorithms on bytes are written over nodes that cut the bytes
anywhere.  The example programs add what a server adds: peers and a kernel that
may do anything at any time, and callbacks that free what a loop stands on.

## 1. Inventory

| Part | State | Operations | Hard part |
| --- | --- | --- | --- |
| references and reference groups (`vstr_ref.c`) | count and callback of a `Vstr_ref`; blocks of 42 slots with `make_num`, `free_num` and a flag | add, del, take a slot, give a block up | a callback that frees its own block's owner |
| node list (`vstr_add.c`, `vstr_del.c`, `vstr.c`) | nodes BUF, NON, PTR, REF; `used`, `len`, `num`, end, type flags; spare nodes in the configuration | add, delete, split, make and free spares | failure after a split; `used` |
| position cache (`vstr_cache.c`, inline) | a node, its position, its number | look up, callback on add and delete | pointer to a node that goes away |
| iovec cache (`vstr_cache.c`, `vstr_add.c`, `vstr_del.c`) | arrays, size, offset, `iovec_upto_date` | build, extend, shorten, reset | four places maintain it by hand |
| sub, mov, copy, iovec adds, file reads and writes (`vstr_sub.c`, `vstr_mov.c`, `vstr_add.c`, `vstr_sc_posix.c`) | none of their own | composed of adds, deletes and in-place changes | undo after a failure; caches of two strings |
| C string cache (`vstr_cstr.c`, `vstr_cache.c`) | reference to a buffer, offset, position, length, size | export, callback, copy to another string | a buffer shared with users and strings, and overwritten |
| configurations (`vstr.c`, `vstr_cntl.c`) | `ref`, `user_ref`, buffer size, allocation type, spare strings, links of exported nodes, the default | make, free, get, set default, init, exit, swap, options | who keeps what alive |
| exported nodes (`vstr.c`) | BUF nodes that became references, blocks of links | export, late release | the configuration changed or went in between |
| user caches (`vstr_cache.c`) | callbacks of a configuration, data of a string | add, set, free, move a string | data and callback are matched by index |
| user data (`vstr_data.c`) | table of named references | add, delete, set, search | holes |
| user formatters, formats (`vstr_fmt.c`, `vstr_add_fmt.c`) | a hash or a list of names, `fmt_name_max`, a pool of specs | add, delete, look up, three passes over a format | formatters that format into the same string; failure in the third pass |
| layout of numbers and objects (`vstr_add_fmt.c`, `vstr_sc.c`) | none | width, precision, flags, grouping | a length announced before the object is printed |
| sections and split (`vstr_sect.c`, `vstr_split.c`) | arrays of positions, a cache entry that follows the string | add, delete, update, go through, split | callbacks that delete what is gone through; limits |
| search, span, compare, parse (`vstr_srch*.c`, `vstr_spn.c`, `vstr_cmp.c`, `vstr_parse*.c`) | none | pure functions over the nodes | node boundaries, backward walks, overflow |
| netstrings (`vstr_add_netstr.c`) | two positions | begin, end | length written after the data |
| event loop (`examples/evnt.c`, `opt_serv.c`) | queues of events, a poll or epoll set, a "send now" list, timers, the listener | poll, scan, send, time out, accept, close | callbacks move and free events during a scan |
| servers and client (`ex_echod.c`, `httpd.c`, `ex_httpd.c`, `ex_cntl.c`) | input, output, the file that is sent, what is owed | the callbacks of an event | a connection that waits for nothing; answers out of step |
| conversion, locale, portability, other examples | — | tables of characters, C library calls | not modelled |

The parts meet in these places.  An add or a delete calls the caches' callbacks
and edits the iovec arrays itself.  A BUF node that is exported becomes a REF
node whose release returns the node to its configuration through a block of
links, which is allocated as a slot of a reference group owned by that
configuration.  A string, a link block and a handle each hold one reference to a
configuration; when the last goes the configuration gives up its groups, spare
nodes and spare strings.  A split adds to the array of a `Vstr_sects`, and the
parser of IPv6 addresses is built on it.  A formatter announces its length to
`vstr_sc_fmt_cb_beg()`, and the interpreter of formats calls it in the middle of
its own third pass.  The event loop calls the programs' callbacks, which call
back into its queues.

`PROJECT.json` lists every part with what is modelled, and the hazards: each
place where an order of events, a failure or a stale value could do harm, with
the properties that would notice.

## 2. Modules

| Module | What it is | Code |
| --- | --- | --- |
| `VstrRefGrp`, `VstrRefGrpProofs` | groups of references; the theorems about them | `vstr_ref.c`, `vstr-inline.h` |
| `VstrAbs` | what a string promises: sequences of bytes, and calls that edit them or fail | `Documentation/functions.txt` |
| `VstrNodes` | one string, its nodes, spare nodes, position and iovec cache; implements `VstrAbs` | `vstr_add.c`, `vstr_del.c`, `vstr_cache.c`, `vstr.c`, inline functions |
| `VstrOps` | two strings: substitution, moving, copying, reading and writing; extends `VstrNodes`, implements `VstrAbs` | `vstr_sub.c`, `vstr_mov.c`, `vstr_add.c`, `vstr_sc_posix.c`, `vstr.c` |
| `VstrCstr` | the C string cache of several strings | `vstr_cstr.c`, `vstr_cache.c`, `vstr_export.c`, `vstr_sub.c` |
| `VstrConf` | configurations, strings, spares, exported nodes, user caches | `vstr.c`, `vstr_cntl.c`, `vstr_cache.c` |
| `VstrData` | user data of a configuration | `vstr_data.c` |
| `VstrFmt` | user formatters and the interpreter of formats | `vstr_fmt.c`, `vstr_add_fmt.c` |
| `VstrSects` | sections, their update, going through them, split | `vstr_sect.c`, `vstr_split.c` |
| `VstrSrch` | searching, spanning and comparing over nodes | `vstr_srch.c`, `vstr_srch_case.c`, `vstr_spn.c`, `vstr_cmp.c` |
| `VstrParse` | numbers and netstrings; extends `VstrSrch` | `vstr_parse.c`, `vstr_parse_netstr.c`, `vstr_add_netstr.c` |
| `VstrLayout` | layout of printed numbers, sizes and addresses | `vstr_add_fmt.c`, `vstr_sc.c` |
| `VstrIp` | parsing of addresses; extends `VstrParse`, `VstrLayout` | `vstr_parse.c` |
| `VstrText` | the strings the last four are asked about, and what they should answer | |
| `VstrEvnt` | events and queues | `evnt.c` |
| `VstrEvntApp` | the callbacks of the programs; extends `VstrEvnt` | `ex_echod.c`, `httpd.c`, `ex_httpd.c`, `ex_cntl.c` |
| `VstrEvntLoop` | the main loop, timers, peers; extends `VstrEvntApp` | `evnt.c`, `opt_serv.c` |
| `VstrHttpd` | what the HTTP server answers on a connection | `httpd.c` |
| `VstrFacts` | facts about numbers, finite sets, sequences and loops that the proofs share | |
| `VstrNodesProofs`, `VstrDataProofs`, `VstrConfProofs`, `VstrCstrProofs`, `VstrSectsProofs`, `VstrHttpdProofs` | the theorems about `VstrNodes` (that it implements `VstrAbs` among them), `VstrData`, `VstrConf`, `VstrCstr`, `VstrSects`, `VstrHttpd` | |
| `MC*` | constants, symmetry, views and bounds for TLC | |

### VstrRefGrp

A block is a record `[make_num, free_num, keep, func, ref]`; `keep` is the flag
`VSTR__FLAG_REF_GRP_REF`, `func[s]` tells whether slot `s` was never written, is
in use or was set to NULL, and `ref[s]` is its count.  `heap` says whether a
block is allocated; a freed block is not reused, so that a late write to it
shows.  `RefGrpAdd` and `RefGrpAddBlock` are the two ways through
`vstr__ref_grp_add()`.  The release of a slot is not one step, since a function
is called in its middle: `RefDelLast` takes the count to 0 and begins the
callback (`rel` is the slot), `CbDelConf` is `parent->func()` dropping the last
reference to the configuration, which gives up the group whose slot is being
released and then frees the user's data with the user's functions,
`RefDelNested` is the release of another slot by one of these, and `RefDelEnd`
the accounting, which writes to the block when all that is done.
`vstr__ref_grp_free()` asserts that a block with slots in use
is full when it is given up; that is so when `vstr__ref_grp_add()` gives it up,
and not when a configuration is freed.  The model follows the code, not the
assertion.

### VstrAbs, VstrNodes and VstrOps

A node is its address, type and bytes.  Bytes of PTR and REF nodes are
`<<object, offset>>`, so that a byte is its own address; BUF nodes hold copies
of such bytes.  `used` counts the deleted bytes at the front of a leading BUF
node.  The actions are the calls: `Add` (the inline and the extern function:
merge into the end, split, allocate, link in, caches), `Del` (two inline paths,
whole string, front, middle, end), `ExportChr` (a look that fills the position
cache), `ExportIovec` with its failure, and the spare node calls.  Where memory
runs out is decided by `Cap`: malloc() supplies that many nodes of each type.
`call` is a history variable: the last call and its result, the interface
through which `VstrAbs` says what the content must be.

`VstrOps` adds a second string of the same configuration, and the calls that are
several adds and deletes in a row with in-place paths between them:
`vstr_sub_*()`, `vstr_mov()` within a string and from the other,
`vstr_add_vstr()` of the string itself and to the other,
`vstr_add_iovec_buf_beg()`/`_end()` under `vstr_sc_read_iov_fd()` and
`vstr_sc_read_len_file()` with short reads, errors and end of file,
`vstr_sc_write_fd()` with short writes, and freeing and making a string, which
takes up a spare one with the iovec arrays it kept.

The refinements are `Abs` and `Strings`, two instances of `VstrAbs` with the
contents of the nodes for its strings; `RefinesAbs` and `OpsRefineAbs` say that
every step is the edit that the call promises, or leaves both contents alone
when it reports failure.

### VstrCstr

A string is its bytes.  A cache is `[made, ref, off, pos, len, sz]`; a buffer has
bytes and a count.  `held` are the references a user keeps, with the C string
that was asked for.  The two strings differ in whether the cache structure is
allocated with them.  `CbAdd`, `CbDel` and `CbSub` are the callback, `InlineBeg`
and `InlineEnd` the copies of it in the inline delete, `ExportCstrCache` the
function behind both exports with its three ways out, and `AddVstr` copies the
cache to the other string.  When `vstr_export_ref()` does not use this cache it
returns a node or a copy, which is no state of this module.  `_NON` data, whose
bytes in a C string are undefined, is left out.

### VstrConf

Configurations, strings, BUF nodes and link blocks are addresses with records.
A node is spare on a configuration, in a string, or exported and on a link
block.  `users` counts the handles the program holds, so that the counts in
`conf` can be compared with the truth.  Actions are the functions and options;
`SwapConfFails` is `vstr_swap_conf()` when one of its allocations fails.

### VstrData and VstrFmt

The two tables a user fills in a configuration.  In `VstrData` the used part of
the table is a sequence.  The calls are atomic (there are no threads), except
the search, whose loop is one action per turn: whether it ends is the question.

`VstrFmt` has the formatters in the hash they begin in (while all their names
have brackets) and in the list the hash is flattened to, and the interpreter
`vstr__add_vfmt()`.  A format is a sequence of directives, and what a directive
prints is one element of the string; the arguments are numbers, and the layout
of numbers is left to `VstrLayout`.  A call is a frame of a stack: it parses into
specs taken from the pool of the configuration (`AddVfmt`, with every way
malloc() can fail), and then writes one directive at a time (`Write`); a
formatter of the user may in the meantime start a call of its own, fail, or add
nothing.  A failed call undoes what it wrote.

### VstrSects

A byte of the string carries, for the properties alone, the sections it belongs
to; `SectsTrack` compares them with the positions the library keeps.  Sections
are added, deleted, updated by the callback on every change of the string, and
gone through by `vstr_sects_foreach()`, one turn per action, whose callback may
add and delete sections of the same array, which may make it smaller, and change
the string.  `vstr_split_buf()` is
an action that leaves its call and result in `split` for `SplitRight`.

### VstrSrch, VstrParse, VstrLayout, VstrIp and VstrText

Pure algorithms as operators over a list of nodes, each a translation of the
walk of the C function: node after node, with its early returns, the backward
searches with their restarts, the spans, comparisons with their four kinds of
node pairs, the number parser with its sign, base prefix, separators, overflow
test and result modulo the width.  `VstrText` puts strings together node by
node, in every way, and its properties compare every algorithm with a definition
on the bytes alone (`Matches`, `Order`, `Exact`, `NetstrsIn`, `RightText`,
`Ipv6Of`).  `VstrLayout` and `VstrIp` were also compared with the compiled
library on random inputs, which agreed.

### VstrEvnt, VstrEvntApp and VstrEvntLoop

The state of the program is one record `m`: the events with their queue, what
they are polled for and what was reported, their output and timers.  Functions
of `evnt.c` are operators from a state to a state, or to the set of their
outcomes where the kernel, the peer or malloc() decides.  `VstrEvntApp` has the
callbacks: of the data only amounts are kept.  In `VstrEvntLoop` a step is one
turn of one of the loops (`at` says of which), with the callback it makes;
`scan` is the pointer to the next event that the loop holds meanwhile.  Peers may
fall silent for good, time passes, and a child process of a server may die.
`m.io` is what the client polls besides its connections, its stdin and stdout:
`Poll` counts what is reported of them, and `Ui`, which is `cl_scan_io_fds()`,
counts it off again before the loops see `ready`.

### VstrHttpd

One connection of the HTTP server.  A request is a record: method, version,
name, `Connection`, whether an encoded version is accepted, `Expect`, ranges and
conditions; the answer is a sequence of items (head, head of a part, bytes of a
file, message).  `http_parse_req()` and `http_fin_req()` are followed through the
order of their tests to the answer; sections of the file are sent with
`sendfile()`, from `mmap()` or by `read()`, with short reads and writes, files
that become shorter while they are sent, read errors, and a lack of memory or
descriptors.  An error has a page of the site, which may
have an encoded version too, or the server's own message where no page is
configured, it cannot be opened, or it was opened and is not a regular file that
all may read.  `asked` is a history variable: the requests that were answered,
with the sizes of the files then.

## 3. Runs

| Run | Shows |
| --- | --- |
| `refgrp` | counts agree with slots; no held slot in a freed block; no block leaked; no freed block written |
| `nodes` | BUF, NON and REF data with memory running out: list, counts, spares, position cache (`NodesInv`) and content (`RefinesAbs`) |
| `nodes_mem` | BUF and PTR data, a user cache, `split_buf_del`, an iovec offset: number in the position cache and iovec cache (`CachesExact`) |
| `ops` | two strings, substitution, moving, copying, files: lists, spares and both caches of both strings (`OpsInv`), content (`OpsRefineAbs`) |
| `data` | user data: table, cookies, references, the search and its end; formatters: tables and specs (`FmtInv`), what a format writes (`FmtRight`), failure undone (`FmtAtomic`) |
| `conf` | counts, lifetimes and links (`ConfInv`), sizes of nodes and caches of spare strings (`SparesFit`), user caches (`CacheCbsCover`) |
| `cstr` | the cache is right, kept C strings stay, buffers are counted |
| `sects` | sections follow their bytes, going through them misses none and stays in the array, split gives the fields |
| `text` | search and span (`SrchRight`), compare, numbers, netstrings, printing (`PrintRight`), addresses (`IpRight`) |
| `text_ipv6` | **violation** of `Ipv6Documented`: addresses that end with `::` |
| `evnt` | queues and scan (`EvntInv`, with the listener's count), no connection waits for nothing (`AwaitPolled`, `HttpdNotStuck`), `NoReadAfterEof`, `ReadyAccounted`; the HTTP server's answers (`HttpdAnswers`) and descriptors (`HttpdClean`) |
| `evnt_live` | a connection whose peer falls silent is freed (`SilentFreed`) |

Bounds, and why they are enough:

* `refgrp`: 3 blocks of 3 slots, 2 references to a slot.  A block can be given
  up full, a second one partly used, while a third is filled; a hole below the
  top needs 3 slots.  The proofs remove these bounds.
* `nodes`: strings of up to 4 bytes in nodes of 2, so there are lists of up to 4
  nodes, with middle nodes, first nodes with deleted bytes and last nodes with
  room; 3 BUF, 1 NON and 2 REF nodes before malloc() fails, which makes every
  allocation fail in some state.  Here the view leaves the iovec cache out:
  nothing but the iovec cache itself depends on it.
* `nodes_mem`: the same sizes with enough nodes.  An add that fails after it has
  split a node leaves the number in the position cache wrong, and with it the
  iovec entry a later delete changes (`vstr_add.c:96`); therefore `CachesExact`
  is asked where node memory lasts.  Allocation of the arrays may still fail.
* `ops`: the sizes of `nodes`, a second string of one byte, and up to `MaxCalls`
  = 5 calls in a row, which builds a string of several nodes and types, changes
  it in place and changes it again.  3 BUF and 2 REF nodes, so that every
  composed call fails at each of its allocations.  The iovec
  caches are asked for while no call has failed.
* `data`: 3 names, 2 objects, a table of up to 4 entries: a hole with an entry on
  either side, and the table grows twice.  4 formatters (with and without
  brackets, one beginning another), 9 formats with arguments in turn, numbered,
  missing, by `*`, used by formatters and by `%n`, 2 formats that formatters use,
  6 specs, an array of 3 arguments (`UsrSz`).
* `conf`: 2 configurations, 2 strings, 3 nodes, 2 blocks of 2 links, 2 buffer
  sizes, 2 user caches, 2 allocation types.  The constraint `Apart` explores user
  caches with two strings without nodes, and allocation types with one: no
  function reads both nodes and caches.
* `cstr`: strings of up to 3 and 2 bytes over two letters, two buffers, one kept
  reference.  Three bytes are needed to delete in the middle of what is
  remembered, two strings to share a buffer, two buffers for one that is kept
  and a new one.
* `sects`: every string of up to five bytes over a letter and the delimiter is
  split, with ten sets of flags, four limits, into an array that grows and one
  that does not; one string is changed and gone through, with up to three sections,
  the third added right behind a split, up to
  `MaxCalls` = 4 calls besides those of the callback.
* `text`: every way to cut haystacks of up to 4 bytes into up to 4 nodes, needles
  of up to 3, with upper and lower case and NON data; versions of 3 bytes; numbers
  of 4 bytes over two alphabets in five bases with six sets of flags, in types of
  5 bits, so that 4 digits overflow; a 6-bit `unsigned long`; netstrings of up to 6
  bytes, with leading zeros, with signs (5 bytes), with lengths of two and three
  digits that overflow 6 bits or wrap, and whole ones of a length of two digits.
  Every set of the six flags with three widths and precisions and a grouping of `<<2, 3>>`; every IPv6 address over
  {0, 1} and two others, in six notations; IPv4 masks over five bytes.
* `evnt`: the echo server with a listener and two connections, the HTTP server
  with one (its connections have many more states), the client with two, `poll()`
  and epoll; limits of 1 or 2 so that each is reached.  `Fewer` bounds the output
  that waits on the connections of a program to two units together (two on one, or
  one on each), and the HTTP requests that are followed by another to eleven, each
  with an outcome of its own.  `VstrHttpd`: 34 different
  first requests, 3 that follow, two in all on a connection, four
  configurations (the error page is a file with an encoded version, one that may
  not be read, or none); files of 3, 2, 1 and 0 bytes, pieces of 2, two descriptors.
* `evnt_live`: one connection of the echo server, with `poll()` and epoll, and of
  the client; every action of the loop is taken.

Node addresses, blocks, buffers and links are interchangeable: the code compares
pointers and never orders them, so symmetry (or a view that renames addresses by
their place in the list) is sound.  The view of `VstrCstr` drops bytes nobody can
read, which is sound because a buffer is only written when it is new or has a
single reference, and then from its start; `CstrInv` is checked in the same
run.  `data` and `evnt` run two modules that share no state side by side, one
moving while the other is untouched.  Deadlock is not checked in `refgrp`,
`data`, `conf`, `sects` and `text`, since a program may free everything, or be
asked nothing more, and stop; it is checked in the others.

Fairness.  In `VstrData`, weak fairness of `SrchTurn` and `SrchRet` says that a
loop that was entered is executed, which is what a processor does with a call in
progress.  Nothing forces calls to be made.  In `VstrEvntLoop`, the loop is run
(`WF_vars(Loop)`); poll is not interrupted by a signal every time (strong
fairness of a poll that returns); and the clock goes on, so that for every
connection a pass over the timers comes that finds it older than its timeout.
Nothing is assumed of peers, which is why a silent one must be freed by the timer.

Every property of a passing run has a mutant: a changed definition (a dropped
guard, a missing reset, an off-by-one) under which TLC finds it violated.

### What the code does not keep

The properties are about the program as it is used; where a call is known to go
wrong a named condition keeps the runs from making it, or a property from
judging it, and a constant or a mode admits it again.

Node list and caches:

* Prepending: `vstr__base_zero_used()` moves the bytes of the first node, and
  several new nodes are put into the iovec cache in reverse (`vstr_add.c:139`;
  `AnyPrepend = TRUE` in `nodes_mem` violates `CachesExact`).
* `vstr_add_ref()` and `vstr_add_ptr()` of data longer than one node compute the
  wrong offset for the second node (`vstr_add.c:399`; `MaxNodeAll = 1` in `nodes`
  violates `RefinesAbs`).
* `VSTR_CNTL_BASE_SET_CONF` checks the callbacks in the wrong direction
  (`vstr_cntl.c:126`): a string with data in a user cache may get a configuration
  without the callback for it (`HasCbs`; `AnySetConf = TRUE` violates
  `CacheCbsCover`).  Every other use, also on strings with data, is in the runs.
* `vstr_export_ref()` compares lengths the wrong way round and ignores the offset
  of the C string cache (`vstr_export.c:214`; `ExportRefRight` is the property).
* `vstr_data_srch()` does not pass a hole (`vstr_data.c:59`; `SrchReturns`).
* `AnyOps = TRUE` admits, in `ops`: a substitution over several nodes that are not
  BUF (`vstr_sub.c:138`, `PlainSub`); a move to the right within one node, which
  moves the wrong bytes (`vstr_mov.c:71`, `PlainMov`; no cache is told of it);
  copying a part of a string into itself where the split of the node makes the loop
  go on with its own copy, or the first node has deleted data (`PlainCopy`); reading
  into the room behind a node in the middle, or in front of deleted data (`FillPos`;
  where a node has to be split, `vstr_add_iovec_buf_beg()` takes a spare node that
  it has counted already, which is not modelled); a read
  error half way, after which `vstr_sc_read_*_file()` deletes at the wrong position
  (`vstr_sc_posix.c:581`); a minimum iovec offset larger than arrays that exist
  (`vstr.c:791`, `vstr_cache.c:264`); writing after a failed `vstr_mov()` that left
  the iovec cache stale.

Sections and split:

* The update of sections by a deletion that begins in front of a section and
  reaches into it changes the length it goes on with for the next ones
  (`vstr_sect.c:275`; `AnyUpdate = TRUE` violates `SectsTrack`).
* `vstr_sects_foreach()` does not expect that the `vstr_sects_del()` of a callback
  makes the array smaller than where it is: backward it reads, and for
  `VSTR_TYPE_SECTS_FOREACH_DEL` it writes, behind the array (`vstr_sect.c:179`, `192`;
  `AnyDel = TRUE` violates `SectsInv`).  Deletes that leave the section of the callback
  its place (`PlainSectsDel`) are in the run.
* With a limit, `MID_NULL` without `BEG_NULL` gives other sections, and `END_NULL`
  with `POST_NULL` one more than the limit (`PlainSplit`).  `malloc_bad` of an
  earlier call makes a split give up.

Text:

* A needle of one byte, or of NON data, at the last position is missed by some
  searches (`vstr_srch.c:427`, `vstr_srch_case.c:149`, `195`, `230`).
* `vstr_cmp_vers()` is no order: '00' < '01' < '010' and '00' > '010'.
* An overflow by the addition of a digit alone is not seen (`vstr_parse.c:287`;
  `Unseen`).  After an overflow parsing goes on, and the result is the number
  modulo the type, where `Documentation/constants.txt` promises the highest number
  that can be parsed.  `-z` and `-0_` are reported as an overflow.  Base 16 skips
  `0b`, and base 2 skips `0x` (`OtherPrefix`).
* The parser of netstrings takes a `+` before the length, or in place of it, and
  `-0` (`+:,` and `-0:,` are empty netstrings), and ignores an overflow of the
  digits: with 6 bits `66:xx,` is parsed as `2:xx,` (`vstr_parse_netstr.c:52`).
  `NetstrRight` admits just these (`HasSign`, `LenRead`) and still says where the
  colon, the data and the comma are.  That the sum with the colon and the comma can
  wrap as well (line 66) does no harm: the place it wraps to is in the digits or at
  the colon, where no comma is; run `text` has such lengths.
* IPv6 addresses ending in `::` (run `text_ipv6`); an aligned word `0Bxx` is
  misread; a single leading `:` and `:::` are accepted (`StartsOddly`).  The length
  announced for a compact address is one too many in two cases (`vstr_sc.c:745`,
  `TooLong`), so that its padding is misplaced.  Binary numbers are grouped without
  the quote flag; a zero flag pads in spite of `-` or a precision; the width of a
  string is cut to its precision (`Known`).

Formats:

* A name added to an empty chain of the hash becomes the longest
  (`vstr_fmt.c:295`): once the hash is flattened, longer names are not found and
  the rest of the format is lost (`AnyFlatten = TRUE` violates `FmtInv`).
* A negative numbered argument used by two conversions loses its sign in the
  second (`AnyReuse = TRUE` and a format that does so, such as
  `<<Nth(1, "d"), Nth(1, "d")>>`, violate `FmtRight`).  `%m` before `%1$...` leaves a
  value uninitialised.  An escape character that is `%` itself, with which a name
  that is not found falls through to the system's conversions
  (`vstr_add_fmt.c:1528`), is left out of `VstrFmt`.  A failed malloc() of a spec or of the array of arguments
  returns 0 without setting `malloc_bad`.

Event loop and programs:

* The idle timeout of the HTTP server is not kept (`httpd.c:3902`, `evnt.c:919`,
  `1132`): mode `<<"httpd", FALSE, 2>>` violates `SilentFreed`.
* The HTTP server with epoll and two connections can reach `vlg_abort()`
  (`evnt.c:1533`): mode `<<"httpd", TRUE, 3>>` violates `EpollAccounted` with the
  other constants of run `evnt`.
* POLLHUP alone on the client's stdin or stdout is not an error to
  `cl_scan_io_fds()` (`ex_cntl.c:268`) and is never counted off, so the client
  reaches `vlg_abort()` when no event is to be freed in that turn: `AnyHup = TRUE`
  violates `ReadyAccounted`.
* The echo server polls for input again after the peer has finished
  (`ex_echod.c:138`), and its limit on waiting data is not enforced without
  POLLOUT.  The loops over connecting and accepting events write to an event that
  `evnt__close_now()` freed (`evnt.c:1340`, `1412`).  A stale POLLIN on the queue of
  receivers uses up a count of `ready`, and what was reported of another event may
  then have to wait for the next poll: `ReadyAccounted` says that no count is left
  over, not that each report is served in its turn.  The client can starve the second of two
  connections, opens another each turn while one is pending, and its timer closes a
  descriptor without freeing the event.  `evnt_stats_add()` adds `req_got` to
  `req_put` (`evnt.c:1620`).
* `http_fin_err_req()` looks for the encoded version of an error page with `fs_num`
  already 1 (`httpd.c:1430-1435`), against `ASSERT(... && !con->fs_num ...)`
  (`httpd.c:798`): a debug build stops there.  The model is that of a build
  without assertions, where the descriptors are swapped as they are for a file.
* `AnyAsk = TRUE` admits, in the HTTP server: an empty list of ranges (206 without
  a body, the file left open); a later part that begins at 0, read from the wrong
  place without `sendfile()` (`httpd.c:1115`); the body of an error page in answer
  to HEAD; a read error in parts, after which it goes on with the next part;
  requests that are answered although a file was cut and the connection should end
  (`httpd.c:4030`).  A 416 is judged by the encoded file; one unsatisfiable range of several gives 416 for all; and
  `If-Unmodified-Since` of exactly the time of the file gives 412: here the
  properties follow the code, and so do the tests of the repository.

## 4. Proofs

TLAPS checks the following for every value of the constants that satisfies the
`ASSUME` of the module: the runs bound the number of blocks, strings, nodes,
names or sections and their sizes, the theorems do not.  Each theorem states a
property that a run checks too.

| Theorem (module) | Property |
| --- | --- |
| `Invariance`, `TypeCorrect`, `NoDangling`, `Leakless`, `AccountingHolds`, `FreedUntouched` (`VstrRefGrpProofs`) | the invariant below, `TypeOK`, `NoDanglingRef`, `NoLeak`, `Accounting`, and the action property `FreedNeverWritten` |
| `NodesRight` (`VstrNodesProofs`) | `NodesInv` |
| `NodesImplement` (`VstrNodesProofs`) | `RefinesAbs`: the refinement of `VstrAbs` |
| `TableConsistent`, `CookiesStay` (`VstrDataProofs`) | `DataInv`, and the action property `CookiesStable` |
| `ConfsCounted`, `SparesUsable`, `CallbacksCover` (`VstrConfProofs`) | `ConfInv`, `SparesFit`, `CacheCbsCover` |
| `BuffersCounted`, `CacheRight`, `UsersRight` (`VstrCstrProofs`) | `CstrInv`, `CstrCacheRight`, `HeldRight` |
| `SectsKept`, `EverySectVisited`, `SectsFollow` (`VstrSectsProofs`) | `SectsInv`, `ForeachVisits`, `SectsTrack` |
| `HttpdStaysClean` (`VstrHttpdProofs`) | `HttpdClean` |

Five of them have a hypothesis besides the specification.  `CallbacksCover` is
for `~AnySetConf`, `SectsKept` for `~AnyDel`, `SectsFollow` for `~AnyUpdate`, `NodesImplement` for
`ByRefFits` (where data is added by reference, a string is never longer than a node
can be, 2^28 - 1 bytes in the code) and `HttpdStaysClean` for `RangesGiven` (no
request has an empty list of ranges; whatever else `AnyAsk` admits may be asked):
with the calls these leave out the code does not keep the property (section 3).  The
other theorems of the same modules hold with these calls as well, and both runs of
`VstrNodes` satisfy `ByRefFits`.  The assumptions are types of constants, positive
sizes, in `VstrConf` and `VstrCstr` that strings, links and references are finitely
many, since counts are compared with cardinalities, in `VstrNodes` that copied data
is a sequence as long as the call says (`InputsAssumption`), and in `VstrHttpd` that
requests are requests (`AsksAssumption`) and that a first enlarged array of sections
has room for two (`FsSz`, 16 in the code: with room for one, the second range would
be written behind its end).

`VstrFacts` holds what the proofs share: the least and the greatest of a set of
numbers, cardinality of a set that gains, loses or swaps a member, concatenation,
`SubSeq`, putting bytes into and cutting bytes out of a sequence.  The loops
of the code are recursive functions on `0 .. n`; `RecExists` says that such a
function exists (so that its `CHOOSE` is what its equation says) and `RecKeeps`
that what holds before the loop and is kept by a turn holds after every turn.

**Reference groups.**  None of the invariants is inductive.  That a release never
frees a block with slots in use depends on `free_num` counting exactly the freed
slots; that the scan for trailing freed slots stops depends on the last slot being
in use; and that a block is freed by the right one of its two possible liberators
depends on the flag saying exactly whether the owner has the block.  `IInv` states
these together: each live block is `BlockOK` (references agree with callbacks,
slots below `make_num` were written, `free_num` is the number of freed slots, the
last slot is in use), its flag is TRUE exactly for the owner's block, a block the
owner does not have has slots, and nothing is held in a block that is not live.
While a slot is released its count is 0 and its callback still set, so the
blocks do not satisfy this; `InUse`, in which that slot is still held, does, and
the invariant is `InvOf(heap, InUse, parent, owner)`.  `GiveUpOK` and `FreeSlotOK`
show that giving the group up and freeing a slot keep `InvOf` of any arguments;
`FreedHeld` is that freeing another slot and holding this one commute, so that
they apply to the steps in the middle of a release.

**Nodes.**  `NodesInv` is what `vstr__check_real_nodes()` and
`vstr__check_spare_nodes()` assert after every call, together with the position
cache naming the node at its position.  `IInv` strengthens it by the types of all
fields (`IsBase`) and by no type having more nodes than `Cap`, without which a
request for spare nodes could make less than none.  It is split into what the parts
of a call may break one after the other: `Shape` (the list, `num`, `end`, `types`
and `used`), `LenIs` (`len` is the sum of the nodes less `used`), `PosCacheOf`,
and `Fits` (spare lists, nodes and reference count).  In the middle of a call only
`Shape` holds and the length is whatever `LenAs` says; the position cache is right
only up to the place that is edited (`PosUpto`), which is all `CacheAdd` and
`CacheDel` keep of it.  Each edit of the list is one of two: a node gets data of
another length (`AlterLikeIs`), or some nodes are replaced by others (`IsSwap`;
`SwapUpto`, `SwapCount` and `SwapGood` say what that does to sums, counts and
addresses).  `Upto` is a recursive function, so that sums are compared by
`RecKeeps` (`UptoAlike`, `UptoGrows`).  That `FreshId` finds addresses rests on the
list having no more nodes than the string has bytes (`NodesAtMost`).  On these,
`BasePosIs` says that a position is found, from the cache or without it; `AddIs`
covers merging, splitting and linking in and every failure among them; `DelIs` the
two inline paths, `vstr__del_all()`, `vstr__del_beg()` and the three ways a delete
from the middle ends.

**The nodes as a string.**  `NodesImplement` says that every call does to the bytes of
the list what `VstrAbs` promises.  `Content` is the flattened list less the first
`used` bytes; `BytesIs` says, by induction over the list, where each byte of each node
is in it (`Holds`), and `HoldsOnly` that nothing else is.  On the abstract side both
kinds of edit are one: `Mixed(s, p, t, q)` is `s` with the bytes from `p` to `q`
replaced by `t`, an insertion when `p = q`, a removal (`Without`) when `t` is empty.
Three facts about it carry the proof: replacing within a part is replacing within the
whole (`MixedInner`), two adjoining replacements are one (`MixedTwice`), and a
replacement by what is there changes nothing (`MixedSame`).  From these an edit
of one node's data (`EditContent`), nodes put in or taken out (`SwapContent`) and
bytes dropped at the front, into `used` or from the data (`BeheadContent`), each
replace the right bytes of the string.  Splitting a node, moving the used bytes out
of the way and the caches replace nothing (`SplitContent`, `ZeroUsedContent`,
`CacheAddContent`).  An add is a merge of a first part and new nodes with the rest
(`NewBytes`, `InPartJoin`); a failure after the split leaves the bytes alone.  A delete
in the middle is up to three removals at one position: the end of a node, whole nodes,
the front of the next (`WithoutTwice`).

**User data.**  `DataInv` says that a finished search is right; what makes it so is
what an unfinished one has seen.  `SrchInv` adds that no entry a search has passed
has its name, and that the one it has found has.  The counts of the objects are
cardinalities of the sets of entries that store them, which change by one member
per step.  `CookiesStable` follows from where `vstr_data_add()` puts an entry: after
the last, or into a hole (`AddSlotRight`).

**Configurations.**  `ref` of a configuration is its `user_ref` and one for each live
string and each block of links on it; `l_ref` of a block is the number of nodes
exported through it.  Neither is inductive without the other, nor without `Homes`
(what a node or a string in each state belongs to), `Alive` (live exactly when the
count is positive) and `SparesOn` (nothing spare is left on a configuration that
is gone).  One call passes through several of these states: a release takes a
reference away, frees the configuration, and only then its spares.  So the
invariant is `InvOf` of arbitrary functions and of the states `sts` in which a
configuration may still have spares, with a lemma for each stage; a late release
of an exported node, and a string that changes configuration, are compositions of
them.  `SparesFit` rests on the sizes of *exported* nodes (`Fit`): those that
return are of the size their configuration had all along, because the buffer size
may only change when no node is out.

**C string cache.**  A reference that a user keeps stays right only because a buffer
is overwritten when the cache is its only owner; that is known from the count; and
the count is right because every owner and every holder is counted (`Counts`).
That an overwritten buffer is large enough rests on `Sizes`: a cache's `sz` is the
length of its buffer.  `Rights` is `CstrCacheRight` byte by byte (`Matches`), which
is what the callbacks on adding, deleting and substitution can be reasoned about.
The proof of an export follows its three ways out: the cache is used, the
buffer is overwritten, a new one is made.

**Sections.**  There are two invariants.  `IInv` has the shape of the arrays and, for
the call of `vstr_sects_foreach()` in progress, `IterOK`: `scan` is within the
array whichever way it goes (unless `AnyDel`), every section it began with that is left can still
be given to the callback, and every one that is past has been.  This is
what a callback that deletes, adds or updates must not disturb (`IterStays`,
`IterFollows`).  `Track` compares, byte by byte, the sections a byte belongs to
with the positions kept.  For a delete, the length goes through two nested
loops, over the `Vstr_sects` and over their sections, and may become less on the
way; `BehindSame` and `AfterSame` show that a `PlainDel` reaches every section with
its length unchanged, so that each is moved as if it were alone.  A split is
a loop over `LoopOK`, which says that the sections added are within the string, and
that there are at least as many in the array as are taken back after a failure.

**HTTP server.**  A connection is `Closed` (no section, no descriptor, nothing left of
an answer) or `Sending` (one descriptor is open, it is the connection's, and the
section being sent is one of those the array has room for); `HttpdIInv` says so, and
that sections are left only where the server sends or waits.  It is not inductive
without what it says of a connection between requests: when output is left, the
connection is in the send queue or waits for POLLOUT.  Otherwise a peer that has shut
its side, so that input is not polled for, would leave a connection that waits for
nothing once a pipelined request turns out to be incomplete.  Answering passes through
states that are neither: a file is open and its sections are not known (`HasFile`).
The lemmas follow the calls: what only adds output or sets a field that does not
concern the file keeps all this (`Alike`); opening, the swap for the encoded file,
`SectAdd` and closing are shown to lead from one of the three to another; and
each way out of a request, the failures included, ends in one of the first two
(`After`).  The loop over the ranges keeps `Ranging`, by `RecKeeps`: when it says 200
there are sections.  This covers what the code asserts of `fs_off`, `fs_num` and
`fs_sz` (`httpd.c:736`, `2738`, `2922`, `3941`).

Only model-checked, and why:

* liveness (`SrchReturnsFull`, `SilentFreed`): out of the prover's reach;
* `SplitRight`, `SrchRight`, `CmpRight`, `NumRight`, `NetstrRight`, `PrintRight`,
  `IpRight`: what an algorithm computes for every input needs induction over data;
* `VstrEvntApp`, `VstrEvntLoop`, `VstrSrch`, `VstrParse`, `VstrLayout`, `VstrIp` and
  `VstrText` have recursive operators, which the prover's backend does not accept;
* `CachesExact` of `VstrNodes`, `HttpdAnswers` of `VstrHttpd` (what is on the wire,
  byte by byte), and `VstrOps` and `VstrFmt`: not proved yet.

## 5. What is not modelled, and the plan

Not modelled, and why:

* conversion (`vstr_conv.c`): tables of characters; the substitution under it is
  in `VstrOps`;
* floating point, pointers and wide characters in formats, and the code taken from
  glibc: wording and layout of text of the C library;
* locale functions and the portability layer: sequences of C library calls;
* `vstr__mov_slow()`, the `mmap()` shortcuts, `vstr_parse_num()` with a caller's
  callback, the BUF_PTR, BUF_REF and ALL_REF ways of copying (exported nodes are in
  `VstrConf`);
* of the programs: parsing of headers and names, policy and configuration files,
  virtual hosts, negotiation of types and languages, filters, corking, custom
  events, option parsing, handing a listener over; standard input of the client
  stays open; amounts of output above `MaxW` are not told apart;
* the other examples: filters and tools that use the library.

Plan, in this order:

1. `VstrOps`: its `NodesInv` and its steps of `RefinesAbs`, on the lemmas of
   `VstrNodesProofs`; `CachesExact` of `VstrNodes`;
2. `VstrFmt`: the tables of `FmtInv`;
3. `VstrEvntLoop`: `ReadyAccounted` and the parts of `EvntInv` that concern one
   event, with the recursive operators of `VstrEvntApp` as functions;
4. as models, where the bounds are small now: two connections of the HTTP server
   with `poll()`, and a third request on a connection.
