# TLA+ models of pkg_pfs_tool

`pkg_pfs_tool` unpacks console packages (PKG), unpacks and decrypts PFS images,
and repacks savedata images: it applies a directory of modified files to an
encrypted, signed image in place. The core of these modules is the repack code
in `src/src/main.c` together with the PFS structures it rests on
(`pfs_block.c`, `pfs_dinode.c`, `pfs_lookup.c`, `pfs_parsers.c`, `pfs.hpp`).
Around it are the opening of packages and images with their keys (`pkg.c`,
`pfs.cpp`, `keymgr.c` and the command handlers of `main.c`), the unpacking of the
user tree with its filters (`pfs.cpp`, `pfs_lookup.c`, `wildcard.c`), the reading
of files (`pfs_io.c`), the conversion of an unpacked directory (`main.c`), GP4
projects (`gp4.c`, `playgo.cpp`, `dict.c`), the making and unmaking of fake-signed
executables (`makefself.c`, `unfself.c`) and the removal of memory holes
(`elfdowngrade.c`).
Paths below are relative to the repository; line numbers without a file are
those of `src/src/main.c`.

## 1. Inventory

| part | state | operations | what is hard |
|---|---|---|---|
| repack (1080-2525) | output map, super root in memory, copies of `blk_bitmap`, `block_addr_table`, `ino_bitmap`, `changed`, `error`, `meta_dirty` | patch, shrink, grow, put_content, directory insert / remove, inode alloc / free, removals, additions, flush, sign | two views of the image (source and output), an allocator over two generations of the image, Merkle tree kept up to date by hand, partial failure |
| block allocator (1303-1340) | bitmap, BAT | alloc, free | which block is free; order of reserving and releasing; exhaustion half-way |
| block lists, dinodes (`pfs_block.c`, `pfs_dinode.c`) | none (pure, read the image) | list of a file's blocks, dinode of an inode | boundaries between direct and indirect levels; size 0 |
| lookup, enumeration (`pfs_lookup.c`, `pfs_parsers.c`) | inodes of the system files | scan, lookup, recursive walk | stop requests in nested walks; terminators |
| file I/O (`pfs_io.c`) | block buffer of a file | raw and compressed reads and writes | unaligned and multi-block transfers, bounds |
| opening an image, unpacking (`pfs.cpp`, `pfs_util.c`, `pfs_sd.c`) | keys, header copy | key negotiation, unpack tree | several candidate keys, filters |
| unpack post-processing (530-760) | counters, files of the host | decrypt / convert files in place | files replaced during a walk; interrupted replacement |
| command line (2528-4076), `config.c` | options | parse, dispatch | conflicting options |
| key manager (`keymgr.c`, `keys.c`) | list of keysets | lookup, derive, override | which key wins |
| PKG (`pkg.c`) | entry table | parse, enumerate, read entries | offsets and sizes, entry order |
| playgo, sfo, gp4 | parsed tables | parse, print, write project | formats |
| SELF tools (`self.cpp`, `selfdecrypt.c`, `makefself.c`, `unfself.c`, `elfdowngrade.c`) | buffers | convert executables | formats |
| crypto, compression, mapped files, utilities | handles | wrappers | segment boundaries |

The tool is a single thread: nothing runs concurrently. What makes it hard is
long sequences of operations on shared structures, operations that fail
half-way, the order of dependent writes, and state that is read from one copy
of the image while another is changed.

How the repack parts meet: `pfs_repack_handler` copies the source to the output
map, `pfs_repack_apply_mods` decrypts the allocator metadata and then runs the
first phase (files in both image and modification directory, found by walking
the **source** image), the removals of `__remove.txt`, the additions (walking
the **host** directory, looking names up in the **output**), the flush of the
metadata and the signing of the header. All of them share `struct
pfs_repack_mod_ctx` and the output map.

Opening and unpacking meet in the keyset: `process_pkg` opens a plain
`pfs_image.dat` if there is one, `pkg_alloc` asks the options callback, looks up or
makes the keyset of the package, and opens the outer image and, from a file of it,
the inner one, each of which derives keys in that same keyset. The handler of the
command then takes out system entries, walks the user tree or writes a project,
and what is open is let go on five different paths.

Correctness of each part:

* repack: the output is a sound image (no block used twice, none leaked, every
  digest right, names, inodes and link counts agree), it is signed, it can be
  the source of the next run, and it holds what was asked for and nothing else.
* allocator: a block has one owner at most, BAT and bitmap agree with the
  pointers at every step, blocks of the backup generation are never touched.
* lists and lookup: see repack; the recursive definitions are shared by it.
* file I/O and unpacking: what is written to the host is the file, to its last
  byte, wherever its blocks lie and however reads fall on them.
* post-processing: every file ends in the form the options ask for, no payload
  is lost whatever interrupts the pass, nothing is left over.
* SELF tools: wrapping and unwrapping an executable give it back.
* unpacking the tree: every entry that the filter asks for, and that can be
  read, is written under its path; the walk ends.
* keys: if what is given is right and enough, the image opens; a failed attempt
  leaves nothing behind; what is open is read with its own keys.
* PKG: entries are written as their plaintext or not at all; whatever fails,
  everything acquired is let go, once.
* GP4: every file is listed once, with the chunks its first byte is in; a run over
  the decrypted image lists it as the run over the package did.

The full list of what is hard to test, each at its line, is `hazards` in
`PROJECT.json`.

## 2. Modules

| module | models |
|---|---|
| `PfsImage` | the image: blocks, dinodes, pointers, directories; block lists, reading, lookup, walk (pure operators) |
| `PfsWrite` | the write operations of repack as functions on the working context |
| `PfsRepack` | the run as a state machine, one action per handler; runs follow one another |
| `PfsTree` | abstract specification of a run: paths and contents only |
| `PfsRepackProps` | properties of `PfsRepack`; refinement mapping to `PfsTree` |
| `PfsSound` | when an image is sound, what a run keeps of it: the inductive invariant of `PfsRepack` and what the proofs assume |
| `PfsRepackProofs` | the TLAPS proofs about `PfsRepack`: no block shared or leaked, Merkle tree and BAT right, the output loads and is signed, block 0 stays a header, a run without a change delivers its source |
| `MCPfsRepack` | images, modification directories and manifests for TLC |
| `PfsAlloc` | the allocator alone, one block reserved or released per step |
| `PfsLedger` | abstract specification of the allocator: whose each block is |
| `PfsAllocProps`, `MCPfsAlloc` | its properties and inductive invariant; its instance |
| `PfsAllocProofs` | the TLAPS proofs about `PfsAlloc` |
| `KeyMgr` | keysets by content ID, the configuration file, key generation |
| `PkgOpen` | opening a package or an image, the handlers of info, list and unpack, letting go |
| `PkgOpenProps`, `MCPkgOpen` | its properties and inductive invariant; packages, keys and command lines for TLC |
| `PkgOpenProofs` | the TLAPS proofs about `PkgOpen` |
| `Paths`, `Wildcard` | paths as sequences; the comparison with a mask, step by step |
| `UnpackTree` | the walk of the user tree, unpacking with filters or enumerating |
| `UnpackTreeProps`, `MCUnpackTree` | its properties, liveness included; masks and trees for TLC |
| `UnpackTreeProofs` | the TLAPS proofs about the comparison with a mask and about the walk |
| `Gp4` | runs that write a project and a meta data file, or read one |
| `Gp4Props`, `MCGp4` | its properties; packages and sequences of runs for TLC |
| `PfsRead` | reading a file chunk by chunk, as unpacking does |
| `PfsReadProps`, `MCPfsRead` | its property and inductive invariant; files and images for TLC |
| `PfsReadProofs` | the TLAPS proofs about `PfsRead` |
| `UnpackPost` | the conversion of an unpacked directory in place, with faults and restarts |
| `UnpackPostProps`, `MCUnpackPost` | its properties and inductive invariant; directories for TLC |
| `UnpackPostProofs` | the TLAPS proofs about `UnpackPost`: no payload is lost, every file reaches its final form, nothing is left over |
| `FSelf` | an ELF made into a fake SELF and back |
| `FSelfProps`, `MCFSelf` | its properties and inductive invariant; executables for TLC |
| `FSelfProofs` | the TLAPS proofs about `FSelf` |
| `Memhole` | memory-hole removal: segments moved down, pointers shifted |
| `MemholeProps`, `MCMemhole` | its properties; executables for TLC |
| `Induction` | induction and loops over the naturals, as lemmas about sets and functions, for the proofs |

### PfsImage, PfsWrite, PfsRepack

`src` is the source image, `ctx` is the output map together with `pfs->hdr`
(super root pointers and digests) and the three decrypted metadata buffers.
`phase` follows `pfs_repack_apply_mods`. Each action is a whole handler
(`GrowMod` is `pfs_repack_mod_enum_cb` with a larger file, including everything
`pfs_repack_grow_file` does), since nothing else can run in between; what a
handler leaves behind when it fails half-way is part of its result.

Abstractions, all of data:

* A block has `BBS` units; a unit is a piece of payload, a directory entry, or
  `Zero`. A directory entry is one unit, so `entry_size` is 1 and a directory
  needs one unit of terminator where the code needs 16 bytes.
* Encryption is left out; a digest (HMAC of the ciphertext, which depends on the
  block number) is the pair of block number and content, hence injective.
* Times, permissions, uid and flags of dinodes are left out, `comp` stands for
  the compressed flag.
* A metadata file is one unit that holds the whole bitmap or BAT. The bitmap is
  exactly as wide as the image.
* Images are signed, 32-bit, and have all three metadata files (the code skips
  additions and removals if one is missing).
* `malloc` does not fail and host files can be read.
* The order in which siblings of the host directory come is unknown, and so is
  that of the first phase; the models take every order (for the first phase this
  is more than the code can do).
* A failing run ends at the failing handler. In the code, a failure in a nested
  directory ends only that directory's walk (`pfs_parsers.c:78`, `util.c:323`);
  the remaining entries are then handled, but the run is still reported as
  failed and its output is not used.

### PfsAlloc

`PfsRepack` cannot show what happens inside a handler and is bounded. `PfsAlloc`
keeps only the allocator and the pointers: `Begin` starts a resize of file `ino`
to `goal` blocks, `Reserve` is one call of `meta_alloc_block`, `Release` one call
of `meta_free_block`, `Commit` is the dinode's update, `Exhausted` a call that
finds no block. Removing a file is a resize to 0. `EndRun` makes the output the
next source, `Restart` starts again from the source, after a failure or after an
error elsewhere in the run. `grow_file` and `put_content` reserve and then
release; `shrink_file` has nothing to reserve. The file of size 0, whose block
list is wrongly `<<0>>`, and files beyond single-level indirection are left to
`PfsRepack`; both are findings.

### PfsRead

`pfs_unpack_single` copies a file in chunks of 16 KB; a chunk goes through
`pfs_file_read_raw` or `pfs_file_read_compressed` and a buffer of two blocks
that keeps what the read before left in it. `Open` reads the header and the
table of offsets of a compressed file, `ReadChunk` and `WriteChunk` are the two
halves of the loop's body; `ReadBlock` is the body of the loop in
`pfs_file_read_raw`, and `BlockLen` how much of a block it copies
(`pfs_lbn_to_size`). The unit at position p of the image is the number p, so a
unit in the output that comes from the wrong place is seen. zlib gives the plain
units of a block that it is given whole, and fails otherwise. Where the offsets
of a compressed file are is read from the image, what they are is part of the
file (`FileSound`: they grow, blocks are no longer than the block size, and what
is asked for lies in the block list). Encryption and signatures are left out (a read of a signed image checks nothing), and so is the reading of
several compressed blocks in one request: chunks of 16 KB, each at a multiple of
its size, lie within one compressed block of 64 KB.

### KeyMgr, PkgOpen

A key is a term of what it was made of (`<<"data", image key, salt>>`), so that two
keys are equal exactly if they were made of the same parts: a wrong key never
happens to fit. A keyset is a record, and a pointer to one is the content ID it is
filed by. What comes from outside, the package, the image, the lines of the
configuration and the options of the command line, is one record `job`.

`pc` follows `process_pkg` (2528-2606) or `process_pfs`, the stages of `pkg_alloc`
(`pkg.c:1064-1240`) with `pfs_alloc` as one step each (`OpenPfs`), and the handlers
of info, list and unpack. `held` is what is acquired and not yet released, `ptrs` the
pointers the code would release, `twice` what was released when it was no longer
held, `s_pkg` the global pointer. `DataFails`, `LoadFails`, `Cleanup` and `AtExit`
are the places where things are let go; `crash` is an assertion or a pointer that
was never set. `KeyMgr` has the order in which `keymgr.c` prefers passcode, image
key and final keys, and both derivations of a passcode.

Left out: parsing of headers (an image or entry is `sound` or it is not), split
packages, RSA and AES themselves, SELF root keys, and what info prints.

### UnpackTree, Wildcard, Paths

`stack` is the recursion of `pfs_parse_dir_entries` through its callback, a frame
for each directory being read. `entry`, `tries` and `match` are
`pkg_pfs_unpack_pre_cb` asking for one entry: pairs of name and mask are compared
one after the other, and `Comparing` is one iteration of the loop of
`wildcard_match`, with its cursors and the one place to fall back to. `ParseArgs` is
what `main` stores for the names on the command line (3594): each with its parents.
`UnpackFile` looks the path up a second time, as `pfs_unpack_single` does; whether
`CopyFile` gets through is decided by the image (`torn`), and how it copies is
`PfsRead`. In `enum` mode the callback may ask to stop at any entry.

The host may refuse anything. A file that cannot be made or written ends the program
(`HostFails`), but what `make_directories` returns is not looked at (`pfs.cpp:646`,
742): `MakeDirectories` makes all of the path, or some of it, and the walk goes on.
`refused` remembers the directories that were asked for and not made.

Left out: the flat path table, and the collision resolver.

### Gp4

A `job` is a package, its image and a sequence of runs over it, each over the
package or over the decrypted image (`plain`), with or without a meta data file to
read or to write. `disk` is the meta data files, `out` the one being written, in
stdio's buffer until it is closed: `CloseShort` is a full disk, which nobody asks
for. A path is a sequence of characters as far as the format of the meta data tells
characters apart (colon, `#`, blank). `Location` and `SizeToRead` are the queries of
`pfs_io.c` through both images, `ChunksText` is the text that `gp4.c` makes of chunk
numbers. A key that stands in the meta data twice may be lost when the file is read
(`Repeated`: `dict.c:75` frees the key that the hash table goes on using), so
`ReadMetaIn` takes any of those keys away or leaves it. `ListSc`, `ListFile`,
`BuildDirs` and `WriteProject` are the parts of the project in the order of the
code.

Left out: what is copied from SFO and playgo data (volume, languages, scenarios,
disc and layer numbers).

### UnpackPost

`run_unpack_postproc` converts what was unpacked: `decrypt_self_in_place`,
`unfself_in_place`, `elf_downgrade_file`, `rewrap_fself_in_place`, SFO backport
(533-716). `dir` is the host directory, a function from the names that exist to what
they hold. A file-system operation is one action (`OpenTmp`, `WriteTmp`,
`RemovePath`, `RenameTmp`; `OpenInPlace`, `WriteInPlace`), since between two of them
the process can be stopped (`Crash`) and started again (`Restart`, with or without
unpacking first). `TmpWriteFails`, `InPlaceWriteFails` and `RenameFails` are the
errors the code handles. `TmpCloseFails` is one it does not: an error that only
`fclose` reports, as on a full disk when stdio's last buffer is written; nobody asks
`fclose` (`selfdecrypt.c:606`, `unfself.c:168`, `makefself.c:324`), and the
conversion goes on with a temporary that is cut short. The walk (`util.c:290-340`)
reads a directory while the callback replaces files in it: `Revisit` is a replaced
name that readdir returns again, `Vanished` a name that is gone. The converters are
reduced to the form they make of a file, and to whether they decline (`Locked`: no
key, `Foreign`: not an executable they know). A file that was cut short is left
alone, makes `error()` exit, or, if its headers are there, is converted as far as it
goes (`unfself.c:62` clamps lengths), which gives a file that is cut short again;
the model takes any of these. The two stages of `unpack_postproc_cb` on an encrypted
or fake SELF are tried in the code's order. `hurt` remembers the files for which the
code has no protection: a failed rename, a file rewritten in place, and a temporary
whose end was lost when it was closed.

### FSelf

`MakeFself` is `makefself.c` in one step, `Place` one iteration of the loop of
`self_unfself_buffer`. A byte is a unit; an ELF is its program headers and a
sequence of distinct units, so that every unit of the result can be traced.
`Align`, `Block` and `Digest` stand for 16, 0x4000 and 32; header sizes are
multiples of `Align`. `MaxEntries` is the limit of the 16-bit fields.

### Memhole

`patch_memhole` of `elfdowngrade.c`: `Collect` finds the segments and sorts them
(every order that `qsort` may leave), `NoHole` and `Move` look at a pair,
`PatchTables`, `PatchRaw` and `PatchCode` are the passes over the file after a
move. An address that the file holds is a pointer with a place and a kind;
instructions are not decoded, and numbers that only look like addresses (the code
names them as a risk) are not in the instances. Physical addresses equal virtual
ones, as linkers leave them.

## 3. Runs

| run | question |
|---|---|
| `repack_one` | one run, every combination of 4 images, the modification directories and 4 manifests: all that a run promises, and refinement of `PfsTree` |
| `repack_again` | two runs, a smaller pool (so that it runs dry), keys missing, a manifest longer than the additions remember: is the inductive invariant of the proofs kept, is the output of a run a sound source, is it signed |
| `pfs_alloc` | the allocator step by step, any sequence of resizes, failures, runs; refinement of `PfsLedger` |
| `pkg_open` | 30 149 command lines: keys of every kind, right, wrong or missing, from every place; faults in every file; entries of every kind |
| `unpack_tree` | every mask of up to 4 characters against every name of up to 3; a tree with nested, empty and unreadable directories, with 12 command lines, on a host that may refuse any directory or file, and enumerated with stops anywhere |
| `pfs_read` | files of up to three blocks anywhere in an image of five, of every size, and compressed files with every combination of block lengths, also such as are no smaller than their data: is the output the file |
| `unpack_post` | an executable and one other file, every option, two faults, three runs: does a pass that meets no fault finish its work, and what is lost if it meets one |
| `gp4` | every way for a file to be in five chunks up to twice; every pair of names over four characters; a tree stored and cut off in different ways, run over in different orders |
| `memhole` | two or three writable segments with and without holes, a header that shares the address of any of them, pointers of every kind and place to every address |
| `fself` | every ELF of three program headers, with sizes on both sides of a block: is the layout sound, does the ELF come back |
| `empty_file` (violation) | finding 1 |
| `add_under_file` (violation) | finding 2 |

### Bounds

* `repack_one`, `repack_again`: 20 and 15 blocks of 5 units, two direct pointers
  and two per indirect block (12 and n in the code), 10 inodes in two dinode
  blocks, a user tree of depth 2. A file can be empty, direct, indirect and beyond
  single indirection; a directory can overflow its block; the pool can run dry in
  the middle of a file; dinode blocks are shared by several inodes. `MaxRemoves`
  (256 in the code) is 3 in `repack_one`, where the longest manifest fills the list of
  removals to its last place, and 1 in `repack_again`, where a manifest goes past it.
* `pfs_read`: `PhysBlocks` is five, enough for a block that is the image's last and
  for one that has a foreign neighbour; a chunk is half a block, so that it starts
  a block or does not, and sizes leave a last block or chunk partial. `Direct` is
  two, so that files have blocks on both sides of it.
* `unpack_post`: `MaxFaults` 2 (a fault, and one in the run that has to clean up
  after it), `MaxRevisits` 1, `MaxRuns` 3; stages do not look at other files, so two
  are enough to see one disturb another.
* `unpack_tree`: four characters hold two stars with something between and
  behind them, which is what a place to fall back to can go wrong on; each name
  occurs at several places of the tree, and up to one directory or inode of each
  kind is damaged.
* `gp4`: each of five chunks absent, once or twice gives every shape of range; both
  images are whole or end inside a block of a file.
* `fself`: three headers, so that a blob has a competitor before and behind it.

### Fairness and deadlock

`UnpackTree` states `WF_vars(Next)`: the tool is a single thread that waits for
nothing, so as long as it can take a step it takes one. `WalkEnds` says that it comes
to an end; with it a comparison that falls back for ever, or a walk that enters a
directory again, is seen. The other modules describe loops over finite lists that
end by their shape, or repeat as often as the user wishes, so what is asked of them
is what they have done when they end.

Deadlock is checked in the runs of `PfsRepack` and `PfsAlloc`, where a process that
has exited is `Finished`. In the others it is not: a command ends, and nothing comes
after.

### What the properties say

Repack. `OnePurpose`: every block of the output has exactly one purpose (one pointer,
the header, the backup generation) or is free, so nothing leaks and nothing is
shared, and the backup generation survives failing runs too. `BatNamesOwner`,
`MerkleIntact`, `TreeSound` (names, inodes, link counts) hold after every handler;
`OutputReloads` and `HeaderSigned` are about flush and signing; `SoundRun` is the
inductive invariant of the proofs with the condition they rest on; `VerbatimIfUnchanged`
and `Delivered` are what the user asked for, the removals included, as far as the
additions remember them, and what comes of the lines behind those; `TreeRefined` says that the run
implements `PfsTree`: each step changes the one path it is about. `NoSharing`,
`Accounted`, `WellPlaced`, `BackupUntouched` say it of the allocator
in the middle of a handler. `LedgerKept` says that the allocator implements
`PfsLedger`, which knows neither bitmap nor BAT: each call moves one block between
the pool and the operation, nothing is given back before everything is reserved, a
run fails only with an empty pool, and a restart brings back what the source had.

Opening. `RightKeyOpens`: if everything given is right and some of it is enough, the
images open, whatever else is configured. `KeysFit`: an open image is read with its
own keys although the next one derives keys in the same keyset. `ReleasedOnce`:
nothing is released twice and nothing stays, on every path. `Sc0Plain` and
`EntriesComplete`: system entries come out as plaintext, and all that were asked for
do. `NoCrash`: no pointer is followed that was never set, but in the situations it names.

Unpacking. `MatchIsGlob`: the comparison decides as the meaning of a mask does.
`WholeTree`, `NamedUnpacked`: what is asked for is there, each file with the data
of its own inode; the one exception is a directory that the host refused, and no file
is in such a directory. `StopCutsDirectory`: what exactly a stop cuts off.
`WrittenRight`: a file is written right and whole, and reading fails in one case
only; of a compressed file that is not `Legible` it says nothing. `PayloadKept`: the
conversion may be stopped at any point and a complete copy of each file is still there,
but for the three gaps that `hurt` names; `FinalForm`: a pass
without a fault leaves its files converted, also when readdir shows them twice or
an earlier run was interrupted; `Tidy`, `OnlyOwnFile`: it loses, leaves and touches
nothing else.

GP4. `ChunksRight`: the chunks attribute names the chunks of the file's first stored
byte. `MetaRoundTrip`: what comes back over the meta data is what was known, or
nothing, never another file's. `ProjectComplete`: every file once, every directory.

Executables. `LayoutSound` is about the entries of a fake SELF; `RoundTrip` says that
unwrapping restores what the SELF carries if the lengths of blobs tell them apart.
`NoGaps` and `SharersFollow` are about the layout that hole removal leaves,
`PointersFollow` about every address in the file.

### Findings

1. **Empty files clobber the header** (`empty_file`, `HeaderNeverData`).
   `pfs_block.c:37` lists the first pointer before it looks at the size, so a
   file of size 0 has the block list `<<0>>`. A later run that grows or
   patches it writes to block 0.
2. **Additions under a file** (`add_under_file`, `NotProvidedKept`). The type of
   the parent is not looked at (2202): a directory entry is written into the file.

### Limits of the code that the models share

They appear as preconditions or exceptions of properties, or as bounds of
instances.

Repack:

* Removing a file beyond single-level indirection leaks its blocks:
  `collect_blocks` returns NULL with a count of 0 (1697), which `put_content` takes
  for an empty file (1943). `Lost` names exactly these blocks, and `OnePurpose` says
  that no others are lost.
* The additions remember only the first 256 lines of the manifest
  (`PFS_REPACK_MAX_REMOVES`, 2163 and 2246), the removals obey all: a path on a later
  line that the modification directory holds is removed and added again, against the
  comment at 2192. `Delivered` states both halves. A path of `PfsTree` does not come
  back once it is removed, so `TreeRefined` is checked with manifests that fit.
* A directory beyond single-level indirection cannot be read by the repack code
  (`pfs_repack_read_content`, 1725): nothing is found in it, added to it or removed
  from it, while the enumeration of the source reads it through `pfs_block.c`.
  `Collectable` and `Unreadable` say so, the theorems cover it, and the instances have
  no directory of that size.
* `repack_one` and `repack_again` use instances without the inputs of the findings
  (an empty file is added, but not used again; no name is a file on one side and a
  directory with content on the other).

Opening:

* A `pfs_image.dat` that can be mapped but not opened is unmapped by `setup_pfs` and
  again by `process_pkg` (488, 2551): the exception of `ReleasedOnce`.
* Listing a package with `--no-unpack --unpack-sc-entries` opens no image and then
  lists it (`pfs_parsers.c:133`); content keys of save data (`pfs_sd.c:33`) and of
  additional content (`pkg.c:907`) are copied without asking whether they were
  configured: the exceptions of `NoCrash`.
* A section of the configuration that has no key for a package makes the package
  refused if its own image key cannot be had, even with a passcode on the command
  line (`pkg.c:1112`, a FIXME): `Refused`. Final keys that are given are overwritten
  without a word where a passcode or an image key is there too, so `RightKeys` asks
  that all of them are right.
* An unknown system entry is treated as the entry before it (`pkg.c:1270`):
  `EntriesComplete` speaks of known entries.

Unpacking:

* A stop in a nested directory ends that directory only (`pfs_parsers.c:57`);
  `StopCutsDirectory` states it.
* The filter `d/x` lets every file named `d/d` through as well, since the parents of
  a name are masks of their own and masks are compared with last names.
* Two names that differ only in case are one file (`pfs_lookup.c:89`):
  `CaseDistinct`.
* A directory that the host refuses (`util.c:233`, 237) is warned of and otherwise not
  noticed: an empty one is missing from an unpacking that ends normally (`pfs.cpp:742`).
  `MayLack` is the exception of `WholeTree` and `NamedUnpacked`. Nor is an error that
  only `close` reports (`pfs.cpp:680`): what is on the host is what was written
  without an error.
* A chunk that does not start a block makes `pfs_file_read_raw` read two
  physically consecutive blocks (`pfs_io.c:291`). If the first is the last of
  the image, the read fails although the file's next block is elsewhere. It
  takes a fragmented file and blocks larger than 16 KB. `WrittenRight` says that
  nothing else fails.
* How much of a block `pfs_file_read_raw` copies goes by the file's uncompressed
  size (`pfs_io.c:287`, `pfs.hpp:550`) also where the blocks are those of a compressed
  file. If that size is a multiple of the block, nothing is copied from the direct
  blocks beyond it: a compressed file that is larger than its data, header included,
  is read wrong (`Shrinks`). Whoever reads a compressed block asks for a whole block
  size from where it begins, and the end of the block list is not looked at:
  `Listed`. The two-block read needs the blocks of a compressed file to be
  consecutive, since its blocks begin anywhere: `Contiguous`.
* The converters return success without asking `fclose` (`selfdecrypt.c:606`,
  `unfself.c:168`, `makefself.c:324`); their callers then remove the original and rename
  the temporary over it (579, 596, 613). If the end of the temporary was lost, as on a
  full disk, so is the file, although `selfdecrypt.hpp:20` has success mean a plaintext
  ELF file. It is one of the gaps `hurt` names, beside a failed rename (580) and a file
  rewritten in place (`elfdowngrade.c:554`).
* A leftover temporary of an interrupted conversion is renamed away while its
  directory is read. If readdir had buffered its name, `stat64` fails
  (`util.c:315`) and the rest of the directory is not converted; nobody looks at the
  status (705). `Vanished` ends the pass as `cut`, of which `FinalForm` and `Tidy`
  say nothing.

GP4:

* The end of the last range of chunks is lost if the last chunk stands in the list
  twice (`gp4.c:289`): `Unended` names what is missing.
* The same file given for reading and writing meta data is emptied before it is read,
  and no project is made (`gp4.c:598`). Paths with a colon, a leading `#` or outer
  blanks are lost, or one line hides another (`dict.c:66`), or neither is found
  afterwards (`dict.c:75`): `Clear`.
* Over a decrypted image without meta data, places are those in the image and chunks
  are looked up with them: `ChunksRight` speaks of packages.
* System entries in directories of their own have no directory element
  (`gp4.c:413`), nor has `sce_sys/about`. A place exactly at the end of an image is
  looked up behind the block list (`pkg.c:1611`, `>`), which the instances avoid.

Executables:

* Unwrapping a fake SELF finds blobs by their length (`unfself.c:95`); a
  parameter segment as long as a digest table comes out as zeros. `Distinct`, in
  `RoundTrip`, says which lengths must differ.
* The dynamic table usually lies in a data segment. It is patched as a table, and
  then the contents of the segment are scanned for raw addresses
  (`elfdowngrade.c:363`): a value that is still in the old range is shifted
  again. `ShiftedTwice` says when, `PointersFollow` to what.
* A short header at the start of a segment that is followed by another makes a
  hole of the rest of the segment (`SharersCover`); the addresses shifted by a
  move reach into the following segment if a later one is larger
  (`NoneLargerBehind`).

## 4. Proofs

TLAPS proves, in seven modules (the eighth that holds lemmas is `Induction`):

| theorem | states | for every |
|---|---|---|
| `PfsAllocProofs!InvariantHolds` | `Spec => []IInv` | number of blocks, files, direct and indirect slots, set of source images |
| `PfsAllocProofs!TypeCorrect` | `Spec => []TypeOK` | same |
| `PfsAllocProofs!NeverShared` | `Spec => []NoSharing` | same |
| `PfsAllocProofs!SpaceBalance` | `Spec => []Accounted` | same |
| `PfsAllocProofs!StaysWhole` | `Spec => []WellPlaced` | same |
| `PfsAllocProofs!BackupSafe` | `Spec => BackupUntouched` | same |
| `PfsAllocProofs!ImplementsLedger` | `Spec => LedgerKept` | same |
| `PkgOpenProofs!Releases` | `Spec => []ReleasedOnce` | set of packages, configurations and command lines |
| `PkgOpenProofs!Readables` | `Spec => []KeysFit` | same |
| `PkgOpenProofs!EntriesWritten` | `Spec => []EntriesComplete` | same |
| `PkgOpenProofs!Crashes` | `Spec => []NoCrash` | same |
| `PkgOpenProofs!PlainEntries` | `Spec => []Sc0Plain` | same |
| `PkgOpenProofs!RightKeysOpen` | `Spec => []RightKeyOpens` | same |
| `UnpackPostProofs!PayloadsSurvive` | `Spec => []PayloadKept` | set of files and images, number of faults, repeated names and runs |
| `UnpackPostProofs!OthersUntouched` | `Spec => OnlyOwnFile` | same |
| `UnpackPostProofs!AllConverted` | `Spec => []FinalForm` | same |
| `UnpackPostProofs!NothingLeft` | `Spec => []Tidy` | same |
| `UnpackTreeProofs!MatchesAsMeant` | `Spec => []MatchIsGlob` | set of images and command lines, alphabet |
| `UnpackTreeProofs!UnpacksAll` | `Spec => []WholeTree` | same |
| `UnpackTreeProofs!UnpacksNamed` | `Spec => []NamedUnpacked` | same |
| `UnpackTreeProofs!TellsAll` | `Spec => []StopCutsDirectory` | same |
| `PfsReadProofs!WritesRight` | `Spec => []WrittenRight` | size of blocks, chunks and image, number of direct blocks, set of files |
| `FSelfProofs!SoundLayout` | `Spec => []LayoutSound` | set of executables, alignment, block and digest size |
| `FSelfProofs!ComesBack` | `Spec => []RoundTrip` | same |
| `PfsRepackProofs!Verbatim` | `Spec => []VerbatimIfUnchanged` | set of images, directories and manifests, layout, keys |
| `PfsRepackProofs!SoundRuns` | `Spec /\ []RequestApart => []SoundRun` | set of sound images, set of directories and manifests, number of blocks, inodes, direct and indirect pointers, size of blocks and tables, keys, number of runs |
| `PfsRepackProofs!Purposes` | `Spec /\ []RequestApart => []OnePurpose` | same |
| `PfsRepackProofs!Merkle` | `Spec /\ []RequestApart => []MerkleIntact` | same |
| `PfsRepackProofs!Owners` | `Spec /\ []RequestApart => []BatNamesOwner` | same |
| `PfsRepackProofs!Reloads` | `Spec /\ []RequestApart => []OutputReloads` | same |
| `PfsRepackProofs!Signatures` | `Spec /\ []RequestApart => []HeaderSigned` | same |
| `PfsRepackProofs!HeaderStays` | `Spec /\ []RequestApart => []HeaderNeverData` | same |

### The allocator

Assumptions: `AllocConstants` (at least one block and one direct slot, at least
one slot behind the indirect block, inode numbers below the BAT flag; these are
the code's layout) and `ImagesSound` (the source image is sound in the sense of
`Sound`; an image made by the console, or by an earlier run, is). TLC evaluates
both in `pfs_alloc`.

`NoSharing` alone is not inductive: that a reserved block is fresh needs
`Accounted` (what is claimed is marked, the pool is what is not marked);
`Accounted` after a release needs `NoSharing` (nothing else claims the released
block) and `BackupMarked` (nor does the backup generation); `WellPlaced` after a
reservation needs the indirect block to be reserved first, which is part of
`OperationShape`; `EndRun` and `Restart` need the source to be `Sound`, which
`WellPlaced`, `Accounted` and `NoSharing` together give back for the
next source. `IInv` is their conjunction. There is one lemma per action;
`BackupSafe` follows from `IInv` and the fact that reserved blocks come from the
pool and released blocks are claimed, neither of which meets the backup.

`ImplementsLedger` maps the pool to the unmarked blocks, a file's share to the blocks
it points to, and what is held to the old and the new pointers of the operation. Each
action maps to one of the ledger or to a stutter, with a lemma of its own, all from
`IInv`: `ReserveTakes` needs that the reserved block was unmarked and its slot empty, `ReleaseGives` that no
other pointer of the operation names the released block (`NoSharing`), `CommitCloses`
that nothing old is left, `ExhaustedStuck` that a scan of the bitmap that finds
nothing means an empty pool, `RestartResets` that `Load` brings back pool and pointers.

### Opening and letting go

`ReleasedOnce` says nothing of the states before something is
released, so it is proved with `Held`: at each place of the program, what is held is
what the pointers that will be used to release it name (`Intact`), the cleanup ahead
covers all of it (`Covered`), and after a refused `pfs_image.dat` only its stale
mapping pointer is left (`Dropped`). `PassHeld` deals at once with all steps that
acquire nothing; each step that acquires or releases has a step of its own.
`KeysFit` is inductive together with the domain of `pfs` (`Opened`): an image
becomes `held` only where `pfs_alloc` has copied keys that fit into the device
(`OpensRight`), and no later step changes that copy.

### Keys

Assumption: `JobsSound` (a command line is for one of the three commands, its
configuration and the entries of its package are lists, and a key or a content ID
that is there is not the mark of a missing one), evaluated in `pkg_open`.

Which key wins is decided in several places, long before it shows: the
configuration makes keysets, the options look one up in one round and override it
in another, opening an image adds derived keys to it. `KeyInv` follows them.
`Keysets`: until an image is opened, every keyset is made of exactly the lines read
so far that are in its section. `Options`: what the two rounds of the options callback
have settled, and what they have left to the next. `Chosen`: what the keyset that will
be used holds is what was given, and nothing that was given is missing, unless what
it gives way to is there (`Found`, after the first round; `Ready`, after the second,
when the command line has been looked at too). `InnerUsed` and `Needed` say which
image a handler meets. `Written`: of the entries before the current one, those that
were asked for and have a key are written. `KeyIInv`, the conjunction with `IInv` and
the soundness of the job, is inductive. `EntriesComplete` is `Written` at the end of the
loop, with `HasKey` traced back from the keyset to the options. `NoCrash` follows
because a pointer that is followed belongs to an image that `InnerUsed` says is there, and a
content key that is copied is asked for only if `Bare` or the configuration says so.
`Sc0Plain` needs no more than `Found`, and `RightKeyOpens` that a `Ready` keyset whose
keys are all right opens the image (`ReadyOpens`), for each of the ways into it.

### Conversion in place

Assumption: `ImagesAreWhole` (what the image holds is whole and belongs to the file
it is of), evaluated in `unpack_post`. That a complete copy exists (`PayloadKept`)
is not inductive: a stage that declines a torn file removes its temporary without
looking at it, and that could be the only complete copy. It never is. `Guarded` says
that there is a complete copy of which no torn name is a proper prefix; a temporary
of a torn name is not such a copy. A temporary that is cut short and about to be
renamed over its original counts as a torn name already (`Returning`). With it go
`Named` (a name's content is of the file whose name it starts with) and `Steps`
(what is in the directory between the file operations of a conversion: both copies
before the removal, the temporary before the rename; and if the temporary is cut short
while the original is whole, the file is in `hurt`). Each operation is a change of
two sets, the names and the sound names, and has a lemma about these sets alone
(`TmpLost`, `NameLost`, `NameBack`, `OtherFile`). `OthersUntouched` needs no
invariant.

`FinalForm` speaks of the end of a pass only; `FInv` adds to `IInv` what holds on the
way there. `Convertible`: whatever was done to a complete file, in this run or in one
that was stopped, the stages as a whole (`Converted`) make of it what they make of the
file in the image. `Turn`: during a file's turn the stages still to come (`Rest`) make
that of it, and an ELF that reaches the wrapping stage has been downgraded (`Low`;
without it a file could be wrapped above the target, which no later stage undoes).
`Behind`: the files whose turn is over have their final form. Two lemmas about
contents carry it, a stage that takes the file moves it on (`Advance`) and one that
does not leaves it to those after it (`PassOver`); `Callback` says once for all steps
of a turn that the other files are as they were, from `NextOwn`.

`Tidy` is proved with `TInv`. `Intact`: a file of the image is complete under its own
name, but while its own conversion replaces or rewrites it. `NoStray`: in the first run
the only temporary is the one the conversion at hand is using, or the one that
`decrypt_self_in_place` left when it failed; the next stage, `unfself_in_place`, then
applies to the same file (`SameStage`), and makes the same temporary anew or removes
it. A pass that ends has been through all stages, so none is left.

### Comparison with a mask

Assumption: `JobsAreText` (names in the image and on the command line are
sequences of characters, directories hold entries), evaluated in `unpack_tree`.
`Glob` is defined by the sets of prefixes that match (`Fits`, a recursive function
over the mask). `MatchSound` says what the loop knows at each iteration: behind the
cursors name and mask match, and the answer is yes exactly if the rest can be matched
from the cursors or from a later start at the place to fall back to. `CanResume` is why one such
place is enough: the part of the mask since the last star has no star, so it takes
the same number of characters wherever it is tried, and an earlier star can give
nothing that the last one cannot. `Flattened` and `Rows` unroll `Fits` by one
column; `StarSound`, `CompareSound`, `FallBackSound` and `EndOfName` are the branches of the
loop. `MInv` adds that what is compared is text (`Walking`, `Asked`).

### Unpacking a tree

Assumptions: `JobsAreText`, and `ImagesAreTrees`: names are not empty and have no
slash, an entry is of the kind of its inode, and no directory is below itself. The
tool checks none of it, but an image made by a console is so; with a directory below
itself the walk would not end, and there would be no tree to compare it with. Both are
evaluated in `unpack_tree`. `WholeTree` and `NamedUnpacked` speak of images without
two names that differ in case only (`CaseDistinct`).

The tree is defined level by level, the walk goes through it depth first. `Levels`
unrolls the levels and `TreeGrows` shows that there are no more of them than
directories (the depth of an entry bounds its level); then `TreeRooted` and
`TreeInduction` say of the tree what the proofs use: everything in it is below
something in it or below the root, and what holds of the root and passes from a
directory to its entries holds of the tree. `JoinFacts` and `JoinAncestors` are about
paths: a path and its last name give each other. With them `OnePath`: one path, one
entry; and `LookupRight`: `pfs_lookup_path`, part by part and without regard to case,
finds the inode that the walk is at. This is where `CaseDistinct` is needed.

`TreeInv` is inductive together with `MInv`. `InTree`: the directories being read are
in the tree, and the walk has asked the host for them and their parents, which are
there or refused (`Entered`). `HostRight`: what is on the host is in the tree, holds
what it should, and lies in directories that are there; so making the directories of a
path, however far the host lets it come, makes nothing but directories of the tree.
`RefusedDirs`: what was refused is a directory of the tree. `NothingMissed`: what is
wanted of a directory that was asked for was asked for too, or it is ahead of the walk in
that directory. A file that was asked for is there, since nothing but a directory is
ever refused without ending the program. `WillMatch`: if the entry at hand is
wanted, one of the comparisons still to come is that of its path with itself, or is
under way, or has succeeded; that it succeeds is `StepSound` with `GlobSelf`.
`FilterMade` is what `ParseArgs` leaves: the filter holds the parents of its names. It
is needed once, at the end (`AllThere`): when the walk is over nothing is ahead of it,
so by induction over the tree what is wanted is there, if what it is in is wanted too
(`WantedAbove`).

### Enumerating a tree

The same tree and the same walk, with a callback in place of the host; `CaseDistinct`
is asked for because a path must name one entry and a name one place in its directory
(`PlaceIs`). The inductive invariant is `EnumInv`. `BeingRead`: the directories on the
stack are different ones, the callback knows of them, and it has stopped neither at one of
them nor in one. `NoneLost`: of a directory that was told of, an entry was told of, or it
is ahead of the walk, or it stands behind a stop, or the directory itself was stopped at.
`NoneEarly` is the converse, that these exclude one another: what is ahead or cut off has
not been told of, nor what is in a directory not told of. It gives the two facts that a
single run hardly shows: an entry that comes up is a new one (`NotToldYet`), and a stop
deep in the tree leaves no trace in the directories above it. `HeardInTurn` to
`HeardNoneLost` are the four parts for a call of the callback, `PassVisited` and
`LeaveVisited` for the steps that tell of nothing. At the end the stack is empty:
`AllTold` and `ToldNotCut` are the two inclusions, both by induction over the tree.

### Reading a file

Assumptions: `ReadConstants` (sizes are positive, a block of a compressed file is a
whole number of chunks, and of block and chunk one is a multiple of the other:
they are powers of two) and `FilesSound`, evaluated in `pfs_read`.

`BlockByBlockDef` turns the loop of `pfs_file_read_raw` into its steps, by `Loop`;
`BlockAppends` is one of them: what is copied, and that it fails only at the end of the
image. `Reaches` is the heart of it: if a read succeeds, the unit it returns
for position `off + k - 1` is the one of that position of the file, provided the position
is inside the uncompressed size and the copy does not run over the edge of a block,
or the blocks are consecutive. It follows the iteration that copies the unit, over
those before (which are all full, `Copies`) and after it. `ChunkFits` and `RawInBlock`
say that an aligned chunk never runs over the edge of a larger block, which is what
makes fragmented files right. `BlockStored` gives what a compressed block needs from
`FileSound`, `Contiguous` and `Shrinks`. With them (`RawChunk`, `CompressedChunk`) the
inductive invariant `CInv`, offsets that are multiples of a chunk and a chunk that is
the one of its offset (`Underway`), is kept by both halves of the copy loop.

### Executables

Assumptions: `SizesArePositive` and `ElfsAreElfs` (an executable has a header and a
list of program headers), evaluated in `fself`. The offsets of the entries are a fold over
the segments; `OffsetsDef`, `EntriesDef`, `BlobsDef` and `WrappedDef` unroll such
definitions by one segment. `LayoutSound` then follows from `OffsetsGrow` and
`EntryPlace`. `RoundTrip` needs to know which blobs the loop of
`self_unfself_buffer` has used up when it looks for the next (`Served`): those of
the segments before (`PlacedBlobs`), nobody has taken the blob of another. Under
`Distinct`, a header with a blob finds its own (`SegmentFindsBlob`,
`VersionFindsBlob`), and one without finds none (`OthersFindNone`).

### Repacking

`Verbatim` takes no look inside the writers: as long as `changed` is not set, the
working context is the copy the run began with (`VInv`), since every handler that
writes returns through `Return`, which sets the flag or gives the run up.

The other theorems do look inside. They assume

* `ImagesSound`: the images a console leaves are sound (`SoundImage` in `PfsSound`).
  Dinode tables and metadata files are where they belong; no two pointers name one
  block, and none names the header; every digest is right; what a pointer names is
  marked in bitmap or BAT, and the BAT has its owner; directory entries name inodes of
  the user tree; the header has an auth code. The tool checks none of this.
* `InputsPlain`: host paths are non-empty sequences of names, and host data is no
  directory entry (units are tagged, see the abstractions in section 2).
* `SpecialInodes`: the three metadata files are three files, and uroot is none of them.
* `RequestApart`, as a condition on behaviours: no file that the request replaces is
  empty in the source of its run, or there under two names. Where it fails the
  properties fail too: an empty file lists block 0 (finding 1, which `empty_file`
  reaches), and a second name would be handled with the size and blocks the file had
  before the first.

TLC evaluates the first three in every run of `MCPfsRepack`, and the fourth with the
invariant, as `SoundRun`, in `repack_again`.

None of the properties is inductive. That grow finds free blocks to be nobody's
needs `OnePurpose`, with the backup generation and what was lost of large files named;
that shrink and put_content free the right blocks needs links to be injective; that a
patch of the next target writes to the blocks listed in the *source* needs every target
still to be visited, and every metadata file until the flush, to be as it was there,
pointers and contents of blocks included (`Same`, `TargetsSame`, `MetaSame`); that
collect_blocks gives up on a file beyond single indirection is harmless only as such
files are as in the source, so that their blocks are known (`LostIn`); that removal
frees inodes of the user tree only needs directory entries to be right everywhere
(`EntriesSound`); that `done` is a sound image for the next run needs the metadata
files to hold what is in memory (`MetaStored`), which the flush establishes with three
patches, each of which must leave the other two files alone. `RunInv` is the conjunction.

The proof goes from the bottom up. The folds of `StoreContent`, `Reserve`, `FreeBlocks`,
`LookupPath` and `FreeDirRecursive` are turned into their steps by `Loop`
(`WriteFold`, `Grown`, `Refitted`, `LookupFold`, `FreeAllFold`). `StoreResult` says what
a writer leaves: file, pointers, digests and super root agree, and nothing but the
file's blocks and its table is written. `Mid` is what holds between reservation and
writing, `Refitted` that reserving and freeing end with exactly the blocks the
file is to have. `Moved` says what a change of one inode does to a sound image as seen
by all the others; `MovedSound`, `MovedEntries` and `MovedKeeps` conclude that `Sound`
is kept. Then each writer is shown to do that or to give up without harm (`PutContentDone`,
`PatchFileDone`, `GrowFileDone`, `ShrinkFileDone`), each directory and inode operation to
keep a good context (`DirInsertGood` to `RemovePathGood`), and each action to keep `RunInv`,
with one lemma per action; `HeadedLoads` is the round trip through the image at the end.

### Model-checked only

* `TreeSound`, `Delivered` and the refinement of `PfsTree` by `PfsRepack`. They are about
  paths: the walk of the tree to a bounded depth, each inode under one name, and what one
  write does to all that lies below it. `RunInv` has the half of it that is about
  blocks (no other inode notices a write, `Moved`), not the half about names.
* `Gp4` and `Memhole`.
* Liveness (`WalkEnds`): out of the prover's reach, with `ENABLED`.

The library's induction theorems take an operator, which the provers cannot
instantiate. `Induction` states what these proofs need of them as facts about
sets (`Least`, `UpTo`) and functions (`Loop`), so that a loop written as a recursive
function over `0 .. n` can be reasoned about.

## 5. Not modelled, and the plan

Not modelled, with the reason in `PROJECT.json`:

* Vendored code: the Zydis disassembler, which is some 105 000 of the repository's
  126 000 lines, and getopt, dirent and mmap for Windows.
* Cryptography and compression: wrappers around mbedtls and zlib, abstracted to
  terms and to lengths.
* Mapped files, SFO parsing, SELF headers, the dump of an image, the parsing of
  playgo data: reading of tables with bounds checks, and output; no state that
  outlives a call.
* Of modelled parts: 64-bit and unsigned dinodes and triple indirection, split
  packages, the sealed key file, the flat path table, option files.

Plan, in this order:

1. Proofs: the properties of `Gp4` about one file (`ChunksRight`); `NoGaps` of `Memhole`;
   facts about `PfsTree` (a run never touches a path that it was not given); `TreeSound`,
   on top of `RunInv`.
2. `pfs_block.c` for the other pointer layouts.
3. Mapped files with sub-regions and split packages; playgo and SFO parsing as
   pure operators.
