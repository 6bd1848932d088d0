----------------------------- MODULE PfsRepack -----------------------------
(***************************************************************************)
(* The repack command for signed savedata images (main.c,                  *)
(* pfs_repack_handler and pfs_repack_apply_mods).  A run copies the source *)
(* image to the output and applies a modification directory to the copy:   *)
(*                                                                         *)
(*   mods     grow / shrink / patch every image file the directory also    *)
(*            has                                                          *)
(*   removes  the lines of __remove.txt, in order                          *)
(*   adds     everything in the directory the image still lacks            *)
(*   flush    blk_bitmap, block_addr_table and ino_bitmap, if edited       *)
(*   sign     header hash, SD signature, SD auth code                      *)
(*                                                                         *)
(* The tool is a single thread: one action is one handler, from its call   *)
(* to its return.  Runs follow one another: the output of a run that       *)
(* succeeded is the source of the next one, a run that failed is started   *)
(* again from its source.                                                  *)
(***************************************************************************)
EXTENDS PfsWrite

CONSTANTS
  Images,       \* source images a console or an earlier run may have made
  HostDirs,     \* modification directories: path -> [kind, content]
  Manifests,    \* sequences of paths, the lines of __remove.txt
  KeySets,      \* which of the "sig" and "auth" keys the user has
  SdKeyVer,     \* pfs->hdr.sd_key_ver
  MaxRemoves,   \* PFS_REPACK_MAX_REMOVES (256)
  MaxRuns       \* bound: runs in a behaviour

ASSUME RunParameters == {SdKeyVer, MaxRemoves, MaxRuns} \subseteq Nat

VARIABLES
  src,        \* the source image of the run
  ctx,        \* the working context of PfsWrite
  phase,
  host, manifest, keys,   \* the run's inputs
  todo,       \* paths the current walk has still to visit
  line,       \* next line of the manifest
  changed,    \* ctx->changed > 0
  run         \* runs started

inputs == <<host, manifest, keys>>
vars == <<src, ctx, phase, inputs, todo, line, changed, run>>

-----------------------------------------------------------------------------
HeaderHash(root) == <<"hash", root>>
(* What becomes of header[0x3A0..] if block 0 was overwritten with data *)
NoRest == [sig |-> <<"none", 0>>, auth |-> <<"none", 0>>, authMagic |-> FALSE]

RootOf(img) == img[0][2].root
MetaFile(img, i) == ReadContent(img, DinodeAt(img, RootOf(img), i))[1][2]

(* The copy of the source and the decrypted allocator metadata *)
Load(img) ==
  [out |-> img, root |-> RootOf(img),
   bitmap |-> MetaFile(img, BitmapIno), bat |-> MetaFile(img, BatIno),
   inob |-> MetaFile(img, InoBitmapIno), dirty |-> FALSE]

SrcEntry(p) == Enumerated(src, p)
SrcDinode(p) == DinodeAt(src, RootOf(src), SrcEntry(p).ino)

NextSource == IF phase = "done" THEN ctx.out ELSE src

Init ==
  /\ src \in Images
  /\ ctx = Load(src)
  /\ phase = "idle"
  /\ host = <<>> /\ manifest = <<>> /\ keys = {}
  /\ todo = {} /\ line = 1 /\ changed = FALSE
  /\ run = 0

-----------------------------------------------------------------------------
(* pfs_repack_handler up to pfs_repack_apply_mods, and its metadata load   *)
StartRun(h, m, k) ==
  /\ phase \in {"idle", "done", "failed"}
  /\ run < MaxRuns
  /\ run' = run + 1
  /\ src' = NextSource
  /\ ctx' = Load(NextSource)
  /\ host' = h /\ manifest' = m /\ keys' = k
  /\ phase' = "mods"
  /\ todo' = {v.path : v \in {e \in Walk(NextSource, RootOf(NextSource)) :
                                /\ e.type = "file"
                                /\ e.path \in DOMAIN h
                                /\ h[e.path].kind = "file"}}
  /\ line' = 1
  /\ changed' = FALSE

(* Faulty variant: a change that is not counted *)
ReturnUncounted(r, next, rest) ==
  /\ ctx' = r.c
  /\ phase' = IF r.ok THEN next ELSE "failed"
  /\ todo' = IF r.ok THEN rest ELSE {}
  /\ UNCHANGED changed

(* A handler returned r: go on, or give the whole run up *)
Return(r, next, rest) ==
  /\ ctx' = r.c
  /\ IF r.ok THEN phase' = next /\ todo' = rest /\ changed' = TRUE
             ELSE phase' = "failed" /\ todo' = {} /\ UNCHANGED changed

ModStep(p) ==
  /\ phase = "mods"
  /\ p \in todo
  /\ UNCHANGED <<src, inputs, line, run>>

GrowMod(p) ==
  /\ ModStep(p)
  /\ Len(host[p].content) > SrcDinode(p).size
  /\ Return(GrowFile(ctx, src, SrcEntry(p).ino, host[p].content),
            "mods", todo \ {p})

ShrinkMod(p) ==
  /\ ModStep(p)
  /\ Len(host[p].content) < SrcDinode(p).size
  /\ Return(ShrinkFile(ctx, src, SrcEntry(p).ino, host[p].content),
            "mods", todo \ {p})

SameContent(p) ==
  /\ SrcDinode(p).size > 0
  /\ ReadContent(src, SrcDinode(p)) = host[p].content

PatchMod(p) ==
  /\ ModStep(p)
  /\ Len(host[p].content) = SrcDinode(p).size
  /\ ~SameContent(p)
  /\ Return(PatchFile(ctx, src, SrcEntry(p).ino, host[p].content),
            "mods", todo \ {p})

KeepMod(p) ==
  /\ ModStep(p)
  /\ Len(host[p].content) = SrcDinode(p).size
  /\ SameContent(p)
  /\ todo' = todo \ {p}
  /\ UNCHANGED <<ctx, phase, changed>>

EndMods ==
  /\ phase = "mods" /\ todo = {}
  /\ phase' = "removes"
  /\ UNCHANGED <<src, ctx, inputs, todo, line, changed, run>>

-----------------------------------------------------------------------------
(* pfs_repack_run_removes: one line of the manifest *)
Present(p) == Found(LookupPath(ctx.out, ctx.root, p))

RemoveLine ==
  /\ phase = "removes" /\ line <= Len(manifest)
  /\ Present(manifest[line])
  /\ Return(RemovePath(ctx, manifest[line]), "removes", todo)
  /\ line' = line + 1
  /\ UNCHANGED <<src, inputs, run>>

RemoveAbsent ==
  /\ phase = "removes" /\ line <= Len(manifest)
  /\ ~Present(manifest[line])
  /\ line' = line + 1
  /\ UNCHANGED <<src, ctx, phase, inputs, todo, changed, run>>

(* Faulty variant: one line short of the limit *)
RemovedBelow == {manifest[n] : n \in {m \in 1..Len(manifest) : m < MaxRemoves}}

(* The paths pfs_repack_run_adds remembers of the manifest *)
Removed == {manifest[n] : n \in {m \in 1..Len(manifest) : m <= MaxRemoves}}

(* pfs_repack_add_cb passes over what is removed or present; adding one    *)
(* path makes no other path present, so this is settled at the start.      *)
EndRemoves ==
  /\ phase = "removes" /\ line > Len(manifest)
  /\ phase' = "adds"
  /\ todo' = {p \in DOMAIN host : p \notin Removed /\ ~Present(p)}
  /\ UNCHANGED <<src, ctx, inputs, line, changed, run>>

-----------------------------------------------------------------------------
(* Faulty variant: a file of a new directory may come before the directory *)
AddStepAnyOrder(p) ==
  /\ phase = "adds"
  /\ p \in todo
  /\ UNCHANGED <<src, inputs, line, run>>

(* pfs_repack_add_cb.  list_directory_r visits a directory before what is  *)
(* in it; the order of siblings is the host file system's.                 *)
AddStep(p) ==
  /\ phase = "adds"
  /\ p \in todo
  /\ \A q \in todo : ~IsStrictPrefix(q, p)
  /\ UNCHANGED <<src, inputs, line, run>>

Parent(p) == LookupPath(ctx.out, ctx.root, Front(p))

AddNewFile(p) ==
  /\ AddStep(p)
  /\ host[p].kind = "file"
  /\ Found(Parent(p))
  /\ Return(AddFile(ctx, Parent(p).ino, Last(p), host[p].content),
            "adds", todo \ {p})

AddNewDir(p) ==
  /\ AddStep(p)
  /\ host[p].kind = "dir"
  /\ Found(Parent(p))
  /\ Return(AddDir(ctx, Parent(p).ino, Last(p)), "adds", todo \ {p})

SkipOrphan(p) ==
  /\ AddStep(p)
  /\ ~Found(Parent(p))
  /\ todo' = todo \ {p}
  /\ UNCHANGED <<ctx, phase, changed>>

EndAdds ==
  /\ phase = "adds" /\ todo = {}
  /\ phase' = IF ~changed THEN "done" ELSE IF ctx.dirty THEN "flush" ELSE "sign"
  /\ UNCHANGED <<src, ctx, inputs, todo, line, changed, run>>

-----------------------------------------------------------------------------
(* Faulty variant: block_addr_table not written back *)
FlushMetaNoBat(c) ==
  Then(PatchFile(c, src, BitmapIno, <<<<"m", c.bitmap>>>>),
       LAMBDA d : PatchFile(d, src, InoBitmapIno, <<<<"m", d.inob>>>>))

(* The metadata files go back with patch_file, each from its own copy *)
FlushMeta(c) ==
  Then(Then(PatchFile(c, src, BitmapIno, <<<<"m", c.bitmap>>>>),
            LAMBDA d : PatchFile(d, src, BatIno, <<<<"m", d.bat>>>>)),
       LAMBDA d : PatchFile(d, src, InoBitmapIno, <<<<"m", d.inob>>>>))

Flush ==
  /\ phase = "flush"
  /\ Return(FlushMeta(ctx), "sign", todo)
  /\ UNCHANGED <<src, inputs, line, run>>

(* The SD signature is enforced, and so must be made, from version 3 on.   *)
(* Faulty variant: version 3 itself left out                               *)
NeedSigFrom4 == SdKeyVer > 3
NeedSig == SdKeyVer > 2

(* The header fields and hash, then the SD signature, then the auth code.  *)
(* A missing signature key is noticed after the header is in place.        *)
SignHeader ==
  LET hash == HeaderHash(ctx.root)
      rest == IF IsHeader(ctx.out[0]) THEN ctx.out[0][2].rest ELSE NoRest
      sig == IF NeedSig THEN hash ELSE rest.sig
      auth == IF rest.authMagic /\ "auth" \in keys THEN hash ELSE rest.auth
      unsigned == Header(ctx.root, hash, rest)
      signed == Header(ctx.root, hash, [rest EXCEPT !.sig = sig, !.auth = auth])
  IN /\ phase = "sign"
     /\ IF NeedSig /\ "sig" \notin keys
          THEN phase' = "failed" /\ ctx' = [ctx EXCEPT !.out[0] = unsigned]
          ELSE phase' = "done" /\ ctx' = [ctx EXCEPT !.out[0] = signed]
     /\ UNCHANGED <<src, inputs, todo, line, changed, run>>

(* The process has exited and no further run is made *)
Finished ==
  /\ phase \in {"done", "failed"} /\ run = MaxRuns
  /\ UNCHANGED vars

Next ==
  \/ \E h \in HostDirs, m \in Manifests, k \in KeySets : StartRun(h, m, k)
  \/ \E p \in todo : GrowMod(p) \/ ShrinkMod(p) \/ PatchMod(p) \/ KeepMod(p)
  \/ EndMods
  \/ RemoveLine \/ RemoveAbsent \/ EndRemoves
  \/ \E p \in todo : AddNewFile(p) \/ AddNewDir(p) \/ SkipOrphan(p)
  \/ EndAdds
  \/ Flush \/ SignHeader
  \/ Finished

Spec == Init /\ [][Next]_vars
=============================================================================
