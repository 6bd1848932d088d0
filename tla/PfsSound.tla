------------------------------- MODULE PfsSound -------------------------------
(***************************************************************************)
(* When an image is sound, and what a run keeps of it.  A console leaves   *)
(* sound images; the tool checks none of this.  The theorems of            *)
(* PfsRepackProofs say what a run does to a sound image, and their         *)
(* inductive invariant is built from the parts below.                      *)
(***************************************************************************)
EXTENDS PfsRepackProps

(* Inodes a directory entry may name; inode 0 is the super root *)
UserInos == (1..(NInodes - 1)) \ SysInos

-----------------------------------------------------------------------------
(* Shape: the tables of dinodes are where the super root says, bitmap and  *)
(* BAT have an entry per block.                                            *)
IsDinode(d) ==
  /\ d = [mode |-> d.mode, comp |-> d.comp, link |-> d.link, size |-> d.size,
          count |-> d.count, direct |-> d.direct, ind |-> d.ind, ind2 |-> d.ind2]
  /\ d.size \in Nat /\ d.count = CeilDiv(d.size, BBS)
  /\ d.direct = [k \in 1..NDirect |-> d.direct[k]]

IsTable(content) ==
  /\ content = Dinodes(content[2])
  /\ content[2] = [n \in 0..(IPB - 1) |-> content[2][n]]
  /\ \A n \in 0..(IPB - 1) : IsDinode(content[2][n])

Shape(c) ==
  /\ c = [out |-> c.out, root |-> c.root, bitmap |-> c.bitmap, bat |-> c.bat,
          inob |-> c.inob, dirty |-> c.dirty]
  /\ c.out = [b \in Blocks |-> c.out[b]]
  /\ c.root = [s \in DinodeBlocks |-> [no |-> c.root[s].no, dig |-> c.root[s].dig]]
  /\ c.bitmap \in [Blocks -> BOOLEAN]
  /\ c.bat = [b \in Blocks |-> c.bat[b]]
  /\ c.inob \in [Inos -> BOOLEAN]
  /\ c.dirty \in BOOLEAN
  /\ \A s \in DinodeBlocks : IsTable(c.out[c.root[s].no])

-----------------------------------------------------------------------------
(* Pointers, of one inode and of the super root *)
Dinode(c, i) == DinodeAt(c.out, c.root, i)
Own(c, i) == DataLinks(c.out, i, Dinode(c, i)) \cup IndirectLinks(c.out, i, Dinode(c, i))
Tables(c) == {[kind |-> "dinodes", ino |-> 0, slot |-> s, ptr |-> c.root[s]] :
                s \in DinodeBlocks}
AllLinks(c) == Links(c.out, c.root)
Linked(c) == {l.ptr.no : l \in AllLinks(c)}

(* The BAT entry of the block a pointer names *)
BatRight(c, l) ==
  /\ l.kind = "data" /\ l.slot < MaxSingle =>
       c.bat[l.ptr.no] = IF l.slot < NDirect THEN l.ino
                         ELSE IndFlag + Dinode(c, l.ino).ind.no
  /\ l.kind = "ind" => c.bat[l.ptr.no] = l.ino

LinkSound(c, l) ==
  /\ l.ptr.no \in Blocks \ {0}
  /\ ~Free(c, l.ptr.no)
  /\ Verifies(c.out, l.ptr)
  /\ BatRight(c, l)

LinksSound(c) ==
  /\ \A l \in AllLinks(c) : LinkSound(c, l)
  /\ \A l, m \in AllLinks(c) : l.ptr.no = m.ptr.no => l = m

(* A directory entry names an inode of the user tree *)
EntriesSound(c) ==
  \A i \in Inos : \A j \in 1..Dinode(c, i).size :
    LET u == ReadContent(c.out, Dinode(c, i))[j]
    IN IsDirent(u) => u[2].ino \in UserInos

HeaderShape(content) ==
  /\ content = Header(content[2].root, content[2].hash, content[2].rest)
  /\ content[2].rest = [sig |-> content[2].rest.sig, auth |-> content[2].rest.auth,
                        authMagic |-> TRUE]

(* The three metadata files are there, plain, each its single unit.        *)
MetaSound(c) ==
  \A i \in SysInos : /\ Dinode(c, i).mode # "none"
                     /\ ~Dinode(c, i).comp
                     /\ Dinode(c, i).size = 1

SoundImage(img) ==
  LET c == Load(img)
  IN /\ Shape(c) /\ LinksSound(c) /\ EntriesSound(c) /\ MetaSound(c)
     /\ HeaderShape(img[0])

(* The files a run is about to replace: none is empty, and no two of the   *)
(* names lead to the same inode (the tool would take the second for what   *)
(* it was in the source).                                                  *)
Targets(img, h) ==
  {v.path : v \in {e \in Walk(img, RootOf(img)) : /\ e.type = "file"
                                                  /\ e.path \in DOMAIN h
                                                  /\ h[e.path].kind = "file"}}
TargetsApart(img, h) ==
  LET entry(p) == Enumerated(img, p)
  IN /\ \A p \in Targets(img, h) :
          /\ entry(p).ino \in UserInos
          /\ DinodeAt(img, RootOf(img), entry(p).ino).size > 0
     /\ \A p, q \in Targets(img, h) : entry(p).ino = entry(q).ino => p = q

-----------------------------------------------------------------------------
(* What a run keeps, from the source image s to the working context c *)

(* Inode i, its pointers and the blocks they name are those of d in c *)
Same(d, c, i) ==
  /\ Dinode(c, i) = Dinode(d, i)
  /\ \A l \in Own(d, i) : c.out[l.ptr.no] = d.out[l.ptr.no]

Backup(s) ==
  {b \in Blocks \ {0} : ~Free(Load(s), b)} \ LinkedBlocks(s, RootOf(s))
LostIn(s, c) ==
  {l.ptr.no : l \in {l \in Links(s, RootOf(s)) :
     /\ DinodeAt(s, RootOf(s), l.ino).count > MaxSingle
     /\ Dinode(c, l.ino).count <= MaxSingle}}
OutOfPlay(s, c) == Backup(s) \cup LostIn(s, c)

BackupKept(s, c) == \A b \in Backup(s) : c.out[b] = s[b]

Sound(s, c) ==
  /\ Shape(c) /\ LinksSound(c) /\ EntriesSound(c)
  /\ \A b \in Blocks \ {0} : ~Free(c, b) => b \in Linked(c) \cup OutOfPlay(s, c)
  /\ \A b \in OutOfPlay(s, c) : b \in Blocks \ {0} /\ ~Free(c, b) /\ b \notin Linked(c)
  /\ BackupKept(s, c)
  /\ \A t \in DinodeBlocks : c.root[t].no = RootOf(s)[t].no
  /\ \A i \in Inos : Dinode(c, i).count > MaxSingle => Same(Load(s), c, i)

(* The metadata files hold what is in memory *)
MetaStored(c) ==
  LET stored(i) == ReadContent(c.out, Dinode(c, i))[1][2]
  IN stored(BitmapIno) = c.bitmap /\ stored(BatIno) = c.bat /\ stored(InoBitmapIno) = c.inob

MetaSame(s, c) ==
  /\ \A i \in SysInos : Same(Load(s), c, i)
  /\ ~c.dirty => /\ c.bitmap = Load(s).bitmap
                 /\ c.bat = Load(s).bat
                 /\ c.inob = Load(s).inob

-----------------------------------------------------------------------------
(* What the runs are given: images that are sound, and host files whose    *)
(* units are no directory entries, under paths that are sequences of names. *)
IsSeq(x) == x \in Seq(ToSet(x))
Payload(content) == IsSeq(content) /\ \A u \in ToSet(content) : ~IsDirent(u)

ASSUME ImagesSound == \A img \in Images : SoundImage(img)
ASSUME InputsPlain ==
  /\ \A h \in HostDirs : \A p \in DOMAIN h :
       IsSeq(p) /\ p # <<>> /\ Payload(h[p].content)
  /\ \A m \in Manifests : IsSeq(m) /\ \A n \in DOMAIN m : IsSeq(m[n])

RequestApart == TargetsApart(src, host)

-----------------------------------------------------------------------------
(* The inductive invariant *)
Working == {"mods", "removes", "adds", "flush"}
Inputs ==
  /\ host \in HostDirs \cup {<<>>} /\ manifest \in Manifests \cup {<<>>}
  /\ todo \subseteq DOMAIN host
  /\ line \in Nat \ {0}

TargetsSame ==
  phase = "mods" =>
    /\ todo \subseteq Targets(src, host)
    /\ \A p \in todo : Same(Load(src), ctx, SrcEntry(p).ino)

RunInv ==
  /\ SoundImage(src)
  /\ Inputs
  /\ Alive => Sound(src, ctx)
  /\ BackupKept(src, ctx)
  /\ IsHeader(ctx.out[0])
  /\ phase \in Working => MetaSame(src, ctx)
  /\ phase \in Working \cup {"sign"} => ctx.out[0] = src[0]
  /\ phase = "sign" => MetaStored(ctx) /\ MetaSound(ctx)
  /\ phase = "done" => SoundImage(ctx.out) /\ Load(ctx.out) = [ctx EXCEPT !.dirty = FALSE]
  /\ TargetsSame
  /\ HeaderSigned

(* Every handler of pfs_repack_apply_mods (main.c 2370-2524), whatever it   *)
(* calls and wherever that fails, keeps all of RunInv: the context is a    *)
(* sound image, the backup generation and block 0 are those of the source, *)
(* so are files still to be visited, and a run that ends has written a     *)
(* sound image again.  RequestApart, on which this rests, is part of it so *)
(* that a run shows that it holds.                                         *)
SoundRun == RequestApart /\ RunInv
===============================================================================
