---------------------------- MODULE MCUnpackPost ----------------------------
(* Two files at a time: a module and one of everything else it may meet    *)
EXTENDS UnpackPostProps

File(f, form, sdk) == [of |-> f, form |-> form, sdk |-> sdk, whole |-> TRUE]
MCFiles == {"eboot", "other"}
Image(a, b) == [f \in MCFiles |-> IF f = "eboot" THEN a ELSE b]
MCOriginals ==
  {Image(File("eboot", "self", "hi"), File("other", form, sdk)) :
     form \in {"elf", "sfo"}, sdk \in {"hi", "none"}}
  \cup {Image(File("eboot", "fself", "at"), File("other", "self", "hi")),
        Image(File("eboot", "elf", "hi"), File("other", "data", "none"))}
MCOther == {"other"}
=============================================================================
