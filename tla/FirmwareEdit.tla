---------------------------- MODULE FirmwareEdit ----------------------------
(***************************************************************************)
(* chipsec_util uefi remove, insert_before, insert_after and replace        *)
(* (modify_uefi_region, chipsec/hal/spi_uefi.py) with the walks over the    *)
(* volumes of an image and the files of a volume (chipsec/hal/uefi_fv.py).  *)
(* Bytes come in units of four; a file header is two, a volume header two,  *)
(* and files are aligned to two, within their volume.                       *)
(***************************************************************************)
EXTENDS Integers, Sequences, SequencesExt

\* An erased unit, by the polarity of its volume; what the edit fills with is always 0xFF.
Erased(p) == [of |-> p, id |-> "", n |-> 0, size |-> 0]
FF == Erased("ff")
FileHeader == 2
VolumeHeader == 2
Sizes == {3, 4}
Commands == {"remove", "insert_before", "insert_after", "replace"}

VARIABLES
  command, newSize,  \* what is done, and the size of the new file
  original, data,    \* the image before, and as it is now
  pc, fv, img,       \* offset of the volume and its image when it was found
  off,               \* where the next file is looked for
  change,            \* FvLengthChange
  endOff             \* FvEndOffset, which is not reset for a volume

vars == <<command, newSize, original, data, pc, fv, img, off, change, endOff>>
inputs == <<command, newSize, original>>

align(n) == ((n + 1) \div 2) * 2
Fill(n) == [i \in 1 .. n |-> FF]
\* Python's s[from:to], which is cut off at the end of s.
Part(s, from, to) == SubSeq(s, from + 1, IF to <= Len(s) THEN to ELSE Len(s))
Upto(s, to) == Part(s, 0, to)
From(s, from) == Part(s, from, Len(s))

File(g, s) == [i \in 1 .. s |-> [of |-> "file", id |-> g, n |-> i, size |-> s]]
Padded(file, blank) == file \o [i \in 1 .. align(Len(file)) - Len(file) |-> blank]

\* An object of the kind and size at o, complete up to the given length.
ObjectAt(s, o, kind, len) ==
  /\ o + len <= Len(s) /\ s[o + 1].of = kind /\ s[o + 1].n = 1
  /\ \A i \in 1 .. len : s[o + i] = [s[o + 1] EXCEPT !.n = i]

\* NextFwVolume: the next complete header whose volume fits into the image, or -1.
NextFwVolume(s, from) ==
  LET at == {o \in from .. Len(s) - VolumeHeader - 1 :
               ObjectAt(s, o, "volume", VolumeHeader) /\ o + s[o + 1].size <= Len(s)}
  IN IF at = {} THEN -1 ELSE CHOOSE o \in at : \A p \in at : o <= p

\* NextFwFile: blank headers and headers with an invalid state are skipped in steps of the
\* alignment, and what is no header that makes sense ends the search.
NextFwFile(s, from) ==
  LET blank == Erased(s[1].id)
      room == {o \in align(from) .. Len(s) - FileHeader - 1 : o % 2 = 0}
      at == {o \in room : /\ \E i \in 1 .. FileHeader : s[o + i] # blank
                          /\ ~(ObjectAt(s, o, "invalid", FileHeader) /\ s[o + 1].size <= Len(s) - o)}
      first == CHOOSE o \in at : \A p \in at : o <= p
  IN IF at = {} THEN -1
     ELSE IF ObjectAt(s, first, "file", FileHeader) /\ s[first + 1].size <= Len(s) - first
          THEN first ELSE -1

FindVolume ==
  /\ pc = "volume"
  /\ LET o == NextFwVolume(data, IF img = <<>> THEN 0 ELSE fv + Len(img)) IN
     \/ o = -1 /\ pc' = "end" /\ UNCHANGED <<fv, img, off>>
     \/ /\ o # -1 /\ pc' = "files" /\ fv' = o /\ off' = VolumeHeader
        /\ img' = Part(data, o, o + data[o + 1].size)
  /\ UNCHANGED <<inputs, data, change, endOff>>

New == Padded(File("new", newSize), FF)


\* Where the files of the volume end now, given where they ended and the change so far.
FilesEnd(next, before, after) == next + after

\* The next file, found in the volume as it was; one with the GUID is edited in the data.
EditFile ==
  LET o == NextFwFile(img, off)
      f == img[o + 1]
      cur == fv + o + change
      nxt == fv + o + f.size + change
  IN /\ pc = "files" /\ o # -1
     /\ change' = IF f.id # "g" THEN change ELSE IF command = "remove" THEN change - f.size
                  ELSE IF command = "replace" THEN change + Len(New) - f.size ELSE change + Len(New)
     /\ data' = CASE f.id # "g" -> data
                  [] f.id = "g" /\ command = "remove" -> Upto(data, cur) \o From(data, nxt)
                  [] f.id = "g" /\ command = "insert_before" -> Upto(data, cur) \o New \o From(data, cur)
                  [] f.id = "g" /\ command = "insert_after" -> Upto(data, nxt) \o New \o From(data, nxt)
                  [] OTHER -> Upto(data, cur) \o New \o From(data, nxt)
     /\ endOff' = FilesEnd(fv + o + f.size, change, change')
     /\ off' = o + f.size
     /\ UNCHANGED <<inputs, pc, fv, img>>

\* What the volume has grown by is cut off behind its files, what it has shrunk by filled up.
CloseVolume ==
  /\ pc = "files" /\ NextFwFile(img, off) = -1 /\ pc' = "volume" /\ change' = 0
  /\ data' = IF change >= 0 THEN Upto(data, endOff) \o From(data, endOff + change)
             ELSE Upto(data, endOff) \o Fill(-change) \o From(data, endOff)
  /\ UNCHANGED <<inputs, fv, img, off, endOff>>

\* The images: one or two volumes of up to two files and some free space each, erased to ones or
\* to zeros.  The state of a file "x" is invalid.
FileOf(f) == IF f.id # "x" THEN File(f.id, f.size)
             ELSE [i \in 1 .. f.size |-> [of |-> "invalid", id |-> "x", n |-> i, size |-> f.size]]
FilesOf(v) == IF v.files = <<>> THEN <<>>
              ELSE IF Len(v.files) = 1 THEN FileOf(v.files[1])
              ELSE Padded(FileOf(v.files[1]), Erased(v.polarity)) \o FileOf(v.files[2])
Volume(v) ==
  LET len == VolumeHeader + Len(FilesOf(v)) + v.free
  IN [i \in 1 .. VolumeHeader |-> [of |-> "volume", id |-> v.polarity, n |-> i, size |-> len]]
       \o FilesOf(v) \o [i \in 1 .. v.free |-> Erased(v.polarity)]
FileSpec == [id : {"g", "h"}, size : Sizes] \cup [id : {"x"}, size : {FileHeader, FileHeader + 2}]
Volumes == [polarity : {"ff", "00"}, free : {0, 1, 4}, files : UNION {[1 .. n -> FileSpec] : n \in 0 .. 2}]

Init ==
  /\ command \in Commands /\ newSize \in Sizes /\ (command = "remove" => newSize = 3)
  /\ \E v \in Volumes :
       original \in {Volume(v), Volume(v) \o Volume([polarity |-> "ff", free |-> 4,
                                                     files |-> <<[id |-> "g", size |-> 4]>>])}
  /\ data = original /\ pc = "volume" /\ fv = 0 /\ img = <<>> /\ off = 0 /\ change = 0 /\ endOff = 0

Next == FindVolume \/ EditFile \/ CloseVolume

TypeOK == pc \in {"volume", "files", "end"} /\ fv \in 0 .. Len(original) /\ endOff >= 0

(***************************************************************************)
(* The reference: the files of each volume, and the same list edited.       *)
(***************************************************************************)
VolumeAt(s) == {o \in 0 .. Len(s) - VolumeHeader : ObjectAt(s, o, "volume", VolumeHeader)}
FilesIn(s, o) ==
  LET v == Part(s, o, o + s[o + 1].size)
      heads == {p \in 0 .. Len(v) - 1 : p % 2 = 0 /\ v[p + 1].of = "file" /\ v[p + 1].n = 1
                                         /\ ObjectAt(v, p, "file", v[p + 1].size)}
  IN [i \in DOMAIN SetToSortSeq(heads, <) |-> v[SetToSortSeq(heads, <)[i] + 1].id]
Edited(fs) ==
  FlattenSeq([i \in DOMAIN fs |->
    CASE fs[i] # "g" -> <<fs[i]>>
      [] fs[i] = "g" /\ command = "remove" -> <<>>
      [] fs[i] = "g" /\ command = "insert_before" -> <<"new", "g">>
      [] fs[i] = "g" /\ command = "insert_after" -> <<"g", "new">>
      [] OTHER -> <<"new">>])

\* The volume at o has the room for the change behind its files, no edited file ends off the
\* alignment, and no file is hidden behind the contents of an invalid one, where the search ends.
Targets(o) == {p \in o .. o + original[o + 1].size - 1 :
                 original[p + 1].id = "g" /\ original[p + 1].n = 1}
Free(o) == LET blank == Erased(original[o + 1].id)
               v == {p \in o .. o + original[o + 1].size - 1 : original[p + 1] # blank}
           IN o + original[o + 1].size - 1 - (CHOOSE p \in v : \A q \in v : q <= p)
Hidden(o) == \E p, q \in o .. o + original[o + 1].size - 1 :
               p < q /\ original[q + 1].of = "file"
                 /\ original[p + 1].of = "invalid" /\ original[p + 1].n > FileHeader
Fits(o) ==
  /\ ~Hidden(o)
  /\ \A p \in Targets(o) : command # "insert_before" => original[p + 1].size % 2 = 0
  /\ LET grows == IF command = "remove" THEN 0
                  ELSE IF command = "replace" THEN Len(New) - 4 ELSE Len(New)
     IN Targets(o) # {} => grows * Len(SetToSeq(Targets(o))) <= Free(o)

=============================================================================
