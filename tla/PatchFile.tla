------------------------------ MODULE PatchFile ------------------------------
(***************************************************************************)
(* How a worker numbers the pages of a sandbox's CRIU dump and frames its  *)
(* patch file (src/dedup-service).                                         *)
(*                                                                         *)
(* ComputeMemoryHashes maps the dump files pages-1.img .. pages-n.img,     *)
(* records their page counts in ContainerInfo::num_pages_ (whose entry 0   *)
(* is the 0 of the constructor) and numbers the pages 0, 1, ... file by    *)
(* file.  DeduplicateDump encodes page p against its base page, reading it *)
(* through ContainerInfo::GetPageData(p), and then writes the patch file   *)
(* in a second loop over the files; RestoreDump reads the patch file back  *)
(* in a third loop, taking each record's length from the container's       *)
(* dedup_map_, and writes the rebuilt pages into the dump files in a       *)
(* fourth.  Four separately written loops must agree on which page a page  *)
(* id is, and on where each record of the patch file ends.                 *)
(*                                                                         *)
(* Page contents and the xdelta3 bytes are abstracted: a page is its slot  *)
(* <<file, index>>, a patch is its length.                                 *)
(***************************************************************************)
EXTENDS Integers, Sequences, SequencesExt

CONSTANTS
  PageSize,       \* PAGE_SIZE, in abstract bytes
  PatchThreshold, \* MemoryManager::patch_threshold_ (the "patch_threshold" parameter)
  ULongModulus,   \* 2^w for a long unsigned int of w bits, scaled down like PAGE_SIZE
  MaxDumpFiles,   \* bound on the pages-*.img files of a dump
  MaxFilePages    \* bound on the pages of one dump file

\* The vector num_pages_ of a fresh ContainerInfo: std::vector<int>(1).
NumPagesInit == <<0>>

\* ContainerInfo::AddDumpFilePages: the sequence position of file index f
\* is f + 1.
AddDumpFilePages(np, n) == Append(np, n)

\* ContainerInfo::GetNumberOfPages(file_id).
GetNumberOfPages(np, f) == np[f + 1]

\* num_dump_files_, as ComputeMemoryHashes sets it when every file mapped.
NumDumpFiles(np) == Len(np) - 1

\* The loop of ContainerInfo::GetPageData over num_pages_, from entry fi
\* on, with off pages still to skip.  Leaving the loop without a break
\* gives the index one past the vector.
RECURSIVE PageLoop(_, _, _)
PageLoop(np, fi, off) ==
  IF fi = Len(np) \/ off < np[fi + 1] THEN <<fi, off>>
  ELSE PageLoop(np, fi + 1, off - np[fi + 1])

\* ContainerInfo::GetPageData(page_id), followed by GetFileData: the slot
\* <<file index, page index in the file>> whose bytes it returns.
GetPageData(np, pid) == PageLoop(np, 0, pid)

\* The nested loops "for file_index in 1 .. num_dump_files(), for it in
\* 0 .. GetNumberOfPages(file_index) - 1" with page_id counting from 0, as
\* ComputeMemoryHashes, the patch write of DeduplicateDump and the patch
\* read of RestoreDump each write them: element page_id + 1 is the slot
\* visited with that page_id.
FileLoop(np) ==
  FlattenSeq([f \in 1 .. NumDumpFiles(np) |->
                [k \in 1 .. GetNumberOfPages(np, f) |-> <<f, k - 1>>]])

\* ComputeMemoryHashes with flag false: the payload index of a page is its
\* page id ("zero indexed pages"), the id the controller hands back in
\* BasePageStruct.addr.
HashedPages(np) == FileLoop(np)

\* An int stored into a long unsigned int.
AsULong(x) == x % ULongModulus

\* An EncodePage that also keeps a delta equal to the threshold.
EncodeResultInclusive(ok, size) ==
  IF ok /\ size <= PatchThreshold THEN size ELSE -1

\* EncodePage: delta_sizes[page_id] starts at -1 and is overwritten only
\* when xd3_encode_memory succeeded (ok) with a delta of size bytes below
\* patch_threshold_.
EncodeResult(ok, size) ==
  IF ok /\ size < PatchThreshold THEN size ELSE -1

\* STEP 4's test of delta_sizes[page_id], read as a long unsigned int: a
\* page without an entry, or whose encoding left -1, is written as it is.
PatchAccepted(ds, p) ==
  p \in DOMAIN ds /\ AsULong(ds[p]) > 0 /\ AsULong(ds[p]) <= PatchThreshold

\* DeduplicateDump's STEP 4: the records written to patch-file.img in page
\* id order, with the slot whose bytes GetFileData gives the loop, and
\* whether the page was written as a patch (SetPatch was called for it).
\* ds maps the pages with a base page to their delta_sizes entry.
PatchWrites(np, ds) ==
  [i \in DOMAIN FileLoop(np) |->
     [page |-> i - 1, slot |-> FileLoop(np)[i], patch |-> PatchAccepted(ds, i - 1),
      len |-> IF PatchAccepted(ds, i - 1) THEN AsULong(ds[i - 1]) ELSE PageSize]]

\* The patch_length of every entry of dedup_map_ after DeduplicateDump:
\* SetDedupInfo creates a DedupInfo, whose patch_length_ is PAGE_SIZE, for
\* each page with a base page, and STEP 4's SetPatch overwrites the length.
PatchLengths(ds) ==
  [p \in DOMAIN ds |-> IF PatchAccepted(ds, p) THEN AsULong(ds[p])
                                              ELSE PageSize]

\* The length RestoreDump reads for page p: its patch_length when
\* FindDedupInfo finds it in dedup_map_, PAGE_SIZE otherwise.
RecordLength(pl, p) == IF p \in DOMAIN pl THEN pl[p] ELSE PageSize

\* RestoreDump's loop over the patch file: a record of exactly PAGE_SIZE
\* bytes is copied, any other is decoded.
RestoreReads(np, pl) ==
  [i \in DOMAIN FileLoop(np) |->
     [page |-> i - 1, len |-> RecordLength(pl, i - 1),
      decode |-> RecordLength(pl, i - 1) # PageSize]]

\* RestoreDump's STEP 3: dump file f receives GetNumberOfPages(f) pages of
\* original_buf from page_id on, page_id advancing by the file's pages.
RECURSIVE RestoredFrom(_, _, _)
RestoredFrom(np, f, pid) ==
  IF f > NumDumpFiles(np) THEN <<>>
  ELSE <<[k \in 1 .. GetNumberOfPages(np, f) |-> pid + k - 1]>>
         \o RestoredFrom(np, f + 1, pid + GetNumberOfPages(np, f))

RestoredFiles(np) == RestoredFrom(np, 1, 0)

-----------------------------------------------------------------------------
(* The dump layouts and encoder outcomes a run ranges over.                *)

\* ComputeMemoryHashes' loop over the dump files calls AddDumpFilePages
\* once per file, with that file's page count.
RECURSIVE AddEachFile(_, _)
AddEachFile(np, counts) ==
  IF counts = <<>> THEN np
  ELSE AddEachFile(AddDumpFilePages(np, Head(counts)), Tail(counts))

\* num_pages_ after ComputeMemoryHashes mapped up to MaxDumpFiles files.
Layouts ==
  {AddEachFile(NumPagesInit, s) : s \in BoundedSeq(0 .. MaxFilePages, MaxDumpFiles)}

\* The delta sizes xd3_encode_memory can report: at most delta_alloc =
\* 1.5 * PAGE_SIZE bytes.
DeltaAlloc == 1 .. (3 * PageSize) \div 2

\* The values EncodePage can leave in delta_sizes.
EncodeResults == {EncodeResult(ok, d) : ok \in BOOLEAN, d \in DeltaAlloc}

\* For layout np and delta_sizes ds: record by record, RestoreDump reads
\* the bytes DeduplicateDump wrote for that page and decodes exactly the
\* pages written as patches; the page written for page id p is the page
\* GetPageData gave EncodePage for p; and RestoreDump's STEP 3 puts page
\* p back into the file and at the index ComputeMemoryHashes numbered.
PatchFileParses(np, ds) ==
  /\ DOMAIN PatchWrites(np, ds) = DOMAIN RestoreReads(np, PatchLengths(ds))
  /\ \A i \in DOMAIN PatchWrites(np, ds) :
       /\ RestoreReads(np, PatchLengths(ds))[i].len = PatchWrites(np, ds)[i].len
       /\ RestoreReads(np, PatchLengths(ds))[i].decode = PatchWrites(np, ds)[i].patch
       /\ PatchWrites(np, ds)[i].slot = GetPageData(np, i - 1)
       /\ HashedPages(np)[i] = PatchWrites(np, ds)[i].slot
  /\ \A f \in 1 .. NumDumpFiles(np) :
       \A k \in 1 .. GetNumberOfPages(np, f) :
         HashedPages(np)[RestoredFiles(np)[f][k] + 1] = <<f, k - 1>>

=============================================================================
