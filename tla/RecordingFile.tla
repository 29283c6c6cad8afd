---------------------------- MODULE RecordingFile ----------------------------
(***************************************************************************)
(* One `.vms` recording and its `.vms.idx` sidecar, from the header to the *)
(* closed file, with the process and the power allowed to go away between  *)
(* any two writes, and the repair the server runs when it starts.          *)
(*                                                                         *)
(*   shared/src/vms/writer.rs   FileRecordingWriter                        *)
(*   shared/src/vms/sidecar.rs  SidecarWriter, parse_sidecar               *)
(*   shared/src/vms/reader.rs   VmsReader::ensure_index                    *)
(*   server/src/repair.rs       finalize_one                               *)
(*                                                                         *)
(* A file is a sequence of cells.  A chunk (block, index, footer) is       *)
(* several cells long, so that a write that fails, and a power loss, may   *)
(* leave any part of it.  Offsets count cells from 0, as the code counts   *)
(* bytes: the cell at offset o is file[o + 1].                             *)
(***************************************************************************)
EXTENDS Integers, Sequences, FiniteSets, SequencesExt

CONSTANTS
  MaxBlocks,    \* bound: blocks the recorder hands to the writer
  Scenarios,    \* bound: the faults that may happen, each a [Fault -> Nat]
  BatchBlocks,  \* BATCH_BLOCKS: blocks per sidecar batch
  MaxIndex,     \* MAX_INDEX_ENTRIES: above it the index is abandoned
  BlkLen,       \* cells of a block
  FtrLen        \* cells of a footer

\* kill: the process dies; power: the machine does; io: a write fails;
\* open: the file cannot be opened for reading.
Fault == {"kill", "power", "io", "open"}

ASSUME RecordingFileAssumption ==
  /\ MaxBlocks \in Nat
  /\ Scenarios \subseteq [Fault -> Nat]
  /\ BatchBlocks \in Nat \ {0} /\ MaxIndex \in Nat \ {0}
  /\ BlkLen \in Nat \ {0} /\ FtrLen \in Nat \ {0}

VARIABLES
  vms,      \* the .vms file: a sequence of cells
  synced,   \* how many of its cells a power loss can no longer take
  sidecar,  \* the .vms.idx file: does it exist, and its whole batches
  pc,       \* the write the process does next ("down": no process)
  w,        \* the writer's own fields
  job,      \* what close() and finalize_one() carry from write to write
  faults    \* faults of each kind so far

vars == <<vms, synced, sidecar, pc, w, job, faults>>

-----------------------------------------------------------------------------
(* Chunks *)

HdrLen == 1
IdxLen(n) == n + 1        \* grows with the number of entries, as the VIDX does

Cell(k, of, part) == [k |-> k, of |-> of, part |-> part]
HeaderCells == <<Cell("HDR", 0, 1)>>
BlockCells(id) == [p \in 1..BlkLen |-> Cell("BLK", id, p)]
IndexCells(ix) == [p \in 1..IdxLen(Len(ix)) |-> Cell("VIDX", ix, p)]
FooterCells(f) == [p \in 1..FtrLen |-> Cell("VEOF", f, p)]

\* What a write_all that fails may have left: any proper prefix of the chunk.
Torn(chunk) == {SubSeq(chunk, 1, n) : n \in 0..(Len(chunk) - 1)}

Entry(off, id) == [off |-> off, id |-> id]

\* encode_footer: without an index the count goes with it.
Footer(blocks, ioff, n) ==
  [blocks |-> blocks, ioff |-> ioff, count |-> IF ioff = 0 THEN 0 ELSE n]

-----------------------------------------------------------------------------
(* What a reader makes of the bytes *)

\* block_size_at: a block begins here, and says how long it is.
BlockHead(file, off) == file[off + 1].k = "BLK" /\ file[off + 1].part = 1

\* block_meta_at: the header is a block's and the whole block is in the file.
BlockAt(file, off) == off + BlkLen <= Len(file) /\ BlockHead(file, off)

\* block_meta: what the index needs of it.
BlockMeta(file, off) == Entry(off, file[off + 1].of)

\* scan_blocks_from: block after block until something is not a whole block.
ScanCount(file, from) ==
  CHOOSE n \in 0..Len(file) :
    /\ \A j \in 0..(n - 1) : BlockAt(file, from + j * BlkLen)
    /\ ~BlockAt(file, from + n * BlkLen)

Scan(file, from) ==
  [j \in 1..ScanCount(file, from) |->
     BlockMeta(file, from + (j - 1) * BlkLen)]

\* decode_preamble, decode_header: all is there that the header says it has.
HeaderWhole(bytes) == Len(bytes) >= HdrLen

HasHeader(file) == HeaderWhole(file)

\* The truth every reader should arrive at: the whole blocks after the header.
Blocks(file) == IF HasHeader(file) THEN Scan(file, HdrLen) ELSE <<>>

\* read_footer: the last bytes of the file are a whole footer.
HasFooter(file) ==
  /\ Len(file) >= FtrLen
  /\ \A p \in 1..FtrLen :
       LET c == file[Len(file) - FtrLen + p] IN c.k = "VEOF" /\ c.part = p

FooterOf(file) == file[Len(file)].of

\* decode_index_chunk: an index of so many entries, whole (its CRC needs every part).
IndexChunk(file, at, count) ==
  /\ at + 1 <= Len(file)
  /\ file[at + 1].k = "VIDX"
  /\ LET ix == file[at + 1].of IN
       /\ Len(ix) = count
       /\ at + IdxLen(Len(ix)) <= Len(file)
       /\ \A p \in 1..IdxLen(Len(ix)) : file[at + p].k = "VIDX" /\ file[at + p].part = p

\* load_index_from_footer.
IndexInFooter(file) ==
  /\ HasFooter(file)
  /\ FooterOf(file).ioff # 0
  /\ FooterOf(file).count # 0
  /\ IndexChunk(file, FooterOf(file).ioff, FooterOf(file).count)

\* parse_sidecar: the entries of the whole batches, in order.
Entries(batches) ==
  FlattenSeq([i \in 1..Len(batches) |-> batches[i].entries])

\* Wrong on purpose: trusts the last entry that starts inside the file.
FromSidecarKeepingTheLast(file, sc) ==
  LET none == [index |-> <<>>, upto |-> HdrLen]
      es == Entries(sc.batches)
      valid == Last(sc.batches).valid
      cut == Cardinality({j \in 1..Len(es) : es[j].off < Len(file)})
  IN  IF \/ ~sc.exists \/ sc.batches = <<>> \/ valid <= HdrLen
      THEN none
      ELSE IF valid <= Len(file)
           THEN [index |-> es, upto |-> valid]
           ELSE IF cut <= 0
                THEN none
                ELSE [index |-> SubSeq(es, 1, cut), upto |-> es[cut].off + BlkLen]

\* load_index_from_sidecar: what of the sidecar still has a file under it, and
\* where the scan resumes.  An unusable one means a scan from the first block.
FromSidecar(file, sc) ==
  LET none == [index |-> <<>>, upto |-> HdrLen]
      es == Entries(sc.batches)
      valid == Last(sc.batches).valid
      under == Cardinality({j \in 1..Len(es) : es[j].off < Len(file)})
      cut == under - 1
  IN  IF \/ ~sc.exists \/ sc.batches = <<>> \/ valid <= HdrLen
      THEN none
      ELSE IF valid <= Len(file)
           THEN [index |-> es, upto |-> valid]
           ELSE IF cut <= 0
                THEN none
                ELSE [index |-> SubSeq(es, 1, cut), upto |-> es[cut + 1].off]

\* Wrong on purpose: does not scan what came after the sidecar.
EnsureIndexWithoutTail(file, sc) ==
  IF IndexInFooter(file)
  THEN [index |-> file[FooterOf(file).ioff + 1].of, upto |-> FooterOf(file).ioff]
  ELSE FromSidecar(file, sc)

\* Wrong on purpose: the media ends where the scan began.
EnsureIndexEndingEarly(file, sc) ==
  IF IndexInFooter(file)
  THEN [index |-> file[FooterOf(file).ioff + 1].of, upto |-> FooterOf(file).ioff]
  ELSE LET s == FromSidecar(file, sc)
       IN  [index |-> s.index \o Scan(file, s.upto), upto |-> s.upto]

\* ensure_index: footer, else sidecar plus scan, else a scan of everything.
EnsureIndex(file, sc) ==
  IF IndexInFooter(file)
  THEN [index |-> file[FooterOf(file).ioff + 1].of, upto |-> FooterOf(file).ioff]
  ELSE LET s == FromSidecar(file, sc)
       IN  [index |-> s.index \o Scan(file, s.upto),
            upto  |-> s.upto + BlkLen * ScanCount(file, s.upto)]

-----------------------------------------------------------------------------
(* The recorder's file *)

NoWriter == [index |-> <<>>, bytes |-> 0, blocks |-> 0, overflow |-> FALSE,
             scOpen |-> FALSE, written |-> 0]
NoJob == [ioff |-> 0, ftr |-> FALSE, index |-> <<>>, end |-> 0]
NoSidecar == [exists |-> FALSE, batches |-> <<>>]

\* One more fault of a kind, if some scenario goes on like that.
Hit(kind) ==
  LET more == [faults EXCEPT ![kind] = @ + 1] IN
    /\ \E s \in Scenarios : \A k \in Fault : more[k] <= s[k]
    /\ faults' = more

Init ==
  /\ vms = <<>> /\ synced = 0
  /\ sidecar = NoSidecar
  /\ pc = "header"
  /\ w = NoWriter /\ job = NoJob
  /\ faults = [k \in Fault |-> 0]

\* write_header: the header, then SidecarWriter::create, whose failure only
\* means recording without a sidecar.
WriteHeader ==
  /\ pc = "header"
  /\ vms' = vms \o HeaderCells
  /\ \/ /\ sidecar' = [exists |-> TRUE, batches |-> <<>>]
        /\ w' = [w EXCEPT !.bytes = HdrLen, !.scOpen = TRUE]
        /\ UNCHANGED faults
     \/ /\ Hit("io")
        /\ w' = [w EXCEPT !.bytes = HdrLen]
        /\ UNCHANGED sidecar
  /\ pc' = "rec"
  /\ UNCHANGED <<synced, job>>

\* note_block: past MAX_INDEX_ENTRIES the whole index is dropped.
NoteBlock(wr, e) ==
  IF wr.overflow THEN wr
  ELSE IF Len(wr.index) >= MaxIndex
       THEN [wr EXCEPT !.overflow = TRUE, !.index = <<>>]
       ELSE [wr EXCEPT !.index = Append(@, e)]

\* write_block, when write_all succeeds.
WriteBlock ==
  /\ pc = "rec"
  /\ w.blocks < MaxBlocks
  /\ LET id == w.blocks + 1
         w1 == NoteBlock([w EXCEPT !.bytes = @ + BlkLen, !.blocks = id],
                         Entry(w.bytes, id))
     IN  /\ vms' = vms \o BlockCells(id)
         /\ w' = w1
         /\ pc' = IF Len(w1.index) - w1.written >= BatchBlocks
                  THEN "batch" ELSE "rec"
  /\ UNCHANGED <<synced, sidecar, job, faults>>

\* write_block, when write_all fails: the recorder drops the writer, and Drop
\* leaves the sidecar where it is (the last entries never reach it).
WriteBlockFails ==
  /\ pc = "rec"
  /\ w.blocks < MaxBlocks
  /\ Hit("io")
  /\ \E part \in Torn(BlockCells(w.blocks + 1)) : vms' = vms \o part
  /\ pc' = "dropped"
  /\ w' = NoWriter
  /\ UNCHANGED <<synced, sidecar, job>>

\* flush_sidecar and write_batch.  A failed write leaves a torn batch, which
\* no reader counts, and turns the sidecar off.
FlushSidecar ==
  IF w.scOpen /\ Len(w.index) > w.written
  THEN \/ /\ sidecar' =
               [sidecar EXCEPT !.batches =
                  Append(@, [entries |-> SubSeq(w.index, w.written + 1, Len(w.index)),
                             valid |-> w.bytes])]
          /\ w' = [w EXCEPT !.written = Len(w.index)]
          /\ UNCHANGED faults
       \/ /\ Hit("io")
          /\ w' = [w EXCEPT !.scOpen = FALSE]
          /\ UNCHANGED sidecar
  ELSE UNCHANGED <<sidecar, w, faults>>

WriteBatch ==
  /\ pc = "batch"
  /\ FlushSidecar
  /\ pc' = "rec"
  /\ UNCHANGED <<vms, synced, job>>

\* close(true), write by write: the last batch before anything else ...
CloseFlush ==
  /\ pc = "rec"
  /\ FlushSidecar
  /\ pc' = "c_index"
  /\ UNCHANGED <<vms, synced, job>>

\* ... then the index, whose offset is kept only if the whole of it went in ...
CloseIndex ==
  /\ pc = "c_index"
  /\ \/ /\ w.index # <<>> /\ ~w.overflow
        /\ vms' = vms \o IndexCells(w.index)
        /\ job' = [job EXCEPT !.ioff = w.bytes]
        /\ UNCHANGED faults
     \/ /\ w.index # <<>> /\ ~w.overflow
        /\ Hit("io")
        /\ \E part \in Torn(IndexCells(w.index)) : vms' = vms \o part
        /\ UNCHANGED job
     \/ /\ w.index = <<>> \/ w.overflow
        /\ UNCHANGED <<vms, job, faults>>
  /\ pc' = "c_footer"
  /\ UNCHANGED <<synced, sidecar, w>>

\* ... then the footer, with or without an index to point at ...
CloseFooter ==
  /\ pc = "c_footer"
  /\ LET chunk == FooterCells(Footer(w.blocks, job.ioff, Len(w.index))) IN
       \/ /\ vms' = vms \o chunk
          /\ job' = [job EXCEPT !.ftr = TRUE]
          /\ UNCHANGED faults
       \/ /\ Hit("io")
          /\ \E part \in Torn(chunk) : vms' = vms \o part
          /\ UNCHANGED job
  /\ pc' = "c_sync"
  /\ UNCHANGED <<synced, sidecar, w>>

\* ... then sync_all, whose result is ignored ...
CloseSync ==
  /\ pc = "c_sync"
  /\ \/ /\ synced' = Len(vms)
        /\ UNCHANGED faults
     \/ /\ Hit("io")
        /\ UNCHANGED synced
  /\ pc' = "c_sidecar"
  /\ UNCHANGED <<vms, sidecar, w, job>>

\* ... and the sidecar goes when footer and index are both in.
CloseSidecar ==
  /\ pc = "c_sidecar"
  /\ sidecar' = IF job.ftr /\ job.ioff # 0 THEN NoSidecar ELSE sidecar
  /\ pc' = "closed"
  /\ w' = NoWriter /\ job' = NoJob
  /\ UNCHANGED <<vms, synced, faults>>

-----------------------------------------------------------------------------
(* The process stops *)

StopTo(st) == pc' = st /\ w' = NoWriter /\ job' = NoJob

\* The process is killed: what it wrote is in the system's cache and stays.
Kill ==
  /\ pc # "down"
  /\ Hit("kill")
  /\ StopTo("down")
  /\ UNCHANGED <<vms, synced, sidecar>>

\* The power goes: each file loses any tail it had not synced, on its own.
PowerLoss ==
  /\ pc # "down"
  /\ Hit("power")
  /\ \E n \in synced..Len(vms) : vms' = SubSeq(vms, 1, n)
  /\ \E n \in 0..Len(sidecar.batches) :
       sidecar' = [sidecar EXCEPT !.batches = SubSeq(@, 1, n)]
  /\ StopTo("down")
  /\ UNCHANGED synced

\* An ordinary stop of the server, with this file no longer being written.
Shutdown ==
  /\ pc \in {"closed", "dropped", "ready"}
  /\ StopTo("down")
  /\ UNCHANGED <<vms, synced, sidecar, faults>>

-----------------------------------------------------------------------------
(* The next start: finalize_one *)

\* read_pending_index has an index to write.
Pending ==
  HasHeader(vms) /\ ~HasFooter(vms) /\ EnsureIndex(vms, sidecar).index # <<>>

\* No sidecar: the file is left alone.
BootNoSidecar ==
  /\ pc = "down"
  /\ ~sidecar.exists
  /\ pc' = "ready"
  /\ UNCHANGED <<vms, synced, sidecar, w, job, faults>>

\* read_pending_index returns None: a footer is there, there is no block, or
\* the file did not open.  In the three cases the sidecar is deleted.
BootDrop ==
  /\ pc = "down"
  /\ sidecar.exists
  /\ \/ ~Pending /\ UNCHANGED faults
     \/ Hit("open")
  /\ sidecar' = NoSidecar
  /\ pc' = "ready"
  /\ UNCHANGED <<vms, synced, w, job>>

BootPending ==
  /\ pc = "down"
  /\ sidecar.exists /\ Pending
  /\ LET e == EnsureIndex(vms, sidecar) IN
       job' = [job EXCEPT !.index = e.index, !.end = e.upto]
  /\ pc' = "r_trunc"
  /\ UNCHANGED <<vms, synced, sidecar, w, faults>>

\* A step of append_index_and_footer that fails: the file stays as it is, the
\* sidecar too, and the server goes on.
RepairFails ==
  /\ Hit("io")
  /\ pc' = "ready" /\ job' = NoJob

\* Wrong on purpose: appends after whatever the close left.
RepairNotTruncating ==
  /\ pc = "r_trunc"
  /\ pc' = "r_index"
  /\ UNCHANGED <<vms, synced, sidecar, w, job, faults>>

\* set_len(media_end): the index starts where the media ends.
RepairTruncate ==
  /\ pc = "r_trunc"
  /\ \/ /\ vms' = SubSeq(vms, 1, job.end)
        /\ synced' = IF synced <= job.end THEN synced ELSE job.end
        /\ pc' = "r_index"
        /\ UNCHANGED <<job, faults>>
     \/ RepairFails /\ UNCHANGED <<vms, synced>>
  /\ UNCHANGED <<sidecar, w>>

RepairIndex ==
  /\ pc = "r_index"
  /\ \/ /\ vms' = vms \o IndexCells(job.index)
        /\ pc' = "r_footer"
        /\ UNCHANGED <<job, faults>>
     \/ /\ RepairFails
        /\ \E part \in Torn(IndexCells(job.index)) : vms' = vms \o part
  /\ UNCHANGED <<synced, sidecar, w>>

\* Wrong on purpose: the footer does not point at the index.
RepairFooterWithoutIndex ==
  /\ pc = "r_footer"
  /\ vms' = vms \o FooterCells(Footer(Len(job.index), 0, 0))
  /\ pc' = "r_sync"
  /\ UNCHANGED <<synced, sidecar, w, job, faults>>

RepairFooter ==
  /\ pc = "r_footer"
  /\ LET chunk == FooterCells(Footer(Len(job.index), job.end, Len(job.index))) IN
       \/ /\ vms' = vms \o chunk
          /\ pc' = "r_sync"
          /\ UNCHANGED <<job, faults>>
       \/ /\ RepairFails
          /\ \E part \in Torn(chunk) : vms' = vms \o part
  /\ UNCHANGED <<synced, sidecar, w>>

RepairSync ==
  /\ pc = "r_sync"
  /\ \/ synced' = Len(vms) /\ pc' = "r_delete" /\ UNCHANGED <<job, faults>>
     \/ RepairFails /\ UNCHANGED synced
  /\ UNCHANGED <<vms, sidecar, w>>

RepairDelete ==
  /\ pc = "r_delete"
  /\ sidecar' = NoSidecar
  /\ pc' = "ready" /\ job' = NoJob
  /\ UNCHANGED <<vms, synced, w, faults>>

-----------------------------------------------------------------------------

Boot == BootNoSidecar \/ BootDrop \/ BootPending
Repair == RepairTruncate \/ RepairIndex \/ RepairFooter \/ RepairSync \/ RepairDelete

Next ==
  \/ WriteHeader \/ WriteBlock \/ WriteBlockFails \/ WriteBatch
  \/ CloseFlush \/ CloseIndex \/ CloseFooter \/ CloseSync \/ CloseSidecar
  \/ Kill \/ PowerLoss \/ Shutdown
  \/ Boot \/ Repair

\* The server starts again once it is down, and finalize_one runs to its end:
\* main calls it, before any supervisor, in one loop that nothing blocks.
Fairness == WF_vars(Boot) /\ WF_vars(Repair)

Spec == Init /\ [][Next]_vars /\ Fairness

-----------------------------------------------------------------------------
(* Properties *)

CellOK(c) == c.k \in {"HDR", "BLK", "VIDX", "VEOF"} /\ c.part \in Nat \ {0}

\* The type invariant: the shape of the two files, of the writer's fields
\* (FileRecordingWriter) and of what a close or a repair carries along.
TypeOK ==
  /\ \A i \in 1..Len(vms) : CellOK(vms[i])
  /\ synced \in 0..Len(vms)
  /\ sidecar.exists \in BOOLEAN
  /\ sidecar.batches # <<>> => sidecar.exists
  /\ pc \in {"header", "rec", "batch", "c_index", "c_footer", "c_sync",
             "c_sidecar", "closed", "dropped", "down", "r_trunc", "r_index",
             "r_footer", "r_sync", "r_delete", "ready"}
  /\ w.blocks \in 0..MaxBlocks /\ Len(w.index) <= MaxIndex
  /\ w.written \in 0..MaxBlocks
  /\ w.overflow => w.index = <<>>
  /\ job.end \in 0..Len(vms)
  /\ faults \in [Fault -> Nat]

\* The repair is rewriting the end of the file: nobody reads it, because the
\* server takes no request before finalize_orphan_recordings returns (main).
Repairing == pc \in {"r_trunc", "r_index", "r_footer", "r_sync", "r_delete"}

\* Whoever opens the recording, at any moment the server serves it, gets the
\* index a scan of the whole file would give: neither the footer's index, nor
\* the sidecar, nor a sidecar with a cut media under it, ever invents, repeats
\* or skips a block (VmsReader::ensure_index against writer.rs and repair.rs).
IndexExact == ~Repairing => EnsureIndex(vms, sidecar).index = Blocks(vms)

\* A footer, whoever wrote it, counts the blocks the file has, and an index it
\* points at starts where the media ends (close and append_index_and_footer).
FooterExact ==
  HasFooter(vms) =>
    /\ FooterOf(vms).blocks = Len(Blocks(vms))
    /\ FooterOf(vms).ioff # 0 =>
         FooterOf(vms).ioff = HdrLen + BlkLen * Len(Blocks(vms))

\* Until a power loss the sidecar never runs ahead of the media: its entries
\* are the first blocks of the file, and the point it says to resume from is in
\* the file (the batch is written after its blocks: write_block, note_block).
SidecarBehindMedia ==
  faults["power"] = 0 /\ sidecar.batches # <<>> =>
    /\ IsPrefix(Entries(sidecar.batches), Blocks(vms))
    /\ Last(sidecar.batches).valid =
         HdrLen + BlkLen * Len(Entries(sidecar.batches))

\* Only a power loss takes a recorded block away: no step of the writer, of a
\* close that goes wrong or of the repair (which truncates the file) loses,
\* changes or reorders a block that is whole in the file.
BlocksSurvive ==
  [][faults'["power"] = faults["power"] => IsPrefix(Blocks(vms), Blocks(vms'))]_vars

\* close() gives the sidecar up only with the index readable through the
\* footer: a close that went wrong at any write keeps it (writer.rs:4-5, as far
\* as the writer itself goes).
WriterKeepsSidecar ==
  [][pc = "c_sidecar" /\ sidecar.exists /\ ~sidecar'.exists => IndexInFooter(vms)]_vars

\* What a repair leaves behind before it deletes the sidecar is a file closed
\* properly: a footer, and through it the index of exactly the blocks that are
\* there (repair.rs:1-4, "O que sai e igual a uma gravacao fechada direito").
RepairedIsClosed ==
  pc \in {"r_sync", "r_delete"} =>
    IndexInFooter(vms) /\ EnsureIndex(vms, sidecar).index = Blocks(vms)

Total(f) == f["kill"] + f["power"] + f["io"] + f["open"]

\* A recording that stopped half way with its sidecar and a whole block is
\* closed, index and all, by the next start, unless another fault comes in
\* (finalize_one resumes from whatever the previous one left).
EventuallyClosed ==
  \A n \in UNION {0..Total(s) : s \in Scenarios} :
    (pc = "down" /\ sidecar.exists /\ Pending /\ Total(faults) = n)
      ~> (IndexInFooter(vms) \/ Total(faults) > n)

\* The header of writer.rs, read to the letter: "O sidecar so some quando o
\* VIDX E o rodape que aponta para ele entraram - fechamento torto mantem o
\* sidecar" (writer.rs:4-5).  Whoever deletes it, the index is in the footer, or
\* there is no block to index.
SidecarGoesOnlyWithIndex ==
  [][sidecar.exists /\ ~sidecar'.exists =>
       IndexInFooter(vms) \/ Blocks(vms) = <<>>]_vars

-----------------------------------------------------------------------------
(* What a reader sees, as an implementation of RecordingView *)

\* While the repair works, the index it holds stands for the file.
Seen == IF Repairing THEN job.index ELSE EnsureIndex(vms, sidecar).index

View == INSTANCE RecordingView WITH
          log    <- [i \in 1..Len(Seen) |-> Seen[i].id],
          closed <- HasFooter(vms),
          losses <- faults["power"]

\* Seen through any reader, a recording is the append-only log of
\* RecordingView: blocks are added at its end, one by one, until it is closed,
\* then never again, and only a power loss cuts it.
ViewSpec == View!Spec

-----------------------------------------------------------------------------
(* ... and all of it together *)

\* What a reader, the footer and the sidecar tell of a file is what is in it, in
\* whatever step of writing, closing, dying and repairing it is.
FileSound == TypeOK /\ IndexExact /\ FooterExact /\ SidecarBehindMedia

\* No step loses a block a reader could find, and the writer lets go of the
\* sidecar only with the index and its footer in the file.
NothingGoesEarly == BlocksSurvive /\ WriterKeepsSidecar

\* The faults are of the process, the disk or the opening, as many as it may be,
\* or one power loss and no other: what a power loss leaves, a second fault may
\* spoil (RepairedIsClosed).
PowerAlone ==
  \A s \in Scenarios :
    \/ s["power"] = 0
    \/ s["power"] = 1 /\ s["kill"] = 0 /\ s["io"] = 0 /\ s["open"] = 0

=============================================================================
