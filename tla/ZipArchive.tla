------------------------------ MODULE ZipArchive ------------------------------
(***************************************************************************)
(* The streaming ZIP writer of multi-table exports (src/zip.js), and what  *)
(* a reader finds in its archive (test/zip-reader.js).  Sizes are counted  *)
(* in abstract units, a record of any kind being one unit long; the 32-bit *)
(* and 16-bit limits are the constants Max32 and Max16.                    *)
(***************************************************************************)
EXTENDS Integers, Sequences

CONSTANTS
  Max32, Max16,          \* 2^32 - 1 and 2^16 - 1 in the code
  MaxEntries, MaxLength  \* bounds: entries, and length of an archive before its end

ASSUME ZipAssumption == Max32 \in Nat \ {0} /\ Max16 \in Nat \ {0}

VARIABLES
  offset,   \* units sent
  entries,  \* closed entries: [offset, csize, usize]
  open,     \* the open entry, or <<>>
  pending,  \* units its deflater holds
  compress, \* whether it has a deflater
  central,  \* the central directory as sent
  end,      \* the end records as sent, <<>> before
  sent      \* history: where each entry's data was sent, by entry

zvars == <<offset, entries, open, pending, compress, central, end, sent>>

ZipInit ==
  /\ offset = 0 /\ entries = <<>> /\ open = <<>> /\ pending = 0 /\ compress = FALSE
  /\ central = <<>> /\ end = <<>> /\ sent = <<>>

Emit(n) == offset' = offset + n

\* entry(): the local header.
Entry ==
  /\ open = <<>> /\ end = <<>> /\ Len(entries) < MaxEntries /\ offset < MaxLength
  /\ open' = <<[offset |-> offset, csize |-> 0, usize |-> 0]>>
  /\ compress' \in BOOLEAN /\ Emit(1)
  /\ sent' = Append(sent, [at |-> offset, units |-> 0, bytes |-> 0])
  /\ UNCHANGED <<entries, pending, central, end>>

Sent(field, n) == [sent EXCEPT ![Len(sent)][field] = @ + n]

\* write() of one unit: sent as it is, or kept by the deflater.
Write ==
  /\ open # <<>> /\ offset < MaxLength /\ open[1].usize < MaxLength
  /\ IF compress
     THEN /\ pending' = pending + 1 /\ open' = [open EXCEPT ![1].usize = @ + 1]
          /\ sent' = Sent("bytes", 1) /\ UNCHANGED offset
     ELSE /\ open' = [open EXCEPT ![1].usize = @ + 1, ![1].csize = @ + 1]
          /\ sent' = [sent EXCEPT ![Len(sent)].bytes = @ + 1, ![Len(sent)].units = @ + 1]
          /\ Emit(1) /\ UNCHANGED pending
  /\ UNCHANGED <<entries, compress, central, end>>

\* The consumer of the deflater sends one unit for some of those it holds.
Drain ==
  /\ open # <<>> /\ pending > 0
  /\ \E n \in 1..pending : pending' = pending - n
  /\ open' = [open EXCEPT ![1].csize = @ + 1]
  /\ sent' = Sent("units", 1) /\ Emit(1)
  /\ UNCHANGED <<entries, compress, central, end>>

\* close() waits for the deflater to end; then the data descriptor.
Close ==
  /\ open # <<>> /\ pending = 0
  /\ entries' = entries \o open /\ open' = <<>> /\ Emit(1)
  /\ UNCHANGED <<pending, compress, central, end, sent>>

Clip(n, max) == IF n >= max THEN max ELSE n

\* Mutant: a value of exactly the limit is not taken as clipped.
ExtraAbove(e) ==
  (IF e.usize > Max32 THEN <<e.usize>> ELSE <<>>) \o
  (IF e.csize > Max32 THEN <<e.csize>> ELSE <<>>) \o
  (IF e.offset > Max32 THEN <<e.offset>> ELSE <<>>)

\* One record of the central directory; its ZIP64 field holds what is clipped.
Extra(e) ==
  (IF e.usize >= Max32 THEN <<e.usize>> ELSE <<>>) \o
  (IF e.csize >= Max32 THEN <<e.csize>> ELSE <<>>) \o
  (IF e.offset >= Max32 THEN <<e.offset>> ELSE <<>>)

Record(e) ==
  [csize |-> Clip(e.csize, Max32), usize |-> Clip(e.usize, Max32),
   offset |-> Clip(e.offset, Max32), extra |-> Extra(e)]

FinishArchive ==
  /\ open = <<>> /\ end = <<>> /\ entries # <<>>
  /\ central' = [i \in DOMAIN entries |-> Record(entries[i])]
  /\ LET count == Len(entries)
         size == count
         zip64 == count >= Max16 \/ size >= Max32 \/ offset >= Max32
     IN /\ end' = [count |-> Clip(count, Max16), start |-> Clip(offset, Max32),
                   zip64 |-> IF zip64 THEN <<count, offset>> ELSE <<>>]
        /\ Emit(size + (IF zip64 THEN 3 ELSE 1))
  /\ UNCHANGED <<entries, open, pending, compress, sent>>

ZipNext == Entry \/ Write \/ Drain \/ Close \/ FinishArchive

ZipSpec == ZipInit /\ [][ZipNext]_zvars

-----------------------------------------------------------------------------
\* readZip
Clipped(r) == [f \in {"usize", "csize", "offset"} |-> r[f] = Max32]
Taken(r, fs) ==
  LET before == {f \in fs : Clipped(r)[f]}
  IN IF before = {} THEN 1 ELSE IF before = {"usize"} \/ before = {"csize"} THEN 2 ELSE 3
Value(r, f, fs) ==
  IF Clipped(r)[f] /\ Taken(r, fs) <= Len(r.extra) THEN r.extra[Taken(r, fs)] ELSE r[f]

ReadEntry(r) ==
  [usize |-> Value(r, "usize", {}), csize |-> Value(r, "csize", {"usize"}),
   offset |-> Value(r, "offset", {"usize", "csize"})]

ReadCount == IF end.zip64 # <<>> THEN end.zip64[1] ELSE end.count
ReadStart == IF end.zip64 # <<>> THEN end.zip64[2] ELSE end.start

\* A reader of a finished archive finds every entry where it was sent and with
\* the sizes it has, also where a size, an offset or the number of entries
\* reaches the limits of the old format (src/zip.js, finish).
ArchiveReadable ==
  end # <<>> =>
    /\ ReadCount = Len(sent)
    /\ ReadStart = sent[Len(sent)].at + sent[Len(sent)].units + 2
    /\ \A i \in DOMAIN sent :
         LET e == ReadEntry(central[i])
         IN e.offset = sent[i].at /\ e.csize = sent[i].units /\ e.usize = sent[i].bytes
=============================================================================
