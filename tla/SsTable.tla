------------------------------- MODULE SsTable -------------------------------
(***************************************************************************)
(* One SSTable file (src/src/sstable): the builder that streams sorted     *)
(* entries into blocks, a sparse index, a Bloom filter and a footer, and   *)
(* the reader that looks keys up and iterates, also over a file that was   *)
(* never finished or that the medium has damaged since.                    *)
(*                                                                         *)
(* A file is the sequence of checksummed regions appended to it, and an    *)
(* offset is a position in that sequence.  A region whose checksum does    *)
(* not match is "bad", whatever its bytes are.  The fields of a block, of  *)
(* the index and of the filter (module Bloom) are kept, their bytes not;   *)
(* lengths are abstract units, of which a block holds BlockSize.           *)
(***************************************************************************)
EXTENDS Lsm, Bloom

CONSTANTS
  BlockSize,   \* BLOCK_SIZE
  ValueSizes,  \* encoded lengths of a put; a tombstone's is 1
  Entries,     \* the entries that may be added
  ExpectedKeys,  \* the key counts a filter may be sized for
  BitsPerKey     \* DEFAULT_BITS_PER_KEY

ASSUME SsTableAssumption ==
  /\ Keys \subseteq Int
  /\ BlockSize \in Nat \ {0}
  /\ ValueSizes \subseteq Nat \ {0}
  /\ Entries \subseteq Entry
  /\ ExpectedKeys \subseteq Nat /\ BitsPerKey \in Nat
  /\ Keys \subseteq DOMAIN LowHash

VARIABLES
  phase,    \* the builder: "add", "index", "bloom", "footer", "done" or "dropped"
  block,    \* SsTableBuilder.block
  index,    \* SsTableBuilder.index: the handles of the sealed blocks
  bloom,    \* SsTableBuilder.bloom
  file,     \* the regions on disk
  damaged,  \* history: the medium has changed the finished file
  added,    \* history: what add() was given, a table
  reader,   \* the open SsTableReader, or why there is none
  iter      \* an SsTableIter and what it has yielded

builderVars == <<phase, block, index, bloom>>
vars == <<builderVars, file, damaged, added, reader, iter>>

Region(kind, body) == [kind |-> kind, body |-> body, ok |-> TRUE]
NoReader == [state |-> "closed", index |-> <<>>, bloom |-> NewFilter(0, 0)]
NoIter == [at |-> "closed", blockIdx |-> 1, block |-> <<>>, out |-> <<>>]

\* SsTableBuilder::new, on the file it has just created.
Init ==
  /\ phase = "add"
  /\ block = <<>>
  /\ index = <<>>
  /\ bloom \in {NewFilter(n, BitsPerKey) : n \in ExpectedKeys}
  /\ file = <<>>
  /\ damaged = FALSE
  /\ added = EmptyTable
  /\ reader = NoReader
  /\ iter = NoIter

-----------------------------------------------------------------------------
\* encode_entry: key, seq, tag, and a value's length; decode_block reads them.
TAG_DELETE == 0
TAG_PUT == 1

EncodeEntry(item) ==
  IF item.entry.kind = "Value" THEN <<item.key, item.entry.seq, TAG_PUT, item.size>>
  ELSE <<item.key, item.entry.seq, TAG_DELETE>>

EncodeBlock(items) == FlattenSeq([i \in DOMAIN items |-> EncodeEntry(items[i])])

DecodeEntry(f) ==
  IF f[3] = TAG_PUT
  THEN [key |-> f[1], entry |-> [seq |-> f[2], kind |-> "Value"], size |-> f[4]]
  ELSE [key |-> f[1], entry |-> [seq |-> f[2], kind |-> "Tombstone"], size |-> 1]

DecodeBlock(fields) ==
  FoldLeft(LAMBDA s, f :
             LET cut == Append(s.cut, f)
                 whole == Len(cut) = 4 \/ (Len(cut) = 3 /\ f = TAG_DELETE)
             IN  IF whole THEN [items |-> Append(s.items, DecodeEntry(cut)), cut |-> <<>>]
                 ELSE [s EXCEPT !.cut = cut],
           [items |-> <<>>, cut |-> <<>>], fields).items

\* The index block: a count, then each block's first key and where it is.
EncodeIndex(handles) ==
  <<Len(handles)>> \o FlattenSeq([i \in DOMAIN handles |-> <<handles[i].first, handles[i].offset>>])

DecodeIndex(fields) ==
  [i \in 1 .. fields[1] |-> [first |-> fields[2 * i], offset |-> fields[2 * i + 1]]]

\* encoded_entry_len.
SizesOf(e) == IF e.kind = "Value" THEN ValueSizes ELSE {1}
BlockLen == FoldLeft(LAMBDA n, item : n + item.size, 0, block)

\* seal_block: the block becomes a region and the index its handle.
SealedIndex ==
  IF block = <<>> THEN index
  ELSE Append(index, [first |-> Head(block).key, offset |-> Len(file) + 1])

SealedFile == IF block = <<>> THEN file ELSE Append(file, Region("data", EncodeBlock(block)))

Overflows(n) == block # <<>> /\ BlockLen + n > BlockSize

\* add: a strictly larger key; a block it does not fit into is sealed first.
Add(k, e, n) ==
  LET item == [key |-> k, entry |-> e, size |-> n] IN
  /\ phase = "add"
  /\ \A j \in Keys : added[j] # Absent => j < k
  /\ IF Overflows(n) THEN /\ file' = SealedFile
                          /\ index' = SealedIndex
                          /\ block' = <<item>>
                     ELSE /\ block' = Append(block, item)
                          /\ UNCHANGED <<file, index>>
  /\ bloom' = InsertKey(bloom, k)
  /\ added' = [added EXCEPT ![k] = e]
  /\ UNCHANGED <<phase, damaged, reader, iter>>

\* finish: the last block, ...
FinishBlocks ==
  /\ phase = "add" /\ ~IsEmpty(added)
  /\ file' = SealedFile
  /\ index' = SealedIndex
  /\ block' = <<>>
  /\ phase' = "index"
  /\ UNCHANGED <<bloom, damaged, added, reader, iter>>

\* ... the index, ...
FinishIndex ==
  /\ phase = "index"
  /\ file' = Append(file, Region("index", EncodeIndex(index)))
  /\ phase' = "bloom"
  /\ UNCHANGED <<block, index, bloom, damaged, added, reader, iter>>

\* ... the filter, ...
FinishBloom ==
  /\ phase = "bloom"
  /\ file' = Append(file, Region("bloom", bloom))
  /\ phase' = "footer"
  /\ UNCHANGED <<block, index, bloom, damaged, added, reader, iter>>

\* ... the footer, and one sync_file for all.
FinishFooter ==
  /\ phase = "footer"
  /\ file' = Append(file, Region("footer", [index |-> Len(file) - 1, bloom |-> Len(file)]))
  /\ phase' = "done"
  /\ UNCHANGED <<block, index, bloom, damaged, added, reader, iter>>

\* The builder is dropped: the stream was empty, a key came out of order, or a
\* storage operation failed.  What was written stays.
DropBuilder ==
  /\ phase \notin {"done", "dropped"}
  /\ phase' = "dropped"
  /\ UNCHANGED <<block, index, bloom, file, damaged, added, reader, iter>>

\* The medium spoils a region, or the file loses its end.
Rot(i) ==
  /\ phase = "done" /\ ~damaged
  /\ file' = [file EXCEPT ![i].ok = FALSE]
  /\ damaged' = TRUE
  /\ UNCHANGED <<builderVars, added, reader, iter>>

Truncate(n) ==
  /\ phase = "done" /\ ~damaged
  /\ file' = SubSeq(file, 1, n)
  /\ damaged' = TRUE
  /\ UNCHANGED <<builderVars, added, reader, iter>>

-----------------------------------------------------------------------------
\* read_exact and verify_crc of the region a structure of this kind is in.
Readable(i, kind) == i \in DOMAIN file /\ file[i].ok /\ file[i].kind = kind

Footer == file[Len(file)].body

\* check_region: what the footer points to lies before it.
CheckRegion(i) == i < Len(file)

\* open: the footer at the end, then the index and the filter it points to.
OpenReader ==
  /\ phase \in {"done", "dropped"} /\ reader.state = "closed"
  /\ reader' =
       IF /\ Readable(Len(file), "footer")
          /\ CheckRegion(Footer.index) /\ CheckRegion(Footer.bloom)
          /\ Readable(Footer.index, "index") /\ Readable(Footer.bloom, "bloom")
          /\ Decodes(file[Footer.bloom].body)
       THEN [state |-> "open", index |-> DecodeIndex(file[Footer.index].body),
             bloom |-> file[Footer.bloom].body]
       ELSE [NoReader EXCEPT !.state = "corrupt"]
  /\ UNCHANGED <<builderVars, file, damaged, added, iter>>

\* Mutant of FindBlock: partition_point with `<` in place of `<=`.
FindBlockStrict(k) == Cardinality({i \in DOMAIN reader.index : reader.index[i].first < k})

\* find_block: the last block that starts at or before k, 0 for none.
FindBlock(k) == Cardinality({i \in DOMAIN reader.index : reader.index[i].first <= k})

Corrupt == [seq |-> 0, kind |-> "Corrupt"]

\* get: the filter, the one candidate block, its entry.
Get(k) ==
  LET at == FindBlock(k)
      handle == reader.index[at]
      hits == {item \in ToSet(DecodeBlock(file[handle.offset].body)) : item.key = k}
  IN  IF ~MayContain(reader.bloom, k) \/ at = 0 THEN Absent
      ELSE IF ~Readable(handle.offset, "data") THEN Corrupt
      ELSE IF hits = {} THEN Absent
      ELSE (CHOOSE item \in hits : TRUE).entry

-----------------------------------------------------------------------------
IterOpen ==
  /\ reader.state = "open" /\ iter.at = "closed"
  /\ iter' = [NoIter EXCEPT !.at = "open"]
  /\ UNCHANGED <<builderVars, file, damaged, added, reader>>

\* SsTableIter::next: an entry of the loaded block ...
IterYield ==
  /\ iter.at = "open" /\ iter.block # <<>>
  /\ iter' = [iter EXCEPT !.block = Tail(@), !.out = Append(@, Head(iter.block))]
  /\ UNCHANGED <<builderVars, file, damaged, added, reader>>

\* Mutant of IterLoad: a block that does not verify is passed over.
IterLoadSkips ==
  LET offset == reader.index[iter.blockIdx].offset IN
  /\ iter.at = "open" /\ iter.block = <<>> /\ iter.blockIdx <= Len(reader.index)
  /\ iter' = [iter EXCEPT !.block = IF Readable(offset, "data") THEN DecodeBlock(file[offset].body) ELSE <<>>,
                          !.blockIdx = @ + 1]
  /\ UNCHANGED <<builderVars, file, damaged, added, reader>>

\* ... or the next block is loaded; an error is surfaced once and ends it ...
IterLoad ==
  LET offset == reader.index[iter.blockIdx].offset IN
  /\ iter.at = "open" /\ iter.block = <<>> /\ iter.blockIdx <= Len(reader.index)
  /\ iter' = IF Readable(offset, "data")
             THEN [iter EXCEPT !.block = DecodeBlock(file[offset].body), !.blockIdx = @ + 1]
             ELSE [iter EXCEPT !.at = "failed", !.blockIdx = Len(reader.index) + 1]
  /\ UNCHANGED <<builderVars, file, damaged, added, reader>>

\* ... or there is none left.
IterEnd ==
  /\ iter.at = "open" /\ iter.block = <<>> /\ iter.blockIdx > Len(reader.index)
  /\ iter' = [iter EXCEPT !.at = "ended"]
  /\ UNCHANGED <<builderVars, file, damaged, added, reader>>

Next ==
  \/ \E k \in Keys, e \in Entries : \E n \in SizesOf(e) : Add(k, e, n)
  \/ FinishBlocks \/ FinishIndex \/ FinishBloom \/ FinishFooter \/ DropBuilder
  \/ \E i \in DOMAIN file : Rot(i)
  \/ \E n \in 0 .. Len(file) - 1 : Truncate(n)
  \/ OpenReader \/ IterOpen \/ IterYield \/ IterLoad \/ IterEnd

Spec == Init /\ [][Next]_vars

-----------------------------------------------------------------------------
(***************************************************************************)
(* A lookup answers with exactly what was added for the key, or with an    *)
(* error if the medium has damaged the file; neither a block boundary, a   *)
(* Bloom collision, a block the medium spoiled after open() nor a table    *)
(* that was never finished makes it answer wrongly (get, find_block, open, *)
(* seal_block).                                                            *)
(***************************************************************************)
LookupExact ==
  reader.state = "open" =>
    /\ phase = "done"
    /\ \A k \in Keys : Get(k) = added[k] \/ (damaged /\ Get(k) = Corrupt)

\* The table's entries in key order.
InOrder ==
  LET keys == SetToSortSeq({k \in Keys : added[k] # Absent}, <)
  IN  [i \in DOMAIN keys |-> <<keys[i], added[keys[i]]>>]

(***************************************************************************)
(* An iteration yields the table's entries in order and without a gap, and *)
(* ends with None only after the last one: damage ends it with an error,   *)
(* never early and never by skipping a block, so that a compaction cannot  *)
(* quietly lose what it could not read (SsTableIter::next).                *)
(***************************************************************************)
IterExact ==
  LET yielded == [i \in DOMAIN iter.out |-> <<iter.out[i].key, iter.out[i].entry>>] IN
  /\ IsPrefix(yielded, InOrder)
  /\ iter.at = "ended" => yielded = InOrder
  /\ iter.at = "failed" => damaged

(***************************************************************************)
(* A table whose finish() returned opens again as long as the medium keeps *)
(* it: no size for which the filter and the blocks were built makes the    *)
(* checks of open and decode refuse their own file (BloomFilter::new,      *)
(* encode and decode, check_region).                                       *)
(***************************************************************************)
FinishedOpens == reader.state = "corrupt" => phase = "dropped" \/ damaged
==============================================================================
