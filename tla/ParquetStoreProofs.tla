------------------------- MODULE ParquetStoreProofs ------------------------
(***************************************************************************)
(* ParquetStore: what a reader gets and what a write leaves behind, for    *)
(* any streams, versions, readers and number of writes.                    *)
(*                                                                         *)
(* The files are told apart by the write they come from: ids only grow, an *)
(* id is that of one path, and a file that is complete keeps its content   *)
(* for as long as it keeps its id.                                         *)
(***************************************************************************)
EXTENDS ParquetStore, SequenceTheorems, TLAPS

Row == [id : 1..MaxWrites, index : Nat \ {0}, stream : Streams]

\* The rows of a file are numbered from one and of the stream of its metadata.
RowsFit(f) ==
  \A i \in DOMAIN f.rows : f.rows[i].index = i /\ f.rows[i].stream = f.meta.stream

FilesInv ==
  /\ writes \in 0..MaxWrites
  /\ DOMAIN files \subseteq Paths
  /\ \A p \in DOMAIN files :
       /\ files[p] \in File
       /\ Path(files[p].meta) = p
       /\ RowsFit(files[p])
       /\ files[p].id <= writes

\* The running write has the last id, which no other file has yet.
WriterInv ==
  /\ writer.pc \in {"idle", "opening", "writing"}
  /\ writer.pc # "idle" =>
       DOMAIN writer = {"pc", "meta", "batches"} /\ writer.meta \in Metadata /\ writes >= 1
  /\ writer.pc = "opening" => \A p \in DOMAIN files : files[p].id < writes
  /\ writer.pc = "writing" =>
       /\ Path(writer.meta) \in DOMAIN files
       /\ Output.id = writes /\ Output.meta = writer.meta /\ ~Output.footer
       /\ \A p \in DOMAIN files : files[p].id = writes => p = Path(writer.meta)

\* A write that returned left a complete file, and only a later write can have
\* taken its place.
ReturnedInv ==
  \A w \in returned :
    /\ w.id \in 1..writes /\ w.meta \in Metadata
    /\ writer.pc # "idle" => w.id < writes
    /\ Path(w.meta) \in DOMAIN files
    /\ files[Path(w.meta)].id >= w.id
    /\ \A p \in DOMAIN files : files[p].id = w.id =>
         /\ files[p].meta = w.meta /\ files[p].footer
         /\ Len(files[p].rows) = w.count

\* The states of a reader: not called yet, before it knows the metadata of the
\* file, when it does, and once it has opened the batches.
IdleState == [pc : {"idle"}]
CallState == [pc : {"check", "open", "error"}, op : Operation, fragment : Fragment, delivered : {<<>>}]
LabelledState ==
  [pc : {"open", "ok", "error"}, op : Operation, fragment : Fragment, delivered : {<<>>},
   label : Metadata]
ReadState ==
  [pc : {"read", "ok", "error"}, op : Operation, fragment : Fragment, delivered : Seq(Row),
   opened : File, label : Metadata]

\* What a reader has opened is of the stream and the schema it asked for, and
\* what it has delivered are rows of that stream, in order from the first.
ReadFits(s) ==
  /\ Path(s.opened.meta) = s.fragment.locator
  /\ MatchesFragment(s.fragment, s.opened.meta)
  /\ s.opened.footer /\ RowsFit(s.opened)
  /\ Len(s.delivered) <= Len(s.opened.rows)
  /\ \A i \in DOMAIN s.delivered :
       s.delivered[i].index = i /\ s.delivered[i].stream = s.fragment.stream
  /\ s.pc = "ok" => Len(s.delivered) = Len(s.opened.rows)

\* While the file is the one that was opened, its rows are what was delivered;
\* another file in its place has a later id.
ReadIsCurrent(s) ==
  /\ s.fragment.locator \in DOMAIN files
  /\ files[s.fragment.locator] # s.opened => s.opened.id < files[s.fragment.locator].id
  /\ files[s.fragment.locator] = s.opened =>
       \A i \in DOMAIN s.delivered : s.delivered[i] = s.opened.rows[i]

ReaderFits(s) ==
  /\ s.pc = "open" /\ s.op # "read_batches" => s \in LabelledState
  /\ s \in LabelledState \union ReadState => s.label.stream = s.fragment.stream
  /\ s \in ReadState => ReadFits(s) /\ ReadIsCurrent(s)

ReaderState == IdleState \union CallState \union LabelledState \union ReadState

ReaderInv == reader \in [Readers -> ReaderState] /\ \A r \in Readers : ReaderFits(reader[r])

\* The inductive invariant.
StoreIInv == FilesInv /\ WriterInv /\ ReturnedInv /\ ReaderInv

-----------------------------------------------------------------------------
\* Metadata lies under a path of the directory, which names its stream.
LEMMA PathFacts ==
  ASSUME NEW m \in Metadata
  PROVE  Path(m) \in Paths /\ Path(m).stream = m.stream /\ m.stream \in Streams
PROOF BY DEF Paths, Path, Metadata

\* Writing a file changes no other.
LEMMA PutFacts ==
  ASSUME NEW p, NEW f, PutFile(p, f)
  PROVE  /\ DOMAIN files' = DOMAIN files \union {p}
         /\ files'[p] = f
         /\ \A q \in DOMAIN files : q # p => files'[q] = files[q]
PROOF BY DEF PutFile

\* The parts of a file.
LEMMA FileFacts ==
  ASSUME NEW f \in File
  PROVE  /\ f.id \in 1..MaxWrites /\ f.meta \in Metadata /\ f.footer \in BOOLEAN
         /\ f.rows \in Seq(Row)
         /\ Len(f.rows) \in Nat /\ DOMAIN f.rows = 1..Len(f.rows)
  <1>1. f.rows \in Seq(Row)
    BY DEF File, Row
  <1>2. Len(f.rows) \in Nat /\ DOMAIN f.rows = 1..Len(f.rows)
    BY <1>1, LenProperties
  <1> QED BY <1>1, <1>2 DEF File

\* No state of a reader belongs to two of the four kinds that have other fields.
LEMMA StateKinds ==
  ASSUME NEW s \in ReaderState
  PROVE  /\ "pc" \in DOMAIN s
         /\ "opened" \in DOMAIN s <=> s \in ReadState
         /\ s.pc \in {"check"} => s \in CallState
         /\ s.pc \in {"open"} => s \in CallState \union LabelledState
         /\ s.pc \in {"read"} => s \in ReadState
         /\ s \in CallState => s \notin LabelledState \union ReadState
         /\ s \in LabelledState => s \notin ReadState
  <1>1. s \in IdleState => DOMAIN s = {"pc"}
    BY DEF IdleState
  <1>2. s \in CallState => DOMAIN s = {"pc", "op", "fragment", "delivered"}
    BY DEF CallState
  <1>3. s \in LabelledState => DOMAIN s = {"pc", "op", "fragment", "delivered", "label"}
    BY DEF LabelledState
  <1>4. s \in ReadState => DOMAIN s = {"pc", "op", "fragment", "delivered", "opened", "label"}
    BY DEF ReadState
  <1>5. /\ s \in IdleState => s.pc = "idle"
        /\ s \in CallState => s.pc \in {"check", "open", "error"}
        /\ s \in LabelledState => s.pc \in {"open", "ok", "error"}
        /\ s \in ReadState => s.pc \in {"read", "ok", "error"}
    BY DEF IdleState, CallState, LabelledState, ReadState
  <1> QED BY <1>1, <1>2, <1>3, <1>4, <1>5 DEF ReaderState

-----------------------------------------------------------------------------
\* The directory is empty and nobody is in a call.
LEMMA InitStore == Init => StoreIInv
  <1> SUFFICES ASSUME Init PROVE StoreIInv
    OBVIOUS
  <1>1. FilesInv /\ WriterInv /\ ReturnedInv
    BY VersionAssumption DEF Init, FilesInv, WriterInv, ReturnedInv
  <1>2. ReaderInv
    <2>1. NoRead \in IdleState
      BY DEF NoRead, IdleState
    <2>2. NoRead \in ReaderState /\ NoRead.pc = "idle"
      BY <2>1 DEF ReaderState, NoRead
    <2>3. ReaderFits(NoRead)
      BY <2>1, <2>2, StateKinds DEF ReaderFits, LabelledState, ReadState
    <2> QED BY <2>2, <2>3 DEF Init, ReaderInv
  <1> QED BY <1>1, <1>2 DEF StoreIInv

\* What a step of the writer may do to a file: give it a later id, or go on
\* with one that is not complete.  No reader is disturbed by it.
WriterKeeps ==
  /\ UNCHANGED reader
  /\ DOMAIN files \subseteq DOMAIN files'
  /\ \A p \in DOMAIN files :
       \/ files'[p] = files[p]
       \/ files[p].id < files'[p].id
       \/ files[p].id = files'[p].id /\ ~files[p].footer

LEMMA ReadersUndisturbed ==
  ASSUME StoreIInv, FilesInv', WriterKeeps
  PROVE  ReaderInv'
  <1> SUFFICES ASSUME NEW r \in Readers PROVE ReaderFits(reader[r])'
    BY DEF ReaderInv, WriterKeeps, StoreIInv
  <1> DEFINE s == reader[r]
  <1>1. ReaderFits(s) /\ reader' = reader
    BY DEF StoreIInv, ReaderInv, WriterKeeps
  <1>2. ASSUME s \in ReadState
        PROVE  ReadIsCurrent(s)'
    <2> DEFINE p == s.fragment.locator
    <2>1. ReadFits(s) /\ ReadIsCurrent(s)
      BY <1>1, <1>2 DEF ReaderFits
    <2>2. p \in DOMAIN files /\ p \in DOMAIN files' /\ s.opened.footer
      BY <2>1 DEF ReadFits, ReadIsCurrent, WriterKeeps
    <2>3. files[p] \in File /\ files'[p] \in File /\ s.opened \in File
      BY <1>2, <2>2 DEF StoreIInv, FilesInv, ReadState
    <2>4. files[p].id \in Nat /\ files'[p].id \in Nat /\ s.opened.id \in Nat
      BY <2>3, FileFacts, VersionAssumption
    <2>5. CASE files'[p] = files[p]
      BY <1>1, <2>1, <2>2, <2>5 DEF ReadIsCurrent
    <2>6. CASE files[p].id < files'[p].id
      <3>1. s.opened.id < files'[p].id
        BY <2>1, <2>4, <2>6 DEF ReadIsCurrent
      <3>2. files'[p] # s.opened
        BY <2>4, <3>1
      <3> QED BY <1>1, <2>2, <3>1, <3>2 DEF ReadIsCurrent
    <2>7. CASE files[p].id = files'[p].id /\ ~files[p].footer
      <3>1. s.opened.id < files'[p].id
        BY <2>1, <2>2, <2>7 DEF ReadIsCurrent
      <3>2. files'[p] # s.opened
        BY <2>4, <3>1
      <3> QED BY <1>1, <2>2, <3>1, <3>2 DEF ReadIsCurrent
    <2> QED BY <2>2, <2>5, <2>6, <2>7 DEF WriterKeeps
  <1> QED BY <1>1, <1>2 DEF ReaderFits, ReadFits

\* A call of write takes the next id; arguments it rejects change nothing else.
LEMMA CallWritePreserves ==
  ASSUME StoreIInv, NEW m \in Written, NEW b, CallWrite(m, b)
  PROVE  StoreIInv'
  <1>1. /\ writes' = writes + 1 /\ writes < MaxWrites /\ writer.pc = "idle"
        /\ files' = files /\ returned' = returned /\ reader' = reader
        /\ m \in Metadata
    BY ArgumentAssumption DEF CallWrite
  <1>2. writes \in Nat /\ writes' \in 0..MaxWrites
    BY <1>1, VersionAssumption DEF StoreIInv, FilesInv
  <1>3. \A p \in DOMAIN files : files[p].id \in Nat /\ files[p].id <= writes /\ files[p].id < writes'
    <2> SUFFICES ASSUME NEW p \in DOMAIN files
                 PROVE  files[p].id \in Nat /\ files[p].id <= writes /\ files[p].id < writes'
      OBVIOUS
    <2>1. files[p] \in File /\ files[p].id <= writes
      BY DEF StoreIInv, FilesInv
    <2>2. files[p].id \in Nat
      BY <2>1, FileFacts, VersionAssumption
    <2> QED BY <1>1, <1>2, <2>1, <2>2
  <1>4. FilesInv'
    BY <1>1, <1>2, <1>3 DEF StoreIInv, FilesInv
  <1>5. WriterInv'
    <2>1. \/ writer' = [pc |-> "opening", meta |-> m, batches |-> b]
          \/ writer' = [pc |-> "idle"]
      BY DEF CallWrite
    <2>2. /\ writer'.pc \in {"idle", "opening"}
          /\ writer'.pc = "opening" =>
               writer'.meta = m /\ DOMAIN writer' = {"pc", "meta", "batches"}
      BY <2>1
    <2> QED BY <1>1, <1>2, <1>3, <2>2 DEF WriterInv
  <1>6. ReturnedInv'
    <2> SUFFICES ASSUME NEW w \in returned
                 PROVE  w.id \in 1..writes' /\ w.id < writes'
      BY <1>1 DEF StoreIInv, ReturnedInv
    <2>1. w.id \in 1..writes
      BY DEF StoreIInv, ReturnedInv
    <2> QED BY <1>1, <1>2, <2>1
  <1>7. WriterKeeps
    BY <1>1 DEF WriterKeeps
  <1> QED BY <1>4, <1>5, <1>6, <1>7, ReadersUndisturbed DEF StoreIInv

\* A write that ends in an error, or dies with its process, leaves its file.
LEMMA WriterStopsPreserves ==
  ASSUME StoreIInv, writer' = [pc |-> "idle"], UNCHANGED <<files, writes, returned, reader>>
  PROVE  StoreIInv'
  <1>1. FilesInv' /\ WriterInv' /\ ReturnedInv'
    BY DEF StoreIInv, FilesInv, WriterInv, ReturnedInv
  <1>2. WriterKeeps
    BY DEF WriterKeeps
  <1> QED BY <1>1, <1>2, ReadersUndisturbed DEF StoreIInv

\* The new file has an id that no other has, and takes the place of an earlier one.
LEMMA OpenOutputPreserves ==
  ASSUME StoreIInv, OpenOutput
  PROVE  StoreIInv'
  <1> DEFINE q == Path(writer.meta)
             f == [id |-> writes, meta |-> writer.meta, rows |-> <<>>, footer |-> FALSE]
  <1>1. /\ writer.pc = "opening" /\ writer.meta \in Metadata /\ writes \in 1..MaxWrites
        /\ PutFile(q, f)
        /\ writes' = writes /\ returned' = returned /\ reader' = reader
        /\ writer' = [writer EXCEPT !.pc = "writing"]
    BY VersionAssumption DEF OpenOutput, StoreIInv, FilesInv, WriterInv
  <1>2. q \in Paths
    BY <1>1, PathFacts
  <1>3. f \in File /\ RowsFit(f) /\ f.id = writes /\ f.meta = writer.meta /\ ~f.footer
    BY <1>1 DEF File, RowsFit
  <1> HIDE DEF f
  <1>4. /\ DOMAIN files' = DOMAIN files \union {q}
        /\ files'[q] = f
        /\ \A p \in DOMAIN files : p # q => files'[p] = files[p]
    BY <1>1, PutFacts
  <1>5. \A p \in DOMAIN files : files[p].id < writes /\ files[p].id \in Nat
    BY <1>1, FileFacts, VersionAssumption DEF StoreIInv, FilesInv, WriterInv
  <1>6. FilesInv'
    BY <1>1, <1>2, <1>3, <1>4, VersionAssumption DEF StoreIInv, FilesInv
  <1>7. WriterInv'
    <2>1. writer'.meta = writer.meta /\ DOMAIN writer' = {"pc", "meta", "batches"}
      BY <1>1 DEF StoreIInv, WriterInv
    <2>2. \A p \in DOMAIN files' : files'[p].id = writes => p = q
      BY <1>1, <1>4, <1>5
    <2>3. writer'.pc = "writing"
      BY <1>1 DEF StoreIInv, WriterInv
    <2> QED BY <1>1, <1>3, <1>4, <2>1, <2>2, <2>3 DEF WriterInv, Output
  <1>8. ReturnedInv'
    <2> SUFFICES ASSUME NEW w \in returned
                 PROVE  /\ w.id < writes
                        /\ Path(w.meta) \in DOMAIN files'
                        /\ files'[Path(w.meta)].id >= w.id
                        /\ \A p \in DOMAIN files' : files'[p].id = w.id =>
                             /\ p \in DOMAIN files /\ files'[p] = files[p]
      BY <1>1 DEF StoreIInv, ReturnedInv
    <2>1. w.id < writes /\ w.id \in Nat
      BY <1>1 DEF StoreIInv, ReturnedInv
    <2>2. Path(w.meta) \in DOMAIN files /\ files[Path(w.meta)].id >= w.id
      BY DEF StoreIInv, ReturnedInv
    <2> QED BY <1>1, <1>3, <1>4, <2>1, <2>2
  <1>9. WriterKeeps
    BY <1>1, <1>3, <1>4, <1>5 DEF WriterKeeps
  <1> QED BY <1>6, <1>7, <1>8, <1>9, ReadersUndisturbed DEF StoreIInv

\* The file of the running write changes: its rows, its footer, or both.  It
\* keeps its id and its metadata, and nobody has it open.
LEMMA OutputChanges ==
  ASSUME StoreIInv, writer.pc = "writing", NEW f \in File, PutFile(Path(writer.meta), f),
         f.id = writes, f.meta = writer.meta, RowsFit(f), UNCHANGED <<writes, reader>>
  PROVE  /\ FilesInv' /\ ReaderInv'
         /\ DOMAIN files' = DOMAIN files
         /\ files'[Path(writer.meta)] = f
         /\ \A p \in DOMAIN files : p # Path(writer.meta) => files'[p] = files[p]
         /\ \A p \in DOMAIN files : files'[p].id = files[p].id
  <1> DEFINE q == Path(writer.meta)
  <1>1. q \in DOMAIN files /\ files[q].id = writes /\ ~files[q].footer /\ writer.meta \in Metadata
    BY DEF StoreIInv, WriterInv, Output
  <1>2. /\ DOMAIN files' = DOMAIN files
        /\ files'[q] = f
        /\ \A p \in DOMAIN files : p # q => files'[p] = files[p]
    BY <1>1, PutFacts
  <1>3. \A p \in DOMAIN files : files'[p].id = files[p].id
    BY <1>1, <1>2
  <1>4. FilesInv'
    BY <1>1, <1>2, VersionAssumption DEF StoreIInv, FilesInv
  <1>5. WriterKeeps
    BY <1>1, <1>2 DEF WriterKeeps
  <1> QED BY <1>2, <1>3, <1>4, <1>5, ReadersUndisturbed

\* What other writes returned is not in the file of the running write.
LEMMA ReturnedElsewhere ==
  ASSUME StoreIInv, writer.pc = "writing", NEW w \in returned,
         NEW p \in DOMAIN files, files[p].id = w.id
  PROVE  p # Path(writer.meta) /\ w.id < writes
  <1>1. w.id < writes /\ w.id \in Nat /\ writes \in Nat
    BY VersionAssumption DEF StoreIInv, ReturnedInv, FilesInv
  <1>2. files[Path(writer.meta)].id = writes
    BY DEF StoreIInv, WriterInv, Output
  <1> QED BY <1>1, <1>2

LEMMA WriteBatchPreserves ==
  ASSUME StoreIInv, WriteBatch
  PROVE  StoreIInv'
  <1> DEFINE q   == Path(writer.meta)
             row == [id |-> writes, index |-> Len(Output.rows) + 1, stream |-> writer.meta.stream]
             f   == [Output EXCEPT !.rows = Append(@, row)]
  <1>1. /\ writer.pc = "writing" /\ PutFile(q, f)
        /\ writes' = writes /\ writer' = writer /\ returned' = returned /\ reader' = reader
    BY DEF WriteBatch
  <1>2. /\ q \in DOMAIN files /\ Output = files[q] /\ Output \in File
        /\ Output.id = writes /\ Output.meta = writer.meta /\ ~Output.footer
        /\ writer.meta \in Metadata /\ writes \in 1..MaxWrites
        /\ RowsFit(Output)
    BY <1>1, VersionAssumption DEF StoreIInv, FilesInv, WriterInv, Output
  <1>3. Output.rows \in Seq(Row) /\ Len(Output.rows) \in Nat /\ DOMAIN Output.rows = 1..Len(Output.rows)
    BY <1>2, FileFacts
  <1>4. row \in Row
    BY <1>2, <1>3, PathFacts DEF Row
  <1>5. /\ Append(Output.rows, row) \in Seq(Row)
        /\ Len(Append(Output.rows, row)) = Len(Output.rows) + 1
        /\ \A i \in 1..Len(Output.rows) : Append(Output.rows, row)[i] = Output.rows[i]
        /\ Append(Output.rows, row)[Len(Output.rows) + 1] = row
        /\ DOMAIN Append(Output.rows, row) = 1..(Len(Output.rows) + 1)
    <2>1. Append(Output.rows, row) \in Seq(Row)
      BY <1>3, <1>4, AppendProperties
    <2> QED BY <1>3, <1>4, <2>1, AppendProperties, LenProperties
  <1>6. f \in File /\ f.id = writes /\ f.meta = writer.meta /\ ~f.footer /\ f.rows = Append(Output.rows, row)
    BY <1>2, <1>5 DEF File, Row
  <1>7. RowsFit(f)
    <2> SUFFICES ASSUME NEW i \in 1..(Len(Output.rows) + 1)
                 PROVE  f.rows[i].index = i /\ f.rows[i].stream = writer.meta.stream
      BY <1>5, <1>6 DEF RowsFit
    <2>1. CASE i \in 1..Len(Output.rows)
      BY <1>2, <1>3, <1>5, <1>6, <2>1 DEF RowsFit
    <2>2. CASE i = Len(Output.rows) + 1
      BY <1>5, <1>6, <2>2
    <2> QED BY <1>3, <2>1, <2>2
  <1> HIDE DEF f
  <1>8. /\ FilesInv' /\ ReaderInv'
        /\ DOMAIN files' = DOMAIN files
        /\ files'[q] = f
        /\ \A p \in DOMAIN files : p # q => files'[p] = files[p]
        /\ \A p \in DOMAIN files : files'[p].id = files[p].id
    BY <1>1, <1>6, <1>7, OutputChanges
  <1>9. WriterInv'
    BY <1>1, <1>2, <1>6, <1>8 DEF StoreIInv, WriterInv, Output
  <1>10. ReturnedInv'
    BY <1>1, <1>8, ReturnedElsewhere DEF StoreIInv, ReturnedInv
  <1> QED BY <1>8, <1>9, <1>10 DEF StoreIInv

LEMMA CloseOutputPreserves ==
  ASSUME StoreIInv, CloseOutput
  PROVE  StoreIInv'
  <1> DEFINE q == Path(writer.meta)
             f == [Output EXCEPT !.footer = TRUE]
             new == [id |-> writes, meta |-> writer.meta, count |-> Len(writer.batches)]
  <1>1. /\ writer.pc = "writing" /\ PutFile(q, f) /\ Len(Output.rows) = Len(writer.batches)
        /\ writes' = writes /\ reader' = reader
        /\ writer' = [pc |-> "idle"] /\ returned' = returned \union {new}
    BY DEF CloseOutput
  <1>2. /\ q \in DOMAIN files /\ Output = files[q] /\ Output \in File
        /\ Output.id = writes /\ Output.meta = writer.meta
        /\ writer.meta \in Metadata /\ writes \in 1..MaxWrites
        /\ RowsFit(Output)
        /\ \A p \in DOMAIN files : files[p].id = writes => p = q
    BY <1>1, VersionAssumption DEF StoreIInv, FilesInv, WriterInv, Output
  <1>3. f \in File /\ f.id = writes /\ f.meta = writer.meta /\ f.footer /\ f.rows = Output.rows
    BY <1>2 DEF File
  <1> HIDE DEF f
  <1>4. RowsFit(f)
    BY <1>2, <1>3 DEF RowsFit
  <1>5. /\ FilesInv' /\ ReaderInv'
        /\ DOMAIN files' = DOMAIN files
        /\ files'[q] = f
        /\ \A p \in DOMAIN files : p # q => files'[p] = files[p]
        /\ \A p \in DOMAIN files : files'[p].id = files[p].id
    BY <1>1, <1>3, <1>4, OutputChanges
  <1>6. WriterInv'
    BY <1>1 DEF WriterInv
  <1>7. ReturnedInv'
    <2>1. ASSUME NEW w \in returned
          PROVE  /\ w.id \in 1..writes' /\ w.meta \in Metadata
                 /\ Path(w.meta) \in DOMAIN files'
                 /\ files'[Path(w.meta)].id >= w.id
                 /\ \A p \in DOMAIN files' : files'[p].id = w.id =>
                      /\ files'[p].meta = w.meta /\ files'[p].footer
                      /\ Len(files'[p].rows) = w.count
      BY <1>1, <1>5, ReturnedElsewhere DEF StoreIInv, ReturnedInv
    <2>2. /\ new.id \in 1..writes' /\ new.meta \in Metadata
          /\ Path(new.meta) \in DOMAIN files'
          /\ files'[Path(new.meta)].id >= new.id
          /\ \A p \in DOMAIN files' : files'[p].id = new.id =>
               /\ files'[p].meta = new.meta /\ files'[p].footer
               /\ Len(files'[p].rows) = new.count
      BY <1>1, <1>2, <1>3, <1>5
    <2> QED BY <1>1, <2>1, <2>2 DEF ReturnedInv
  <1> QED BY <1>5, <1>6, <1>7 DEF StoreIInv

LEMMA WriteFailsPreserves ==
  ASSUME StoreIInv, WriteFails
  PROVE  StoreIInv'
  <1> DEFINE q == Path(writer.meta)
  <1>1. PICK footer \in BOOLEAN : PutFile(q, [Output EXCEPT !.footer = footer])
    BY DEF WriteFails
  <1> DEFINE f == [Output EXCEPT !.footer = footer]
  <1>2. /\ writer.pc = "writing"
        /\ writes' = writes /\ reader' = reader
        /\ writer' = [pc |-> "idle"] /\ returned' = returned
    BY DEF WriteFails
  <1>3. /\ Output = files[q] /\ Output \in File /\ RowsFit(Output)
        /\ Output.id = writes /\ Output.meta = writer.meta
    BY <1>2, VersionAssumption DEF StoreIInv, FilesInv, WriterInv, Output
  <1>4. f \in File /\ f.id = writes /\ f.meta = writer.meta /\ f.rows = Output.rows
    BY <1>3 DEF File
  <1>5. PutFile(q, f)
    BY <1>1
  <1> HIDE DEF f
  <1>6. RowsFit(f)
    BY <1>3, <1>4 DEF RowsFit
  <1>7. /\ FilesInv' /\ ReaderInv'
        /\ DOMAIN files' = DOMAIN files
        /\ \A p \in DOMAIN files : p # q => files'[p] = files[p]
        /\ \A p \in DOMAIN files : files'[p].id = files[p].id
    BY <1>2, <1>4, <1>5, <1>6, OutputChanges
  <1>8. WriterInv'
    BY <1>2 DEF WriterInv
  <1>9. ReturnedInv'
    BY <1>2, <1>7, ReturnedElsewhere DEF StoreIInv, ReturnedInv
  <1> QED BY <1>7, <1>8, <1>9 DEF StoreIInv

-----------------------------------------------------------------------------
\* A reader's step changes its own state and nothing else.
LEMMA ReaderMoves ==
  ASSUME StoreIInv, NEW r \in Readers, NEW v \in ReaderState, ReaderFits(v), SetReader(r, v)
  PROVE  StoreIInv'
  <1>1. UNCHANGED <<files, writes, writer, returned>> /\ reader' = [reader EXCEPT ![r] = v]
    BY DEF SetReader
  <1>2. FilesInv' /\ WriterInv' /\ ReturnedInv'
    BY <1>1 DEF StoreIInv, FilesInv, WriterInv, ReturnedInv, Output
  <1>3. reader' \in [Readers -> ReaderState]
    BY <1>1 DEF StoreIInv, ReaderInv
  <1>4. \A q \in Readers : reader'[q] = IF q = r THEN v ELSE reader[q]
    BY <1>1 DEF StoreIInv, ReaderInv
  <1>5. \A q \in Readers : ReaderFits(reader'[q])
    BY <1>4 DEF StoreIInv, ReaderInv
  <1>6. \A q \in Readers : ReaderFits(reader[q])'
    BY <1>1, <1>5 DEF ReaderFits, ReadFits, ReadIsCurrent
  <1> QED BY <1>2, <1>3, <1>6 DEF StoreIInv, ReaderInv

\* A call that has opened nothing yet, or that ends before it does.
LEMMA NothingRead ==
  ASSUME NEW s \in CallState, s.pc = "open" => s.op = "read_batches"
  PROVE  s \in ReaderState /\ ReaderFits(s)
  <1>1. s \in ReaderState
    BY DEF ReaderState
  <1>2. s \notin LabelledState /\ s \notin ReadState
    BY <1>1, StateKinds
  <1> QED BY <1>1, <1>2 DEF ReaderFits

LEMMA CallPreserves ==
  ASSUME StoreIInv, NEW r \in Readers, NEW op \in Operation, NEW f \in Asked, Call(r, op, f)
  PROVE  StoreIInv'
  <1> DEFINE s == [pc |-> IF op = "read_batches" THEN "open" ELSE "check",
                   op |-> op, fragment |-> f, delivered |-> <<>>]
  <1>1. f \in Fragment /\ SetReader(r, s)
    BY ArgumentAssumption DEF Call
  <1>2. s \in CallState /\ (s.pc = "open" => s.op = "read_batches")
    BY <1>1 DEF CallState
  <1> HIDE DEF s
  <1> QED BY <1>1, <1>2, NothingRead, ReaderMoves

\* An error keeps what the reader has seen.
LEMMA ErrorPreserves ==
  ASSUME StoreIInv, NEW r \in Readers, reader[r].pc \in {"check", "open", "read"},
         SetReader(r, [reader[r] EXCEPT !.pc = "error"])
  PROVE  StoreIInv'
  <1> DEFINE s == reader[r]
             v == [s EXCEPT !.pc = "error"]
  <1>1. s \in ReaderState /\ ReaderFits(s)
    BY DEF StoreIInv, ReaderInv
  <1>2. CASE s \in CallState
    <2>1. v \in CallState /\ v.pc = "error"
      BY <1>2 DEF CallState
    <2> QED BY <2>1, NothingRead, ReaderMoves
  <1>3. CASE s \in LabelledState
    <2>1. v \in LabelledState /\ v.pc = "error" /\ v.label = s.label /\ v.fragment = s.fragment
      BY <1>3 DEF LabelledState
    <2>2. v \in ReaderState /\ v \notin ReadState
      BY <2>1, StateKinds DEF ReaderState
    <2>3. ReaderFits(v)
      BY <1>1, <1>3, <2>1, <2>2 DEF ReaderFits
    <2> QED BY <2>2, <2>3, ReaderMoves
  <1>4. CASE s \in ReadState
    <2>1. /\ v \in ReadState /\ v.pc = "error" /\ v.label = s.label /\ v.fragment = s.fragment
          /\ v.delivered = s.delivered /\ v.opened = s.opened
      BY <1>4 DEF ReadState
    <2>2. v \in ReaderState
      BY <2>1 DEF ReaderState
    <2>3. ReaderFits(v)
      BY <1>1, <1>4, <2>1 DEF ReaderFits, ReadFits, ReadIsCurrent
    <2> QED BY <2>2, <2>3, ReaderMoves
  <1> QED BY <1>1, <1>2, <1>3, <1>4 DEF ReaderState, IdleState

LEMMA ReadMetadataPreserves ==
  ASSUME StoreIInv, NEW r \in Readers, ReadMetadata(r)
  PROVE  StoreIInv'
  <1> DEFINE s == reader[r]
             v == [pc |-> IF s.op = "read_metadata" THEN "ok" ELSE "open",
                   op |-> s.op, fragment |-> s.fragment, delivered |-> <<>>,
                   label |-> files[s.fragment.locator].meta]
  <1>1. /\ s.pc = "check" /\ s \in ReaderState
        /\ s.fragment.locator \in DOMAIN files
        /\ MatchesFragment(s.fragment, files[s.fragment.locator].meta)
        /\ SetReader(r, v)
    BY DEF ReadMetadata, Opens, StoreIInv, ReaderInv
  <1>2. s \in CallState
    BY <1>1, StateKinds
  <1>3. files[s.fragment.locator].meta \in Metadata
    BY <1>1, FileFacts DEF StoreIInv, FilesInv
  <1>4. v \in LabelledState /\ v.label.stream = v.fragment.stream
    BY <1>1, <1>2, <1>3 DEF CallState, LabelledState, MatchesFragment
  <1> HIDE DEF v
  <1>5. v \in ReaderState /\ v \notin ReadState
    BY <1>4, StateKinds DEF ReaderState
  <1>6. ReaderFits(v)
    BY <1>4, <1>5 DEF ReaderFits
  <1> QED BY <1>1, <1>5, <1>6, ReaderMoves

\* The second open checks the file again; the label is that of the first.
LEMMA OpenBatchesPreserves ==
  ASSUME StoreIInv, NEW r \in Readers, OpenBatches(r)
  PROVE  StoreIInv'
  <1> DEFINE s == reader[r]
             f == files[s.fragment.locator]
             l == IF s.op = "stream_events" THEN s.label ELSE f.meta
             v == [pc |-> "read", op |-> s.op, fragment |-> s.fragment, delivered |-> <<>>,
                   opened |-> f, label |-> l]
  <1>1. /\ s.pc = "open" /\ s \in ReaderState /\ ReaderFits(s)
        /\ s.fragment.locator \in DOMAIN files /\ f.footer
        /\ MatchesFragment(s.fragment, f.meta)
        /\ SetReader(r, v)
    BY DEF OpenBatches, Opens, StoreIInv, ReaderInv
  <1>2. s \in CallState \union LabelledState
    BY <1>1, StateKinds
  <1>3. /\ f \in File /\ f.meta \in Metadata
        /\ Path(f.meta) = s.fragment.locator /\ RowsFit(f)
    BY <1>1, FileFacts DEF StoreIInv, FilesInv
  <1>4. s.op = "stream_events" =>
          s \in LabelledState /\ s.label \in Metadata /\ s.label.stream = s.fragment.stream
    BY <1>1 DEF ReaderFits, LabelledState
  <1>5. s.op \in Operation /\ s.fragment \in Fragment
    BY <1>2 DEF CallState, LabelledState
  <1>6. l \in Metadata /\ l.stream = s.fragment.stream
    BY <1>1, <1>3, <1>4 DEF MatchesFragment
  <1> HIDE DEF l
  <1>7. v \in ReadState
    <2>1. <<>> \in Seq(Row)
      BY EmptySeq
    <2> HIDE DEF f
    <2> QED BY <1>3, <1>5, <1>6, <2>1 DEF ReadState
  <1>8. ReadFits(v)
    <2>1. Len(f.rows) \in Nat /\ Len(<<>>) = 0 /\ DOMAIN <<>> = {}
      BY <1>3, FileFacts
    <2> QED BY <1>1, <1>3, <2>1 DEF ReadFits
  <1>9. ReadIsCurrent(v)
    BY <1>1 DEF ReadIsCurrent
  <1>10. v.fragment = s.fragment /\ v.label = l /\ v.pc = "read"
    OBVIOUS
  <1> HIDE DEF v
  <1>11. v \in ReaderState /\ ReaderFits(v)
    BY <1>6, <1>7, <1>8, <1>9, <1>10 DEF ReaderState, ReaderFits
  <1> QED BY <1>1, <1>11, ReaderMoves

\* A row of the file as it is now has the number and the stream of the one that
\* was opened, since both files lie under one path.
LEMMA RowsAtFit ==
  ASSUME StoreIInv, NEW s \in ReadState, ReadFits(s), ReadIsCurrent(s),
         NEW i \in 1..Len(s.opened.rows),
         NEW row \in RowsAt(s.opened, files[s.fragment.locator], i)
  PROVE  /\ row \in Row /\ row.index = i /\ row.stream = s.fragment.stream
         /\ files[s.fragment.locator] = s.opened => row = s.opened.rows[i]
  <1> DEFINE now == files[s.fragment.locator]
  <1>1. /\ s.opened \in File /\ RowsFit(s.opened) /\ s.opened.meta.stream = s.fragment.stream
        /\ Path(s.opened.meta) = s.fragment.locator
    BY DEF ReadState, ReadFits, MatchesFragment
  <1>2. now \in File /\ RowsFit(now) /\ Path(now.meta) = s.fragment.locator
    BY DEF StoreIInv, FilesInv, ReadIsCurrent
  <1>3. now.meta.stream = s.opened.meta.stream
    BY <1>1, <1>2, FileFacts, PathFacts
  <1>4. /\ s.opened.rows \in Seq(Row) /\ DOMAIN s.opened.rows = 1..Len(s.opened.rows)
        /\ now.rows \in Seq(Row) /\ DOMAIN now.rows = 1..Len(now.rows)
    BY <1>1, <1>2, FileFacts
  <1>5. CASE row = s.opened.rows[i]
    BY <1>1, <1>4, <1>5, ElementOfSeq DEF RowsFit
  <1>6. CASE i \in DOMAIN now.rows /\ row = now.rows[i]
    BY <1>1, <1>2, <1>3, <1>4, <1>6, ElementOfSeq DEF RowsFit
  <1> QED BY <1>5, <1>6 DEF RowsAt

LEMMA DeliverPreserves ==
  ASSUME StoreIInv, NEW r \in Readers, Deliver(r)
  PROVE  StoreIInv'
  <1> DEFINE s == reader[r]
             d == s.delivered
             n == Len(d) + 1
  <1>1. /\ s.pc = "read" /\ s \in ReaderState /\ ReaderFits(s)
        /\ Len(d) < Len(s.opened.rows)
    BY DEF Deliver, StoreIInv, ReaderInv
  <1>2. s \in ReadState /\ ReadFits(s) /\ ReadIsCurrent(s) /\ s.label.stream = s.fragment.stream
    BY <1>1, StateKinds DEF ReaderFits
  <1>3. PICK row \in RowsAt(s.opened, files[s.fragment.locator], n) :
          SetReader(r, [s EXCEPT !.delivered = Append(d, row)])
    BY DEF Deliver
  <1>4. /\ d \in Seq(Row) /\ Len(d) \in Nat /\ DOMAIN d = 1..Len(d)
        /\ Len(s.opened.rows) \in Nat
    BY <1>2, LenProperties, FileFacts DEF ReadState
  <1>5. /\ row \in Row /\ row.index = n /\ row.stream = s.fragment.stream
        /\ files[s.fragment.locator] = s.opened => row = s.opened.rows[n]
    <2>1. n \in 1..Len(s.opened.rows)
      BY <1>1, <1>4
    <2> HIDE DEF n
    <2> QED BY <1>2, <2>1, RowsAtFit
  <1> DEFINE e == Append(d, row)
             v == [s EXCEPT !.delivered = e]
  <1>6. /\ e \in Seq(Row) /\ Len(e) = n /\ DOMAIN e = 1..n
        /\ \A i \in 1..Len(d) : e[i] = d[i]
        /\ e[n] = row
    <2>1. e \in Seq(Row) /\ Len(e) = n
      BY <1>4, <1>5, AppendProperties
    <2> QED BY <1>4, <1>5, <2>1, AppendProperties, LenProperties
  <1> HIDE DEF e
  <1>7. /\ v \in ReadState /\ v.pc = "read" /\ v.fragment = s.fragment /\ v.label = s.label
        /\ v.opened = s.opened /\ v.delivered = e
    BY <1>1, <1>2, <1>6 DEF ReadState
  <1> HIDE DEF v
  <1>8. \A i \in 1..n : i \in 1..Len(d) \/ i = n
    BY <1>4
  <1>9. ReadFits(v)
    <2>1. \A i \in DOMAIN e : e[i].index = i /\ e[i].stream = s.fragment.stream
      BY <1>2, <1>4, <1>5, <1>6, <1>8 DEF ReadFits
    <2> QED BY <1>1, <1>2, <1>4, <1>6, <1>7, <2>1 DEF ReadFits
  <1>10. ReadIsCurrent(v)
    <2>1. files[s.fragment.locator] = s.opened =>
            \A i \in DOMAIN e : e[i] = s.opened.rows[i]
      BY <1>2, <1>4, <1>5, <1>6, <1>8 DEF ReadIsCurrent
    <2> QED BY <1>2, <1>7, <2>1 DEF ReadIsCurrent
  <1>11. v \in ReaderState /\ ReaderFits(v)
    BY <1>2, <1>7, <1>9, <1>10 DEF ReaderState, ReaderFits
  <1>12. SetReader(r, v)
    BY <1>3 DEF v, e
  <1> QED BY <1>11, <1>12, ReaderMoves

LEMMA FinishPreserves ==
  ASSUME StoreIInv, NEW r \in Readers, Finish(r)
  PROVE  StoreIInv'
  <1> DEFINE s == reader[r]
             v == [s EXCEPT !.pc = "ok"]
  <1>1. /\ s.pc = "read" /\ s \in ReaderState /\ ReaderFits(s)
        /\ Len(s.delivered) = Len(s.opened.rows) /\ SetReader(r, v)
    BY DEF Finish, StoreIInv, ReaderInv
  <1>2. s \in ReadState
    BY <1>1, StateKinds
  <1>3. /\ v \in ReadState /\ v.pc = "ok" /\ v.label = s.label /\ v.fragment = s.fragment
        /\ v.delivered = s.delivered /\ v.opened = s.opened
    BY <1>2 DEF ReadState
  <1> HIDE DEF v
  <1>4. v \in ReaderState /\ ReaderFits(v)
    BY <1>1, <1>2, <1>3 DEF ReaderState, ReaderFits, ReadFits, ReadIsCurrent
  <1> QED BY <1>1, <1>4, ReaderMoves

-----------------------------------------------------------------------------
\* Every step of the writer and of the readers keeps the invariant.
LEMMA StepPreserves ==
  ASSUME StoreIInv, [Next]_vars
  PROVE  StoreIInv'
  <1>1. ASSUME NEW m \in Written, NEW b \in Batches, CallWrite(m, b)
        PROVE  StoreIInv'
    BY <1>1, CallWritePreserves
  <1>2. CASE OpenFails \/ Crash
    BY <1>2, WriterStopsPreserves DEF OpenFails, Crash
  <1>3. CASE OpenOutput
    BY <1>3, OpenOutputPreserves
  <1>4. CASE WriteBatch
    BY <1>4, WriteBatchPreserves
  <1>5. CASE CloseOutput
    BY <1>5, CloseOutputPreserves
  <1>6. CASE WriteFails
    BY <1>6, WriteFailsPreserves
  <1>7. ASSUME NEW r \in Readers, NEW op \in Operation, NEW f \in Asked, Call(r, op, f)
        PROVE  StoreIInv'
    BY <1>7, CallPreserves
  <1>8. ASSUME NEW r \in Readers, Refuse(r) \/ Fail(r)
        PROVE  StoreIInv'
    BY <1>8, ErrorPreserves DEF Refuse, Fail
  <1>9. ASSUME NEW r \in Readers, ReadMetadata(r)
        PROVE  StoreIInv'
    BY <1>9, ReadMetadataPreserves
  <1>10. ASSUME NEW r \in Readers, OpenBatches(r)
         PROVE  StoreIInv'
    BY <1>10, OpenBatchesPreserves
  <1>11. ASSUME NEW r \in Readers, Deliver(r)
         PROVE  StoreIInv'
    BY <1>11, DeliverPreserves
  <1>12. ASSUME NEW r \in Readers, Finish(r)
         PROVE  StoreIInv'
    BY <1>12, FinishPreserves
  <1>13. CASE UNCHANGED vars
    BY <1>13 DEF vars, StoreIInv, FilesInv, WriterInv, Output, ReturnedInv, ReaderInv, ReaderFits,
                 ReadFits, ReadIsCurrent
  <1> QED BY <1>1, <1>2, <1>3, <1>4, <1>5, <1>6, <1>7, <1>8, <1>9, <1>10, <1>11, <1>12, <1>13
          DEF Next, WriterStep, ReaderStep

LEMMA StoreInductive == Spec => []StoreIInv
  <1>1. StoreIInv /\ [Next]_vars => StoreIInv'
    BY StepPreserves
  <1> QED BY <1>1, InitStore, PTL DEF Spec

\* What is known of a reader that has opened the batches of a file.
LEMMA ReadingFacts ==
  ASSUME StoreIInv, NEW r \in Readers, Reading(r)
  PROVE  /\ reader[r] \in ReadState
         /\ ReadFits(reader[r]) /\ ReadIsCurrent(reader[r])
         /\ reader[r].label.stream = reader[r].fragment.stream
  <1>1. reader[r] \in ReaderState /\ ReaderFits(reader[r])
    BY DEF StoreIInv, ReaderInv
  <1>2. reader[r] \in ReadState
    BY <1>1, StateKinds DEF Reading
  <1> QED BY <1>1, <1>2 DEF ReaderFits

\* The files are well formed under their own paths, and no event or batch is
\* delivered under a stream or a schema version that is not its own, whatever
\* the writer does between the steps of a read.
THEOREM StoreInvariant == Spec => []StoreInv
  <1>1. StoreIInv => StoreInv
    <2> SUFFICES ASSUME StoreIInv PROVE StoreInv
      OBVIOUS
    <2>1. \A r \in Readers : reader[r].pc \in {"idle", "check", "open", "read", "ok", "error"}
      BY DEF StoreIInv, ReaderInv, ReaderState, IdleState, CallState, LabelledState, ReadState
    <2>2. TypeOK
      BY <2>1 DEF TypeOK, StoreIInv, FilesInv, WriterInv, ReturnedInv
    <2>3. EventsKeepTheirStream
      BY ReadingFacts DEF EventsKeepTheirStream, ReadFits
    <2>4. SchemaIsTheOneAsked
      BY ReadingFacts DEF SchemaIsTheOneAsked, ReadFits, MatchesFragment
    <2> QED BY <2>2, <2>3, <2>4 DEF StoreInv
  <1> QED BY <1>1, StoreInductive, PTL

\* What a consumer has seen is an ordered prefix, and a replay that ends well
\* on a file nobody touched has delivered all of it.
THEOREM ReplayFaithful == Spec => []ReplayIsFaithful
  <1>1. StoreIInv => ReplayIsFaithful
    <2> SUFFICES ASSUME StoreIInv PROVE ReplayIsFaithful
      OBVIOUS
    <2>1. ReplayIsAnOrderedPrefix
      BY ReadingFacts DEF ReplayIsAnOrderedPrefix, ReadFits
    <2>2. OkMeansTheWholeArtifact
      <3> SUFFICES ASSUME NEW r \in Readers, Reading(r), reader[r].pc = "ok",
                          files[reader[r].fragment.locator] = reader[r].opened
                   PROVE  /\ reader[r].delivered = reader[r].opened.rows
                          /\ \A w \in returned : w.id = reader[r].opened.id =>
                               Len(reader[r].opened.rows) = w.count
        BY DEF OkMeansTheWholeArtifact
      <3> DEFINE s == reader[r]
      <3>1. s \in ReadState /\ ReadFits(s) /\ ReadIsCurrent(s)
        BY ReadingFacts
      <3>2. s.delivered \in Seq(Row) /\ s.opened.rows \in Seq(Row) /\ s.opened \in File
        BY <3>1, FileFacts DEF ReadState
      <3>3. Len(s.delivered) = Len(s.opened.rows)
        BY <3>1 DEF ReadFits
      <3>4. \A i \in 1..Len(s.delivered) : s.delivered[i] = s.opened.rows[i]
        BY <3>1, <3>2, LenProperties DEF ReadIsCurrent
      <3>5. s.delivered = s.opened.rows
        BY <3>2, <3>3, <3>4, SeqEqual
      <3>6. \A w \in returned : w.id = s.opened.id => Len(s.opened.rows) = w.count
        BY <3>1 DEF StoreIInv, ReturnedInv, ReadIsCurrent
      <3> QED BY <3>5, <3>6
    <2> QED BY <2>1, <2>2 DEF ReplayIsFaithful
  <1> QED BY <1>1, StoreInductive, PTL

\* The fragment that write returned reads back with every row of the write,
\* until a later write opens the same path.
THEOREM FragmentsReadBack == Spec => []ReturnedFragmentsReadBack
  <1>1. StoreIInv => ReturnedFragmentsReadBack
    <2> SUFFICES ASSUME StoreIInv, NEW w \in returned
                 PROVE  LET f == FragmentFromMetadata(w.meta)
                        IN  /\ f.locator \in DOMAIN files
                            /\ files[f.locator].id = w.id =>
                                 /\ Opens(f)
                                 /\ MatchesFragment(f, files[f.locator].meta)
                                 /\ Len(files[f.locator].rows) = w.count
                            /\ files[f.locator].id >= w.id
      BY DEF ReturnedFragmentsReadBack
    <2>1. /\ FragmentFromMetadata(w.meta).locator = Path(w.meta)
          /\ FragmentFromMetadata(w.meta).stream = w.meta.stream
          /\ FragmentFromMetadata(w.meta).schema = w.meta.schema
      BY DEF FragmentFromMetadata
    <2> QED BY <2>1 DEF StoreIInv, ReturnedInv, Opens, MatchesFragment
  <1> QED BY <1>1, StoreInductive, PTL

\* No step alters a complete artifact, except the truncation by a write of the
\* same stream.
THEOREM OverwritesStayInTheStream == Spec => OnlyTheSameStreamOverwrites
  <1>1. StoreIInv /\ [Next]_vars =>
          [\A p \in DOMAIN files :
             files[p].footer =>
               /\ p \in DOMAIN files'
               /\ \/ files'[p] = files[p]
                  \/ writer.pc = "opening" /\ writer.meta.stream = files[p].meta.stream]_vars
    <2> SUFFICES ASSUME StoreIInv, Next, NEW p \in DOMAIN files, files[p].footer
                 PROVE  /\ p \in DOMAIN files'
                        /\ \/ files'[p] = files[p]
                           \/ writer.pc = "opening" /\ writer.meta.stream = files[p].meta.stream
      OBVIOUS
    <2>1. CASE UNCHANGED files
      BY <2>1
    <2>2. CASE OpenOutput
      <3>1. writer.pc = "opening" /\ writer.meta \in Metadata
        BY <2>2 DEF OpenOutput, StoreIInv, WriterInv
      <3>2. /\ p \in DOMAIN files'
            /\ p # Path(writer.meta) => files'[p] = files[p]
        BY <2>2, PutFacts DEF OpenOutput
      <3>3. Path(files[p].meta) = p /\ files[p].meta \in Metadata
        BY FileFacts DEF StoreIInv, FilesInv
      <3>4. p = Path(writer.meta) => writer.meta.stream = files[p].meta.stream
        BY <3>1, <3>3, PathFacts
      <3> QED BY <3>1, <3>2, <3>4
    <2>3. ASSUME writer.pc = "writing", NEW f, PutFile(Path(writer.meta), f)
          PROVE  p \in DOMAIN files' /\ files'[p] = files[p]
      BY <2>3, PutFacts DEF StoreIInv, WriterInv, Output
    <2>4. CASE WriteBatch \/ CloseOutput \/ WriteFails
      BY <2>3, <2>4 DEF WriteBatch, CloseOutput, WriteFails
    <2> QED BY <2>1, <2>2, <2>4
            DEF Next, WriterStep, ReaderStep, CallWrite, OpenFails, Crash, Call, Refuse, Fail,
                ReadMetadata, OpenBatches, Deliver, Finish, SetReader
  <1> QED BY <1>1, StoreInductive, PTL DEF Spec, OnlyTheSameStreamOverwrites
=============================================================================
