--------------------------- MODULE RunStorageProofs ---------------------------
(***************************************************************************)
(* Proofs about RunStorage, for every number of runs and every batch of    *)
(* facts: a deletion that ends without an error leaves nothing of the run  *)
(* in any of the six stores, a published report can be loaded again, and   *)
(* the memory keeps what it was told and stays without what it forgot.     *)
(***************************************************************************)
EXTENDS RunStorage, FiniteSetTheorems, TLAPS

Table == [Records -> RecordType]
WriterStates == {"none", "scheduled", "loaded", "committed", "done"}
JobStates == {"none", "pending", "running", "done", "failed"}
DrainType == [at : {"idle", "started", "claimed", "read", "written"}, jobs : SUBSET Runs, read : Table]
CascadeStates == {"none", "selected", "forgotten", "sources", "done", "checkpoints left", "traces left"}
RowType == [status : Terminal \cup RecoverableOnStartup \cup {"absent", "recoverable"},
            result : {"", "report"}]

-----------------------------------------------------------------------------
(* What one write does to a record.                                        *)

LEMMA RecordFacts ==
  /\ Missing \in RecordType /\ Nothing \in Table
  /\ \A f \in Facts, r \in 0 .. MaxRuns + 1 : NewRecord(f, r) \in RecordType
  /\ \A record \in RecordType, f \in Facts, r \in Runs : Merged(record, f, r) \in RecordType
  /\ \A record \in RecordType : [record EXCEPT !.state = "superseded"] \in RecordType
<1>1. MaxRuns \in Nat \ {0}
  BY MemoryAssumption
<1>2. Missing \in RecordType
  BY <1>1 DEF Missing, RecordType, Facts, NoRun
<1>3. Nothing \in Table
  BY <1>2 DEF Nothing, Table
<1>4. \A f \in Facts, r \in 0 .. MaxRuns + 1 : NewRecord(f, r) \in RecordType
  BY DEF RecordType, NewRecord
<1>5. ASSUME NEW record \in RecordType, NEW f \in Facts, NEW r \in Runs
      PROVE  Merged(record, f, r) \in RecordType
  <2>1. r \in 0 .. MaxRuns + 1
    BY <1>1 DEF Runs
  <2>2. /\ record.fact \in Facts /\ record.past \in SUBSET Facts /\ record.version \in Nat
        /\ record.state \in {"missing", "active", "forgotten", "superseded"}
        /\ record.trust \in {"derived", "trusted"}
    BY DEF RecordType
  <2>3. record.past \cup {record.fact} \in SUBSET Facts /\ record.version + 1 \in Nat
    BY <2>2
  <2>4. \A p \in SUBSET Facts, v \in Nat :
          [record EXCEPT !.fact = f, !.past = p, !.run = r, !.version = v] \in RecordType
    BY <2>1, <2>2 DEF RecordType
  <2> QED BY <2>3, <2>4 DEF Merged
<1>6. \A record \in RecordType : [record EXCEPT !.state = "superseded"] \in RecordType
  BY DEF RecordType
<1> QED BY <1>2, <1>3, <1>4, <1>5, <1>6

\* What a write of f for run r makes of a copy and of the table, record by
\* record: nothing, a new record in slot u, the copy with the fact merged - in
\* the table only under the copy's version - or the copy superseded.
OneWrite(known, table, s, f, r, u) ==
  \A n \in Records :
    \/ s.known[n] = known[n] /\ s.table[n] = table[n]
    \/ n = u /\ s.known[n] = NewRecord(f, r) /\ s.table[n] = NewRecord(f, r)
    \/ /\ known[n].state = "active" /\ s.known[n] = Merged(known[n], f, r)
       /\ s.table[n] = IF table[n].version = known[n].version THEN s.known[n] ELSE table[n]
    \/ /\ known[n].state = "active"
       /\ s.known[n] = [known[n] EXCEPT !.state = "superseded"] /\ s.table[n] = s.known[n]

\* A copy holds what the table has, and the table has room.
Known(known, table) ==
  \A n \in Records : known[n].state = "active" => table[n].state # "missing"
Room(table) == \E n \in Records : table[n].state = "missing"

LEMMA PutFacts ==
  ASSUME NEW known \in Table, NEW table \in Table, NEW m, NEW record \in RecordType
  PROVE  /\ Put(known, table, m, record).known \in Table /\ Put(known, table, m, record).table \in Table
         /\ \A n \in Records :
              /\ Put(known, table, m, record).known[n] = IF n = m THEN record ELSE known[n]
              /\ Put(known, table, m, record).table[n] = IF n = m THEN record ELSE table[n]
BY DEF Put, Table

LEMMA WriteFacts ==
  ASSUME NEW known \in Table, NEW table \in Table, NEW f \in Facts, NEW r \in Runs,
         NEW s \in Written(known, table, f, r)
  PROVE  /\ s.known \in Table /\ s.table \in Table
         /\ \E u : /\ OneWrite(known, table, s, f, r, u)
                   /\ Known(known, table) /\ Room(table) => u \in Records /\ table[u].state = "missing"
<1>1. NewRecord(f, r) \in RecordType
  BY RecordFacts, MemoryAssumption DEF Runs
<1>2. Room(table) => Unused(table) \in Records /\ table[Unused(table)].state = "missing"
  BY DEF Room, Unused
<1>3. CASE s = Added(known, table, f, r)
  BY <1>1, <1>2, <1>3, PutFacts DEF Added, OneWrite
<1>4. CASE s = [known |-> known, table |-> table]
  <2>1. \E u : Room(table) => u \in Records /\ table[u].state = "missing"
    BY <1>2
  <2> QED BY <1>4, <2>1 DEF OneWrite
<1>5. ASSUME NEW m \in Candidates(known), s = Updated(known, table, m, Merged(known[m], f, r), known[m].version)
      PROVE  /\ s.known \in Table /\ s.table \in Table
             /\ \A u : OneWrite(known, table, s, f, r, u)
  <2>1. m \in Records /\ known[m].state = "active" /\ Merged(known[m], f, r) \in RecordType
    BY RecordFacts DEF Candidates, Table
  <2>2. CASE table[m].version = known[m].version
    BY <1>5, <2>1, <2>2, PutFacts DEF Updated, OneWrite
  <2>3. CASE table[m].version # known[m].version
    <3>1. s = [known |-> [known EXCEPT ![m] = Merged(known[m], f, r)], table |-> table]
      BY <1>5, <2>3 DEF Updated
    <3> QED BY <2>1, <2>3, <3>1 DEF OneWrite, Table
  <2> QED BY <2>2, <2>3
<1>6. ASSUME NEW m \in Candidates(known),
             NEW old, old = Put(known, table, m, [known[m] EXCEPT !.state = "superseded"]),
             s = Added(old.known, old.table, f, r)
      PROVE  /\ s.known \in Table /\ s.table \in Table
             /\ \E u : /\ OneWrite(known, table, s, f, r, u)
                       /\ Known(known, table) /\ Room(table) => u \in Records /\ table[u].state = "missing"
  <2> DEFINE record == [known[m] EXCEPT !.state = "superseded"]
             u == Unused(old.table)
  <2>1. m \in Records /\ known[m].state = "active" /\ record \in RecordType /\ record.state = "superseded"
    <3>1. m \in Records /\ known[m].state = "active" /\ known[m] \in RecordType
      BY DEF Candidates, Table
    <3>2. record \in RecordType
      BY <3>1, RecordFacts
    <3> QED BY <3>1, <3>2 DEF RecordType
  <2> HIDE DEF record
  <2>2. /\ old.known \in Table /\ old.table \in Table
        /\ \A n \in Records : /\ old.known[n] = IF n = m THEN record ELSE known[n]
                              /\ old.table[n] = IF n = m THEN record ELSE table[n]
    BY <1>6, <2>1, PutFacts DEF record
  <2>3. ASSUME Known(known, table), Room(table) PROVE u \in Records /\ table[u].state = "missing"
    <3>1. Room(old.table)
      BY <2>1, <2>2, <2>3 DEF Known, Room
    <3>2. u \in Records /\ old.table[u].state = "missing"
      BY <3>1 DEF Room, Unused
    <3> QED BY <2>1, <2>2, <3>2
  <2> HIDE DEF u
  <2>4. /\ s.known \in Table /\ s.table \in Table
        /\ \A n \in Records : /\ s.known[n] = IF n = u THEN NewRecord(f, r) ELSE old.known[n]
                              /\ s.table[n] = IF n = u THEN NewRecord(f, r) ELSE old.table[n]
    BY <1>1, <1>6, <2>2, PutFacts, SMTT(30) DEF Added, u
  <2>5. OneWrite(known, table, s, f, r, u)
    BY <2>1, <2>2, <2>4 DEF OneWrite, record
  <2> QED BY <2>3, <2>4, <2>5
<1>7. ASSUME NEW m \in Candidates(known), s = Outcome(known, table, f, r, m)
      PROVE  /\ s.known \in Table /\ s.table \in Table
             /\ \E u : /\ OneWrite(known, table, s, f, r, u)
                       /\ Known(known, table) /\ Room(table) => u \in Records /\ table[u].state = "missing"
  <2>1. Decision(f, known[m]) \in {"noop", "add", "update", "supersede"}
    BY DEF Decision
  <2>2. CASE Decision(f, known[m]) = "noop"
    BY <1>4, <1>7, <2>2 DEF Outcome
  <2>3. CASE Decision(f, known[m]) = "add"
    BY <1>3, <1>7, <2>3 DEF Outcome
  <2>4. CASE Decision(f, known[m]) = "update"
    <3>1. s = Updated(known, table, m, Merged(known[m], f, r), known[m].version)
      BY <1>7, <2>4 DEF Outcome
    <3>2. \E u : Room(table) => u \in Records /\ table[u].state = "missing"
      BY <1>2
    <3> QED BY <1>5, <3>1, <3>2
  <2>5. CASE Decision(f, known[m]) = "supersede"
    <3> DEFINE old == Put(known, table, m, [known[m] EXCEPT !.state = "superseded"])
    <3>1. s = Added(old.known, old.table, f, r)
      BY <1>7, <2>5 DEF Outcome
    <3> HIDE DEF old
    <3>2. old = Put(known, table, m, [known[m] EXCEPT !.state = "superseded"])
      BY DEF old
    <3> QED BY <1>6, <3>1, <3>2
  <2> QED BY <2>1, <2>2, <2>3, <2>4, <2>5
<1> QED BY <1>3, <1>7 DEF Written

\* What the thread that commits a batch makes of a record: nothing, a new one
\* where none was, or something of the copy it had.  A copy that is still
\* active in the table counts its version up.
Commits(known, before, after) ==
  \A n \in Records :
    \/ after[n] = before[n]
    \/ before[n].state = "missing" /\ after[n].state # "missing"
    \/ /\ known[n].state = "active" /\ before[n].state # "missing" /\ after[n].state = "superseded"
    \/ /\ known[n].state = "active" /\ before[n].state # "missing" /\ after[n].state = "active"
       /\ after[n].version > before[n].version

\* A batch of one fact merges it into what it has read under its version.
Merges(known, before, after) ==
  \A n \in Records :
    before[n].state = "active" /\ after[n].state = "active" /\ after[n] # before[n] =>
      /\ known[n].state = "active" /\ before[n].version = known[n].version
      /\ after[n].past = known[n].past \cup {known[n].fact}

TwoRooms(table) ==
  \E m, n \in Records : m # n /\ table[m].state = "missing" /\ table[n].state = "missing"

LEMMA MergedFacts ==
  ASSUME NEW record \in RecordType, NEW f, NEW r
  PROVE  /\ Merged(record, f, r).state = record.state /\ Merged(record, f, r).run = r
         /\ Merged(record, f, r).version = record.version + 1
         /\ Merged(record, f, r).past = record.past \cup {record.fact}
         /\ [record EXCEPT !.state = "superseded"].state = "superseded"
BY DEF Merged, RecordType

\* One write, seen from the table.
LEMMA FirstWrite ==
  ASSUME NEW known \in Table, NEW table \in Table, NEW f \in Facts, NEW r \in Runs,
         NEW s \in Written(known, table, f, r), Known(known, table), Room(table)
  PROVE  /\ s.known \in Table /\ s.table \in Table /\ Known(s.known, s.table)
         /\ Commits(known, table, s.table) /\ Merges(known, table, s.table)
         /\ \E u \in Records :
              /\ table[u].state = "missing"
              /\ \A n \in Records \ {u} : table[n].state = "missing" => s.table[n].state = "missing"
<1>1. PICK u : /\ OneWrite(known, table, s, f, r, u) /\ u \in Records /\ table[u].state = "missing"
               /\ s.known \in Table /\ s.table \in Table
  BY WriteFacts
<1>2. NewRecord(f, r).state = "active"
  BY DEF NewRecord
<1>3. \A n \in Records : known[n] \in RecordType /\ table[n] \in RecordType
  BY DEF Table
<1>4. \A n \in Records : table[n].version \in Nat /\ known[n].version \in Nat
  BY <1>3 DEF RecordType
<1>5. Known(s.known, s.table)
  <2> SUFFICES ASSUME NEW n \in Records, s.known[n].state = "active"
               PROVE  s.table[n].state # "missing"
    BY DEF Known
  <2>1. known[n].state = "active" => table[n].state # "missing"
    BY DEF Known
  <2>2. /\ Merged(known[n], f, r).state = known[n].state
        /\ [known[n] EXCEPT !.state = "superseded"].state = "superseded"
    BY <1>3, MergedFacts
  <2>3. \/ s.known[n] = known[n] /\ s.table[n] = table[n]
        \/ s.table[n].state \in {"active", "superseded"}
        \/ known[n].state = "active" /\ s.table[n] = table[n]
    BY <1>1, <1>2, <2>2 DEF OneWrite
  <2> QED BY <2>1, <2>3
<1>6. Commits(known, table, s.table) /\ Merges(known, table, s.table)
  <2> SUFFICES ASSUME NEW n \in Records
               PROVE  /\ \/ s.table[n] = table[n]
                         \/ table[n].state = "missing" /\ s.table[n].state # "missing"
                         \/ /\ known[n].state = "active" /\ table[n].state # "missing"
                            /\ s.table[n].state = "superseded"
                         \/ /\ known[n].state = "active" /\ table[n].state # "missing"
                            /\ s.table[n].state = "active" /\ s.table[n].version > table[n].version
                      /\ table[n].state = "active" /\ s.table[n].state = "active" /\ s.table[n] # table[n] =>
                           /\ known[n].state = "active" /\ table[n].version = known[n].version
                           /\ s.table[n].past = known[n].past \cup {known[n].fact}
    BY Zenon DEF Commits, Merges
  <2>1. known[n].state = "active" => table[n].state # "missing"
    BY DEF Known
  <2>2. CASE s.table[n] = table[n]
    BY <2>2
  <2>3. CASE n = u /\ s.table[n] = NewRecord(f, r)
    BY <1>1, <1>2, <2>3
  <2>4. CASE /\ known[n].state = "active" /\ table[n].version = known[n].version
             /\ s.table[n] = Merged(known[n], f, r)
    BY <1>3, <1>4, <2>1, <2>4, MergedFacts
  <2>5. CASE known[n].state = "active" /\ s.table[n] = [known[n] EXCEPT !.state = "superseded"]
    BY <1>3, <2>1, <2>5, MergedFacts
  <2> QED BY <1>1, <2>2, <2>3, <2>4, <2>5 DEF OneWrite
<1>7. \A n \in Records \ {u} : table[n].state = "missing" => s.table[n].state = "missing"
  BY <1>1, <1>3 DEF OneWrite, Known
<1> QED BY <1>1, <1>5, <1>6, <1>7

\* The second fact of a batch meets the copy and the table of the first.
LEMMA SecondWrite ==
  ASSUME NEW known \in Table, NEW table \in Table, NEW f \in Facts, NEW g \in Facts, NEW r \in Runs,
         NEW first \in Written(known, table, f, r), NEW s \in Written(first.known, first.table, g, r),
         Known(known, table), TwoRooms(table)
  PROVE  /\ s.table \in Table /\ Commits(known, table, s.table)
         /\ \E u, v \in Records :
              \A n \in Records \ {u, v} : table[n].state = "missing" => s.table[n].state = "missing"
<1>0. Room(table)
  BY DEF TwoRooms, Room
<1>1. PICK u : /\ OneWrite(known, table, first, f, r, u) /\ u \in Records /\ table[u].state = "missing"
  BY <1>0, WriteFacts
<1>2. /\ first.known \in Table /\ first.table \in Table /\ Known(first.known, first.table)
      /\ Commits(known, table, first.table)
  BY <1>0, FirstWrite
<1>3. \A n \in Records : /\ known[n] \in RecordType /\ table[n] \in RecordType
                         /\ first.known[n] \in RecordType /\ first.table[n] \in RecordType
  BY <1>2 DEF Table
<1>4. \A n \in Records : /\ table[n].version \in Nat /\ known[n].version \in Nat
                         /\ first.table[n].version \in Nat /\ first.known[n].version \in Nat
  BY <1>3 DEF RecordType
<1>5. \A n \in Records \ {u} : table[n].state = "missing" => first.table[n].state = "missing"
  BY <1>1, <1>3 DEF OneWrite, Known
<1>6. Room(first.table)
  BY <1>5 DEF TwoRooms, Room
<1>7. PICK v : /\ OneWrite(first.known, first.table, s, g, r, v)
               /\ v \in Records /\ first.table[v].state = "missing" /\ s.table \in Table
  BY <1>2, <1>6, WriteFacts
<1>8. NewRecord(f, r).state = "active" /\ NewRecord(g, r).state = "active"
  BY DEF NewRecord
<1>9. \A n \in Records \ {u, v} : table[n].state = "missing" => s.table[n].state = "missing"
  BY <1>2, <1>3, <1>5, <1>7 DEF OneWrite, Known
<1>10. Commits(known, table, s.table)
  <2> SUFFICES ASSUME NEW n \in Records
               PROVE  \/ s.table[n] = table[n]
                      \/ table[n].state = "missing" /\ s.table[n].state # "missing"
                      \/ /\ known[n].state = "active" /\ table[n].state # "missing"
                         /\ s.table[n].state = "superseded"
                      \/ /\ known[n].state = "active" /\ table[n].state # "missing"
                         /\ s.table[n].state = "active" /\ s.table[n].version > table[n].version
    BY Zenon DEF Commits
  <2>1. /\ known[n].state = "active" => table[n].state # "missing"
        /\ first.known[n].state = "active" => first.table[n].state # "missing"
    BY <1>2 DEF Known
  <2>2. \/ s.table[n] = first.table[n]
        \/ /\ n = v /\ first.table[n].state = "missing" /\ s.table[n].state = "active"
        \/ /\ first.known[n].state = "active" /\ first.table[n].version = first.known[n].version
           /\ s.table[n].state = "active" /\ s.table[n].version = first.table[n].version + 1
        \/ first.known[n].state = "active" /\ s.table[n].state = "superseded"
    <3>1. /\ Merged(first.known[n], g, r).state = first.known[n].state
          /\ Merged(first.known[n], g, r).version = first.known[n].version + 1
          /\ [first.known[n] EXCEPT !.state = "superseded"].state = "superseded"
      BY <1>3, MergedFacts
    <3>2. \/ s.table[n] = first.table[n]
          \/ n = v /\ s.table[n] = NewRecord(g, r)
          \/ /\ first.known[n].state = "active" /\ first.table[n].version = first.known[n].version
             /\ s.table[n] = Merged(first.known[n], g, r)
          \/ /\ first.known[n].state = "active"
             /\ s.table[n] = [first.known[n] EXCEPT !.state = "superseded"]
      BY <1>7, Zenon DEF OneWrite
    <3> QED BY <1>7, <1>8, <3>1, <3>2
  <2>30. [known[n] EXCEPT !.state = "superseded"].state = "superseded"
    BY <1>3, MergedFacts
  <2>3. CASE first.known[n] = known[n] /\ first.table[n] = table[n]
    BY <1>4, <2>1, <2>2, <2>3
  <2>4. CASE n = u /\ first.table[n] = NewRecord(f, r)
    BY <1>1, <1>8, <2>2, <2>4
  <2>5. CASE /\ known[n].state = "active" /\ first.known[n] = Merged(known[n], f, r)
             /\ first.table[n] = IF table[n].version = known[n].version THEN first.known[n] ELSE table[n]
    <3>1. Merged(known[n], f, r).state = known[n].state /\ Merged(known[n], f, r).version = known[n].version + 1
      BY <1>3, MergedFacts
    <3>2. \/ first.table[n] = table[n]
          \/ first.table[n].state = "active" /\ first.table[n].version = table[n].version + 1
      BY <2>5, <3>1
    <3>3. first.table[n].state # "missing" /\ table[n].state # "missing"
      BY <2>1, <2>5, <3>1
    <3> QED BY <1>4, <2>2, <2>5, <3>2, <3>3
  <2>6. CASE /\ known[n].state = "active" /\ first.table[n] = first.known[n]
             /\ first.known[n] = [known[n] EXCEPT !.state = "superseded"]
    BY <2>1, <2>2, <2>6, <2>30
  <2> QED BY <1>1, <2>3, <2>4, <2>5, <2>6 DEF OneWrite
<1> QED BY <1>1, <1>7, <1>9, <1>10

\* A new record, and a merged one, belong to the run that writes.
LEMMA WritesOwn ==
  ASSUME NEW known \in Table, NEW table \in Table, NEW f \in Facts, NEW r \in Runs,
         NEW s \in Written(known, table, f, r), NEW q \in Runs \ {r}, NEW n \in Records,
         s.table[n].state = "active", s.table[n].run = q
  PROVE  table[n].state = "active" /\ table[n].run = q
<1>1. PICK u : OneWrite(known, table, s, f, r, u)
  BY WriteFacts
<1>2. NewRecord(f, r).run = r
  BY DEF NewRecord
<1>3. known[n] \in RecordType
  BY DEF Table
<1>4. Merged(known[n], f, r).run = r /\ [known[n] EXCEPT !.state = "superseded"].state = "superseded"
  BY <1>3, MergedFacts
<1>5. \/ s.table[n] = table[n] \/ s.table[n] = NewRecord(f, r) \/ s.table[n] = Merged(known[n], f, r)
      \/ s.table[n] = [known[n] EXCEPT !.state = "superseded"]
  BY <1>1 DEF OneWrite
<1> QED BY <1>2, <1>4, <1>5

LEMMA BatchFacts ==
  ASSUME NEW facts \in Batches
  PROVE  /\ facts \in Seq(Facts) /\ Len(facts) \in {1, 2} /\ facts[1] \in Facts
         /\ Len(facts) = 2 => facts[2] \in Facts
BY MemoryAssumption

LEMMA CommitFacts ==
  ASSUME NEW known \in Table, NEW table \in Table, NEW facts \in Batches, NEW r \in Runs,
         NEW s \in AllWritten(known, table, facts, r)
  PROVE  /\ s.table \in Table
         /\ \A q \in Runs \ {r}, n \in Records :
              s.table[n].state = "active" /\ s.table[n].run = q =>
                table[n].state = "active" /\ table[n].run = q
         /\ Known(known, table) /\ TwoRooms(table) =>
              /\ Commits(known, table, s.table)
              /\ Len(facts) = 1 => Merges(known, table, s.table)
              /\ \E u, v \in Records :
                   \A n \in Records \ {u, v} : table[n].state = "missing" => s.table[n].state = "missing"
<1>0. TwoRooms(table) => Room(table)
  BY DEF TwoRooms, Room
<1>1. CASE Len(facts) = 1
  <2>1. facts[1] \in Facts /\ s \in Written(known, table, facts[1], r)
    BY <1>1, BatchFacts DEF AllWritten
  <2>2. s.table \in Table
    BY <2>1, WriteFacts
  <2>3. \A q \in Runs \ {r}, n \in Records :
          s.table[n].state = "active" /\ s.table[n].run = q =>
            table[n].state = "active" /\ table[n].run = q
    BY <2>1, WritesOwn
  <2>4. ASSUME Known(known, table), TwoRooms(table)
        PROVE  /\ Commits(known, table, s.table) /\ Merges(known, table, s.table)
               /\ \E u, v \in Records :
                    \A n \in Records \ {u, v} : table[n].state = "missing" => s.table[n].state = "missing"
    BY <1>0, <2>1, <2>4, FirstWrite
  <2> QED BY <2>2, <2>3, <2>4
<1>2. CASE Len(facts) = 2
  <2>1. PICK first \in Written(known, table, facts[1], r) : s \in Written(first.known, first.table, facts[2], r)
    BY <1>2 DEF AllWritten
  <2>2. facts[1] \in Facts /\ facts[2] \in Facts
    BY <1>2, BatchFacts
  <2>3. first.known \in Table /\ first.table \in Table
    BY <2>2, WriteFacts
  <2>4. s.table \in Table
    BY <2>1, <2>2, <2>3, WriteFacts
  <2>5. \A q \in Runs \ {r}, n \in Records :
          s.table[n].state = "active" /\ s.table[n].run = q =>
            table[n].state = "active" /\ table[n].run = q
    BY <2>1, <2>2, <2>3, WritesOwn
  <2> QED BY <1>2, <2>1, <2>2, <2>4, <2>5, SecondWrite
<1> QED BY <1>1, <1>2, BatchFacts

-----------------------------------------------------------------------------
(* Types.                                                                  *)

Types ==
  /\ rec \in Table /\ ledger \in Runs \cup {NoRun} /\ writer \in [Runs -> WriterStates]
  /\ batch \in [Runs -> Batches \cup {<<>>}] /\ loaded \in [Runs -> Table]
  /\ job \in [Runs -> JobStates] /\ drain \in [Runs -> DrainType]
  /\ row \in [Runs -> RowType] /\ task \in [Runs -> Live \cup {"none", "ended"}]
  /\ cascade \in [Runs -> CascadeStates] /\ selected \in [Runs -> SUBSET Records] /\ shown \subseteq Runs
  /\ \A r \in Runs : writer[r] = "loaded" => batch[r] \in Batches

LEMMA RunFacts == Runs \subseteq 1 .. MaxRuns /\ MaxRuns \in Nat \ {0} /\ NoRun \notin Runs
BY MemoryAssumption DEF Runs, NoRun

LEMMA ActiveFacts ==
  ASSUME rec \in Table
  PROVE  Active(rec) \in Table /\ \A ms : Forgotten(rec, ms) \in Table
<1>1. Active(rec) \in Table
  BY RecordFacts DEF Active, Table
<1>2. ASSUME NEW ms PROVE Forgotten(rec, ms) \in Table
  <2>1. \A record \in RecordType : [record EXCEPT !.state = "forgotten"] \in RecordType
    BY DEF RecordType
  <2> QED BY <2>1 DEF Forgotten, Table
<1> QED BY <1>1, <1>2

LEMMA WriterTypes ==
  ASSUME Types, NEW r \in Runs, Load(r) \/ Commit(r) \/ GiveUp(r) \/ Enqueue(r), UNCHANGED storeVars
  PROVE  Types'
<1>1. UNCHANGED <<row, task, cascade, selected, shown>>
  BY DEF storeVars
<1>2. CASE Load(r)
  BY <1>1, <1>2, ActiveFacts DEF Load, Types, ReadRecords, WriterStates
<1>3. CASE Commit(r)
  <2>1. batch[r] \in Batches /\ loaded[r] \in Table
    BY <1>3 DEF Commit, Types
  <2>2. rec' \in Table
    BY <1>3, <2>1, CommitFacts DEF Commit, Types
  <2> QED BY <1>1, <1>3, <2>2, RecordFacts DEF Commit, Types, WriterStates
<1>4. CASE GiveUp(r)
  BY <1>1, <1>4, RecordFacts DEF GiveUp, Types, WriterStates
<1>5. CASE Enqueue(r)
  <2>1. drain \in [Runs -> DrainType] /\ drain[r] \in DrainType
    BY DEF Types
  <2>2. [drain[r] EXCEPT !.at = "started"] \in DrainType
    BY <2>1 DEF DrainType
  <2>3. drain' = [drain EXCEPT ![r] = [drain[r] EXCEPT !.at = "started"]]
    BY <1>5, <2>1 DEF Enqueue
  <2>4. drain' \in [Runs -> DrainType]
    BY <2>1, <2>2, <2>3
  <2> QED BY <1>1, <1>5, <2>4 DEF Enqueue, Types, WriterStates, JobStates
<1> QED BY <1>2, <1>3, <1>4, <1>5

LEMMA DrainTypes ==
  ASSUME Types, NEW r \in Runs, Claim(r) \/ Survey(r) \/ WriteBack(r) \/ Finish(r), UNCHANGED storeVars
  PROVE  Types'
<1>1. UNCHANGED <<row, task, cascade, selected, shown>>
  BY DEF storeVars
<1>2. Idle \in DrainType
  BY RecordFacts DEF Idle, DrainType
<1>3. drain[r] \in DrainType /\ drain \in [Runs -> DrainType]
  BY DEF Types
<1>4. CASE Claim(r)
  <2>1. Claimable \in SUBSET Runs
    BY DEF Claimable
  <2>2. [drain[r] EXCEPT !.at = "claimed", !.jobs = Claimable] \in DrainType
    BY <1>3, <2>1 DEF DrainType
  <2>3. drain' \in [Runs -> DrainType]
    BY <1>2, <1>3, <1>4, <2>2 DEF Claim
  <2>4. job' \in [Runs -> JobStates]
    BY <1>4 DEF Claim, Types, JobStates
  <2> QED BY <1>1, <1>4, <2>3, <2>4 DEF Claim, Types
<1>5. CASE Survey(r)
  <2>1. [drain[r] EXCEPT !.at = "read", !.read = Active(rec)] \in DrainType
    BY <1>3, ActiveFacts DEF DrainType, Types
  <2>2. drain' = [drain EXCEPT ![r] = [drain[r] EXCEPT !.at = "read", !.read = Active(rec)]]
    BY <1>3, <1>5 DEF Survey
  <2>3. drain' \in [Runs -> DrainType]
    BY <1>3, <2>1, <2>2
  <2> QED BY <1>1, <1>5, <2>3 DEF Survey, Types
<1>6. CASE WriteBack(r)
  <2>1. [drain[r] EXCEPT !.at = "written", !.read = Nothing] \in DrainType
    BY <1>3, RecordFacts DEF DrainType
  <2>2. drain' = [drain EXCEPT ![r] = [drain[r] EXCEPT !.at = "written", !.read = Nothing]]
    BY <1>3, <1>6 DEF WriteBack
  <2>3. drain' \in [Runs -> DrainType]
    BY <1>3, <2>1, <2>2
  <2>4. rec' \in Table
    <3>1. drain[r].read \in Table
      BY <1>3 DEF DrainType
    <3>2. \A record \in RecordType : [record EXCEPT !.trust = "trusted"] \in RecordType
      BY DEF RecordType
    <3> QED BY <1>6, <3>1, <3>2 DEF WriteBack, Types, Table
  <2> QED BY <1>1, <1>6, <2>3, <2>4 DEF WriteBack, Types
<1>7. CASE Finish(r)
  <2>1. PICK j \in drain[r].jobs :
          /\ job' = [job EXCEPT ![j] = IF drain[r].at = "written" THEN "done" ELSE "failed"]
          /\ drain' = [drain EXCEPT ![r] =
               IF @.jobs = {j} THEN Idle
               ELSE [Idle EXCEPT !.at = "claimed", !.jobs = drain[r].jobs \ {j}]]
    BY <1>7 DEF Finish
  <2>2. [Idle EXCEPT !.at = "claimed", !.jobs = drain[r].jobs \ {j}] \in DrainType
    BY <1>3, RecordFacts DEF DrainType, Idle
  <2>3. drain' \in [Runs -> DrainType]
    BY <1>2, <1>3, <2>1, <2>2
  <2>4. job' \in [Runs -> JobStates]
    BY <2>1 DEF Types, JobStates
  <2> QED BY <1>1, <1>7, <2>3, <2>4 DEF Finish, Types
<1> QED BY <1>4, <1>5, <1>6, <1>7

LEMMA RunTypes ==
  ASSUME Types, NEW r \in Runs,
         Post(r) \/ Begin(r) \/ Work(r) \/ Deliver(r) \/ EndTask(r) \/ Fail(r) \/ Cancel(r)
  PROVE  Types'
<1>1. UNCHANGED <<rec, batch, loaded, job, drain, cascade, selected>> /\ shown' \subseteq Runs
  BY DEF Post, Begin, RecordSources, Work, Deliver, Persist, EndTask, Fail, Cancel, memoryVars, cascadeVars, Types
<1>2. row' \in [Runs -> RowType]
  <2>1. row[r].result \in {"", "report"} /\ row \in [Runs -> RowType]
    BY DEF Types, RowType
  <2>2. ASSUME NEW status \in {"completed", "failed", "interrupted"}, NEW result \in {"", "report"},
               CompleteRun(r, status, result)
        PROVE  row' \in [Runs -> RowType]
    BY <2>1, <2>2 DEF CompleteRun, RowType, Terminal
  <2>3. CASE Post(r)
    BY <2>1, <2>3 DEF Post, RowType, RecoverableOnStartup
  <2>4. CASE Begin(r)
    BY <2>1, <2>4 DEF Begin, RecordSources, MarkRunning, RowType, RecoverableOnStartup
  <2>5. CASE Work(r) \/ EndTask(r)
    BY <2>1, <2>5 DEF Work, RecordSources, EndTask
  <2>6. CASE Deliver(r)
    BY <2>1, <2>2, <2>6 DEF Deliver, Persist
  <2>7. CASE Fail(r)
    BY <2>2, <2>7 DEF Fail, FailRun
  <2>8. CASE Cancel(r)
    BY <2>1, <2>2, <2>8 DEF Cancel, InterruptRun
  <2> QED BY <2>3, <2>4, <2>5, <2>6, <2>7, <2>8
<1>3. task' \in [Runs -> Live \cup {"none", "ended"}]
  BY DEF Types, Post, Begin, RecordSources, Work, Deliver, Persist, EndTask, Fail, Cancel, Live
<1>4. ledger' \in Runs \cup {NoRun}
  BY DEF Types, Post, Begin, RecordSources, Work, Deliver, Persist, EndTask, Fail, Cancel, memoryVars
<1>5. writer' \in [Runs -> WriterStates] /\ (writer' = writer \/ Deliver(r))
  BY DEF Types, WriterStates, Post, Begin, RecordSources, Work, Deliver, Persist, EndTask, Fail, Cancel, memoryVars
<1>6. \A q \in Runs : writer'[q] = "loaded" => batch[q] \in Batches
  BY <1>5 DEF Types, Deliver, Persist
<1> QED BY <1>1, <1>2, <1>3, <1>4, <1>5, <1>6 DEF Types

LEMMA DeletionTypes ==
  ASSUME Types,
         \/ Crash \/ (MemoryStep /\ (ForgetRecord \/ ForgetUser))
         \/ \E r \in Runs : BeginDelete(r) \/ ForgetRun(r) \/ ForgetSources(r) \/ DeleteRest(r)
  PROVE  Types'
<1>1. CASE Crash
  <2>1. row' \in [Runs -> RowType]
    <3>1. \A record \in RowType : [record EXCEPT !.status = "recoverable"] \in RowType
      BY DEF RowType
    <3> QED BY <1>1, <3>1 DEF Crash, Types
  <2>2. task' \in [Runs -> Live \cup {"none", "ended"}] /\ writer' \in [Runs -> WriterStates \ {"loaded"}]
    BY <1>1 DEF Crash, Types, WriterStates
  <2>3. drain' \in [Runs -> DrainType] /\ loaded' \in [Runs -> Table]
    BY <1>1, RecordFacts DEF Crash, DrainType, Idle
  <2>4. cascade' \in [Runs -> CascadeStates] /\ selected' \in [Runs -> SUBSET Records]
    BY <1>1 DEF Crash, Types, CascadeStates
  <2> QED BY <1>1, <2>1, <2>2, <2>3, <2>4 DEF Crash, Types, WriterStates
<1>2. CASE MemoryStep /\ (ForgetRecord \/ ForgetUser)
  <2>1. /\ \E ms : rec' = Forgotten(rec, ms)
        /\ UNCHANGED <<ledger, writer, batch, loaded, job, drain>>
    BY <1>2 DEF ForgetRecord, ForgetUser, ForgetRecords
  <2> QED BY <1>2, <2>1, ActiveFacts DEF MemoryStep, storeVars, Types
<1>3. ASSUME NEW r \in Runs, BeginDelete(r) PROVE Types'
  BY <1>3 DEF BeginDelete, Types, CascadeStates, RecordsOf, Candidates
<1>4. ASSUME NEW r \in Runs, ForgetRun(r) PROVE Types'
  BY <1>4, ActiveFacts DEF ForgetRun, Types, CascadeStates
<1>5. ASSUME NEW r \in Runs, ForgetSources(r) PROVE Types'
  BY <1>5 DEF ForgetSources, Types, CascadeStates
<1>6. ASSUME NEW r \in Runs, DeleteRest(r) PROVE Types'
  <2>1. NoRow \in RowType
    BY DEF NoRow, RowType
  <2> QED BY <1>6, <2>1 DEF DeleteRest, Types, CascadeStates, memoryVars
<1> QED BY <1>1, <1>2, <1>3, <1>4, <1>5, <1>6

LEMMA TypesKept == ASSUME Types, [Next]_vars PROVE Types'
<1>1. CASE UNCHANGED vars
  BY <1>1 DEF vars, memoryVars, storeVars, Types
<1>2. ASSUME NEW r \in Runs,
             Load(r) \/ Commit(r) \/ GiveUp(r) \/ Enqueue(r) \/ Claim(r) \/ Survey(r) \/ WriteBack(r) \/ Finish(r),
             UNCHANGED storeVars
      PROVE  Types'
  BY <1>2, WriterTypes, DrainTypes
<1>3. CASE MemoryStep
  BY <1>2, <1>3, DeletionTypes DEF MemoryStep, MemoryNext
<1> QED BY <1>1, <1>3, RunTypes, DeletionTypes DEF Next, Step

-----------------------------------------------------------------------------
(* The course of a run: its task, its memory task, its job, its report.    *)

CourseOf(r) ==
  /\ task[r] \in {"none", "posted", "working"} => writer[r] = "none" /\ r \notin shown
  /\ writer[r] # "done" => job[r] = "none"
  /\ task[r] = "none" => ~Present(r)
  /\ r \in shown \ unsaved /\ Present(r) => row[r].result = "report"
Courses == \A r \in Runs : CourseOf(r)

JobsFit ==
  /\ \A r \in Runs : \A j \in drain[r].jobs : job[j] = "running"
  /\ \A r, q \in Runs : r # q => drain[r].jobs \cap drain[q].jobs = {}

LEMMA RunKeepsCourse ==
  ASSUME Types, Courses, JobsFit, NEW r \in Runs,
         Post(r) \/ Begin(r) \/ Work(r) \/ Deliver(r) \/ EndTask(r) \/ Fail(r) \/ Cancel(r)
  PROVE  Courses' /\ JobsFit'
<1>1. UNCHANGED <<job, drain>>
  BY DEF Post, Begin, RecordSources, Work, Deliver, Persist, EndTask, Fail, Cancel, memoryVars
<1>2. JobsFit'
  BY <1>1 DEF JobsFit
<1>3. /\ row \in [Runs -> RowType] /\ task \in [Runs -> Live \cup {"none", "ended"}]
      /\ writer \in [Runs -> WriterStates] /\ CourseOf(r)
  BY DEF Types, Courses
<1>4. ASSUME NEW q \in Runs \ {r}
      PROVE  row'[q] = row[q] /\ task'[q] = task[q] /\ writer'[q] = writer[q]
             /\ (q \in shown' <=> q \in shown) /\ (q \in unsaved' <=> q \in unsaved)
  <2>1. CASE Post(r)
    BY <1>3, <2>1 DEF Post, memoryVars
  <2>2. CASE Begin(r)
    BY <1>3, <2>2 DEF Begin, RecordSources, MarkRunning
  <2>3. CASE Work(r) \/ EndTask(r)
    BY <1>3, <2>3 DEF Work, RecordSources, EndTask, memoryVars
  <2>4. CASE Deliver(r)
    BY <1>3, <2>4 DEF Deliver, Persist, CompleteRun
  <2>5. CASE Fail(r)
    BY <1>3, <2>5 DEF Fail, FailRun, CompleteRun, memoryVars
  <2>6. CASE Cancel(r)
    BY <1>3, <2>6 DEF Cancel, InterruptRun, CompleteRun, memoryVars
  <2> QED BY <2>1, <2>2, <2>3, <2>4, <2>5, <2>6
<1>5. ASSUME NEW q \in Runs \ {r} PROVE CourseOf(q)'
  BY <1>1, <1>4, <1>5 DEF Courses, CourseOf, Present
<1>6. CourseOf(r)'
  <2>1. CASE Post(r)
    BY <1>1, <1>3, <2>1 DEF Post, CourseOf, memoryVars, Present
  <2>2. CASE Begin(r)
    BY <1>1, <1>3, <2>2 DEF Begin, RecordSources, MarkRunning, CourseOf, Present
  <2>3. CASE Work(r) \/ EndTask(r)
    BY <1>1, <1>3, <2>3 DEF Work, RecordSources, EndTask, CourseOf, memoryVars, Present
  <2>4. CASE Deliver(r)
    BY <1>1, <1>3, <2>4 DEF Deliver, Persist, CompleteRun, CourseOf, Present
  <2>5. CASE Fail(r)
    BY <1>1, <1>3, <2>5 DEF Fail, FailRun, CompleteRun, CourseOf, memoryVars, Present
  <2>6. CASE Cancel(r)
    <3>1. /\ task' = [task EXCEPT ![r] = "ended"] /\ UNCHANGED <<writer, shown, unsaved>>
          /\ row' = row \/ InterruptRun(r)
      BY <2>6 DEF Cancel, memoryVars
    <3>2. row'[r].result = row[r].result /\ (row'[r].status = "absent" => row[r].status = "absent")
          /\ (row[r].status = "absent" => row'[r].status = "absent")
      <4>1. CASE row' = row
        BY <4>1
      <4>2. CASE InterruptRun(r)
        BY <1>3, <4>2 DEF InterruptRun, CompleteRun, Present
      <4> QED BY <3>1, <4>1, <4>2
    <3> QED BY <1>1, <1>3, <3>1, <3>2 DEF CourseOf, Present
  <2> QED BY <2>1, <2>2, <2>3, <2>4, <2>5, <2>6
<1> QED BY <1>2, <1>5, <1>6 DEF Courses

LEMMA WriterKeepsCourse ==
  ASSUME Types, Courses, JobsFit, NEW r \in Runs,
         Load(r) \/ Commit(r) \/ GiveUp(r) \/ Enqueue(r), UNCHANGED storeVars
  PROVE  Courses' /\ JobsFit'
<1>1. /\ UNCHANGED <<row, task, shown, unsaved>> /\ writer \in [Runs -> WriterStates] /\ writer[r] # "none"
      /\ job \in [Runs -> JobStates] /\ drain \in [Runs -> DrainType]
  BY DEF storeVars, Types, Load, Commit, GiveUp, Enqueue
<1>2. /\ writer'[r] # "none" /\ \A q \in Runs \ {r} : writer'[q] = writer[q] /\ job'[q] = job[q]
      /\ writer'[r] # "done" => job'[r] = job[r] /\ writer[r] # "done"
      /\ \A q \in Runs : drain'[q].jobs = drain[q].jobs
  <2>1. CASE Load(r)
    BY <1>1, <2>1 DEF Load
  <2>2. CASE Commit(r)
    BY <1>1, <2>2 DEF Commit
  <2>3. CASE GiveUp(r)
    BY <1>1, <2>3 DEF GiveUp
  <2>4. CASE Enqueue(r)
    <3>1. \A q \in Runs : drain'[q].jobs = drain[q].jobs
      BY <1>1, <2>4 DEF Enqueue, DrainType
    <3> QED BY <1>1, <2>4, <3>1 DEF Enqueue
  <2> QED BY <2>1, <2>2, <2>3, <2>4
<1>3. Courses'
  BY <1>1, <1>2 DEF Courses, CourseOf, Present
<1>4. JobsFit'
  <2>1. \A q \in Runs : r \notin drain[q].jobs \/ job'[r] = job[r]
    BY <1>1 DEF JobsFit, Load, Commit, GiveUp, Enqueue, Courses, CourseOf
  <2>2. \A q \in Runs : drain[q].jobs \in SUBSET Runs
    BY <1>1 DEF DrainType
  <2> QED BY <1>2, <2>1, <2>2 DEF JobsFit
<1> QED BY <1>3, <1>4

LEMMA DrainKeepsCourse ==
  ASSUME Types, Courses, JobsFit, NEW r \in Runs,
         Claim(r) \/ Survey(r) \/ WriteBack(r) \/ Finish(r), UNCHANGED storeVars
  PROVE  Courses' /\ JobsFit'
<1>1. /\ UNCHANGED <<row, task, shown, unsaved, writer>>
      /\ job \in [Runs -> JobStates] /\ drain \in [Runs -> DrainType]
      /\ \A q \in Runs : drain[q].jobs \in SUBSET Runs
  BY DEF storeVars, Types, DrainType, Claim, Survey, WriteBack, Finish
<1>2. ASSUME \A q \in Runs : job[q] = "none" => job'[q] = "none"
      PROVE  Courses'
  BY <1>1, <1>2 DEF Courses, CourseOf, Present
<1>3. CASE Claim(r)
  <2>1. \A q \in Runs : job'[q] = IF q \in Claimable THEN "running" ELSE job[q]
    BY <1>3 DEF Claim
  <2>2. /\ drain'[r].jobs = IF Claimable = {} THEN {} ELSE Claimable
        /\ \A q \in Runs \ {r} : drain'[q] = drain[q]
    BY <1>1, <1>3 DEF Claim, Idle, DrainType
  <2>3. \A q \in Claimable : q \in Runs /\ job[q] = "pending"
    BY DEF Claimable
  <2>4. JobsFit'
    BY <1>1, <2>1, <2>2, <2>3 DEF JobsFit
  <2> QED BY <1>2, <2>1, <2>3, <2>4
<1>4. CASE Survey(r) \/ WriteBack(r)
  <2>1. /\ UNCHANGED job /\ \A q \in Runs : drain'[q].jobs = drain[q].jobs
    BY <1>1, <1>4 DEF Survey, WriteBack, DrainType
  <2> QED BY <1>2, <2>1 DEF JobsFit
<1>5. CASE Finish(r)
  <2>1. PICK j \in drain[r].jobs :
          /\ job' = [job EXCEPT ![j] = IF drain[r].at = "written" THEN "done" ELSE "failed"]
          /\ drain' = [drain EXCEPT ![r] =
               IF @.jobs = {j} THEN Idle
               ELSE [Idle EXCEPT !.at = "claimed", !.jobs = drain[r].jobs \ {j}]]
    BY <1>5 DEF Finish
  <2>2. j \in Runs /\ job[j] = "running" /\ \A q \in Runs \ {j} : job'[q] = job[q]
    BY <1>1, <2>1 DEF JobsFit
  <2>3. /\ drain'[r].jobs \subseteq drain[r].jobs \ {j}
        /\ \A q \in Runs \ {r} : drain'[q] = drain[q] /\ j \notin drain[q].jobs
    BY <1>1, <2>1 DEF JobsFit, Idle
  <2>4. JobsFit'
    BY <1>1, <2>2, <2>3 DEF JobsFit
  <2>5. \A q \in Runs : job[q] = "none" => job'[q] = "none"
    BY <2>2
  <2> QED BY <1>2, <2>4, <2>5
<1> QED BY <1>3, <1>4, <1>5

LEMMA DeletionKeepsCourse ==
  ASSUME Types, Courses, JobsFit,
         \/ Crash \/ (MemoryStep /\ (ForgetRecord \/ ForgetUser))
         \/ \E r \in Runs : BeginDelete(r) \/ ForgetRun(r) \/ ForgetSources(r) \/ DeleteRest(r)
  PROVE  Courses' /\ JobsFit'
<1>1. CASE Crash
  <2>1. \A r \in Runs : /\ task'[r] = IF task[r] \in Live THEN "ended" ELSE task[r]
                        /\ writer'[r] = IF writer[r] = "none" THEN "none" ELSE "done"
                        /\ drain'[r].jobs = {} /\ row'[r].result = row[r].result
                        /\ row'[r].status = "absent" <=> row[r].status = "absent"
    <3>1. row \in [Runs -> RowType]
      BY DEF Types
    <3>2. \A r \in Runs : row'[r].result = row[r].result /\ (row'[r].status = "absent" <=> row[r].status = "absent")
      BY <1>1, <3>1 DEF Crash, RowType, RecoverableOnStartup
    <3> QED BY <1>1, <3>2 DEF Crash, Idle
  <2>2. UNCHANGED <<job, shown, unsaved>>
    BY <1>1 DEF Crash
  <2>3. Courses'
    BY <2>1, <2>2 DEF Courses, CourseOf, Present, Live
  <2> QED BY <2>1, <2>3 DEF JobsFit
<1>2. CASE MemoryStep /\ (ForgetRecord \/ ForgetUser)
  <2>1. UNCHANGED <<writer, job, drain, row, task, shown, unsaved>>
    BY <1>2 DEF ForgetRecord, ForgetUser, ForgetRecords, MemoryStep, storeVars
  <2> QED BY <2>1 DEF Courses, CourseOf, JobsFit, Present
<1>3. ASSUME NEW r \in Runs, BeginDelete(r) \/ ForgetRun(r) \/ ForgetSources(r)
      PROVE  Courses' /\ JobsFit'
  <2>1. UNCHANGED <<writer, job, drain, row, task, shown, unsaved>>
    BY <1>3 DEF BeginDelete, ForgetRun, ForgetSources
  <2> QED BY <2>1 DEF Courses, CourseOf, JobsFit, Present
<1>4. ASSUME NEW r \in Runs, DeleteRest(r)
      PROVE  Courses' /\ JobsFit'
  <2>1. UNCHANGED <<writer, job, drain, task, shown, unsaved>>
    BY <1>4 DEF DeleteRest, memoryVars
  <2>2. row'[r] = NoRow /\ \A q \in Runs \ {r} : row'[q] = row[q]
    BY <1>4 DEF DeleteRest, Types
  <2>3. row'[r].status = "absent"
    <3>1. NoRow.status = "absent"
      BY DEF NoRow
    <3>2. row'[r] = NoRow
      BY <2>2
    <3> QED BY <3>1, <3>2
  <2>4. Courses'
    <3>1. CourseOf(r)'
      BY <2>1, <2>3 DEF Courses, CourseOf, Present
    <3>2. ASSUME NEW q \in Runs \ {r} PROVE CourseOf(q)'
      BY <2>1, <2>2, <3>2 DEF Courses, CourseOf, Present
    <3> QED BY <3>1, <3>2 DEF Courses
  <2> QED BY <2>1, <2>4 DEF JobsFit
<1> QED BY <1>1, <1>2, <1>3, <1>4

LEMMA CoursesKept == ASSUME Types, Courses, JobsFit, [Next]_vars PROVE Courses' /\ JobsFit'
<1>1. CASE UNCHANGED vars
  BY <1>1 DEF vars, memoryVars, storeVars, Courses, CourseOf, JobsFit, Present
<1>2. CASE MemoryStep
  BY <1>2, WriterKeepsCourse, DrainKeepsCourse, DeletionKeepsCourse DEF MemoryStep, MemoryNext
<1> QED BY <1>1, <1>2, RunKeepsCourse, DeletionKeepsCourse DEF Next, Step

-----------------------------------------------------------------------------
(* The deletion of a run.                                                  *)

\* The records that are a run's in the table or in a copy somebody holds.
Owned(record, r) == record.state = "active" /\ record.run = r
Touched(r) ==
  {m \in Records : \/ Owned(rec[m], r)
                   \/ \E q \in Runs : Owned(loaded[q][m], r) \/ Owned(drain[q].read[m], r)}

\* What a deletion that began on a run at rest has reached.
CascadeFits(r) ==
  /\ cascade[r] # "none" => task[r] = "ended" /\ writer[r] \notin {"scheduled", "loaded"}
  /\ cascade[r] = "selected" => Touched(r) \subseteq selected[r]
  /\ cascade[r] \notin {"none", "selected"} => Touched(r) = {}
  /\ cascade[r] \in {"sources", "done", "checkpoints left", "traces left"} => ledger # r
  /\ cascade[r] = "done" => ~Present(r) /\ r \notin files \cup traces \cup checkpoints
Cascades == \A r \in Runs \ spoiled : CascadeFits(r)

\* Only its own memory task gives a run new records: everything else copies
\* records, writes copies back or takes records away.
LEMMA TouchedFades ==
  ASSUME Types, [Next]_vars, NEW r \in Runs, writer[r] # "loaded"
  PROVE  Touched(r)' \subseteq Touched(r)
<1>0. /\ rec \in Table /\ loaded \in [Runs -> Table] /\ drain \in [Runs -> DrainType]
      /\ \A q \in Runs : drain[q] \in DrainType /\ drain[q].read \in Table
  BY DEF Types, DrainType
<1>1. ASSUME UNCHANGED <<rec, loaded, drain>> PROVE Touched(r)' \subseteq Touched(r)
  BY <1>1 DEF Touched
<1>2. \A m \in Records : ~Owned(Nothing[m], r) /\ (Owned(Active(rec)[m], r) => Owned(rec[m], r))
  BY DEF Owned, Nothing, Missing, Active
<1>3. ASSUME NEW q \in Runs, Load(q) PROVE Touched(r)' \subseteq Touched(r)
  <2>1. \A p \in Runs : loaded'[p] = loaded[p] \/ loaded'[p] = Active(rec)
    BY <1>0, <1>3 DEF Load, ReadRecords
  <2>2. UNCHANGED <<rec, drain>>
    BY <1>3 DEF Load
  <2> QED BY <1>2, <2>1, <2>2 DEF Touched
<1>4. ASSUME NEW q \in Runs, Commit(q) PROVE Touched(r)' \subseteq Touched(r)
  <2>1. q # r /\ batch[q] \in Batches /\ loaded[q] \in Table
    BY <1>0, <1>4 DEF Commit, Types
  <2>2. \A m \in Records : Owned(rec'[m], r) => Owned(rec[m], r)
    BY <1>0, <1>4, <2>1, CommitFacts DEF Commit, Owned
  <2>3. /\ \A p \in Runs : loaded'[p] = loaded[p] \/ loaded'[p] = Nothing
        /\ UNCHANGED drain
    BY <1>0, <1>4 DEF Commit
  <2> QED BY <1>2, <2>2, <2>3 DEF Touched
<1>5. ASSUME NEW q \in Runs, GiveUp(q) PROVE Touched(r)' \subseteq Touched(r)
  <2>1. /\ \A p \in Runs : loaded'[p] = loaded[p] \/ loaded'[p] = Nothing
        /\ UNCHANGED <<rec, drain>>
    BY <1>0, <1>5 DEF GiveUp
  <2> QED BY <1>2, <2>1 DEF Touched
<1>6. ASSUME UNCHANGED <<rec, loaded>>,
             \A p \in Runs : \/ drain'[p].read = drain[p].read \/ drain'[p].read = Nothing
                             \/ drain'[p].read = Active(rec)
      PROVE  Touched(r)' \subseteq Touched(r)
  BY <1>2, <1>6 DEF Touched
<1>7. ASSUME NEW q \in Runs, Enqueue(q) \/ Claim(q) \/ Survey(q) \/ Finish(q)
      PROVE  Touched(r)' \subseteq Touched(r)
  <2>1. Idle.read = Nothing
    BY DEF Idle
  <2>2. \A p \in Runs : drain[p].read = drain[p].read /\ drain[p] \in DrainType
    BY <1>0
  <2>3. CASE Enqueue(q)
    BY <1>0, <1>6, <2>3 DEF Enqueue, DrainType
  <2>4. CASE Claim(q)
    BY <1>0, <1>6, <2>1, <2>4 DEF Claim, DrainType
  <2>5. CASE Survey(q)
    BY <1>0, <1>6, <2>5 DEF Survey, DrainType
  <2>6. CASE Finish(q)
    <3>1. \A js : [Idle EXCEPT !.at = "claimed", !.jobs = js].read = Nothing
      BY DEF Idle
    <3>2. \A p \in Runs : drain'[p].read = drain[p].read \/ drain'[p].read = Nothing
      BY <1>0, <2>1, <2>6, <3>1 DEF Finish
    <3> QED BY <1>6, <2>6, <3>2 DEF Finish
  <2> QED BY <1>7, <2>3, <2>4, <2>5, <2>6
<1>8. ASSUME NEW q \in Runs, WriteBack(q) PROVE Touched(r)' \subseteq Touched(r)
  <2>1. \A m \in Records : \/ rec'[m] = rec[m] \/ rec'[m] = drain[q].read[m]
                           \/ rec'[m] = [drain[q].read[m] EXCEPT !.trust = "trusted"]
    BY <1>8 DEF WriteBack
  <2>2. \A record \in RecordType : /\ [record EXCEPT !.trust = "trusted"].state = record.state
                                   /\ [record EXCEPT !.trust = "trusted"].run = record.run
    BY DEF RecordType
  <2>3. \A m \in Records : Owned(rec'[m], r) => Owned(rec[m], r) \/ Owned(drain[q].read[m], r)
    <3>1. \A m \in Records : drain[q].read[m] \in RecordType
      BY <1>0 DEF Table
    <3> QED BY <2>1, <2>2, <3>1 DEF Owned
  <2>4. /\ \A p \in Runs : drain'[p].read = drain[p].read \/ drain'[p].read = Nothing
        /\ UNCHANGED loaded
    BY <1>0, <1>8 DEF WriteBack, DrainType
  <2> QED BY <1>2, <2>3, <2>4 DEF Touched
<1>9. ASSUME NEW ms, rec' = Forgotten(rec, ms), UNCHANGED <<loaded, drain>>
      PROVE  Touched(r)' \subseteq Touched(r)
  <2>1. \A record \in RecordType : [record EXCEPT !.state = "forgotten"].state = "forgotten"
    BY DEF RecordType
  <2>2. \A m \in Records : Owned(rec'[m], r) => Owned(rec[m], r)
    BY <1>0, <1>9, <2>1 DEF Owned, Forgotten, Table
  <2> QED BY <1>9, <2>2 DEF Touched
<1>10. CASE Crash
  <2>1. \A p \in Runs : loaded'[p] = Nothing /\ drain'[p].read = Nothing
    BY <1>10 DEF Crash, Idle
  <2>2. rec' = rec
    BY <1>10 DEF Crash
  <2> QED BY <1>2, <2>1, <2>2 DEF Touched
<1>11. CASE MemoryStep
  <2>1. CASE ForgetRecord \/ ForgetUser
    BY <1>9, <2>1 DEF ForgetRecord, ForgetUser, ForgetRecords
  <2> QED BY <1>3, <1>4, <1>5, <1>7, <1>8, <1>11, <2>1 DEF MemoryStep, MemoryNext
<1>12. ASSUME NEW q \in Runs, ForgetRun(q) PROVE Touched(r)' \subseteq Touched(r)
  BY <1>9, <1>12 DEF ForgetRun
<1>13. ASSUME NEW q \in Runs,
              \/ Post(q) \/ Begin(q) \/ Work(q) \/ Deliver(q) \/ EndTask(q) \/ Fail(q) \/ Cancel(q)
              \/ BeginDelete(q) \/ ForgetSources(q) \/ DeleteRest(q)
       PROVE  UNCHANGED <<rec, loaded, drain>>
  BY <1>13 DEF Post, Begin, RecordSources, Work, Deliver, Persist, EndTask, Fail, Cancel, BeginDelete, ForgetSources, DeleteRest, memoryVars
<1>14. CASE UNCHANGED vars
  BY <1>1, <1>14 DEF vars, memoryVars
<1> QED BY <1>1, <1>10, <1>11, <1>12, <1>13, <1>14 DEF Next, Step

\* Nothing of a run at rest is in a copy.
LEMMA RestFacts ==
  ASSUME Types, NEW r \in Runs, ~AtWork(r)
  PROVE  /\ task[r] \notin Live /\ writer[r] \notin {"scheduled", "loaded"}
         /\ Touched(r) \subseteq RecordsOf(r)
BY DEF AtWork, Holds, Touched, Owned, RecordsOf, Candidates

LEMMA MemoryKeepsCascades ==
  ASSUME Types, Cascades, [Next]_vars, MemoryStep \/ UNCHANGED vars
  PROVE  Cascades'
<1>1. /\ UNCHANGED <<row, files, traces, checkpoints, task, cascade, selected, spoiled>>
      /\ UNCHANGED ledger
  BY DEF MemoryStep, MemoryNext, storeVars, vars, memoryVars, Load, Commit, GiveUp, Enqueue, Claim,
         Survey, WriteBack, Finish, ForgetRecord, ForgetUser, ForgetRecords
<1>2. \A r \in Runs : writer[r] \notin {"scheduled", "loaded"} => writer'[r] \notin {"scheduled", "loaded"}
  <2>1. CASE UNCHANGED vars
    BY <2>1 DEF vars, memoryVars
  <2>2. ASSUME NEW q \in Runs, Load(q) \/ Commit(q) \/ GiveUp(q) \/ Enqueue(q)
        PROVE  \A r \in Runs : writer[r] \notin {"scheduled", "loaded"} => writer'[r] \notin {"scheduled", "loaded"}
    BY <2>2 DEF Load, Commit, GiveUp, Enqueue, Types
  <2>3. ASSUME NEW q \in Runs, Claim(q) \/ Survey(q) \/ WriteBack(q) \/ Finish(q)
        PROVE  UNCHANGED writer
    BY <2>3 DEF Claim, Survey, WriteBack, Finish
  <2>4. ForgetRecord \/ ForgetUser => UNCHANGED writer
    BY DEF ForgetRecord, ForgetUser, ForgetRecords
  <2> QED BY <2>1, <2>2, <2>3, <2>4 DEF MemoryStep, MemoryNext
<1> SUFFICES ASSUME NEW r \in Runs \ spoiled PROVE CascadeFits(r)'
  BY <1>1 DEF Cascades
<1>3. CascadeFits(r)
  BY DEF Cascades
<1>4. cascade[r] # "none" => Touched(r)' \subseteq Touched(r)
  BY <1>3, TouchedFades DEF CascadeFits
<1> QED BY <1>1, <1>2, <1>3, <1>4 DEF CascadeFits, Present

LEMMA RunKeepsCascades ==
  ASSUME Types, Courses, Cascades, [Next]_vars, NEW q \in Runs,
         Post(q) \/ Begin(q) \/ Work(q) \/ Deliver(q) \/ EndTask(q) \/ Fail(q) \/ Cancel(q)
  PROVE  Cascades'
<1>1. UNCHANGED <<rec, loaded, drain, cascade, selected, spoiled>>
  BY DEF Post, Begin, RecordSources, Work, Deliver, Persist, EndTask, Fail, Cancel, memoryVars, cascadeVars
<1>2. (task[q] = "none" /\ cascade[q] = "none") \/ task[q] \in Live
  BY DEF Post, Begin, RecordSources, Work, Deliver, Persist, EndTask, Fail, Cancel, Live
<1>3. ASSUME NEW r \in Runs \ {q}
      PROVE  /\ task'[r] = task[r] /\ writer'[r] = writer[r] /\ row'[r] = row[r]
             /\ ledger' = r => ledger = r
             /\ r \in files' \cup traces' \cup checkpoints' => r \in files \cup traces \cup checkpoints
  <2>1. row \in [Runs -> RowType] /\ task \in [Runs -> Live \cup {"none", "ended"}] /\ writer \in [Runs -> WriterStates]
    BY DEF Types
  <2>2. CASE Post(q)
    BY <2>1, <2>2 DEF Post, memoryVars, dataVars
  <2>3. CASE Begin(q)
    BY <2>1, <2>3 DEF Begin, RecordSources, MarkRunning, Write
  <2>4. CASE Work(q)
    BY <2>1, <2>4 DEF Work, RecordSources, Write, memoryVars
  <2>5. CASE Deliver(q)
    BY <2>1, <2>5 DEF Deliver, Persist, CompleteRun, dataVars
  <2>6. CASE EndTask(q)
    BY <2>1, <2>6 DEF EndTask, memoryVars, dataVars
  <2>7. CASE Fail(q)
    BY <2>1, <2>7 DEF Fail, FailRun, CompleteRun, memoryVars, dataVars
  <2>8. CASE Cancel(q)
    BY <2>1, <2>8 DEF Cancel, InterruptRun, CompleteRun, memoryVars, dataVars
  <2> QED BY <2>2, <2>3, <2>4, <2>5, <2>6, <2>7, <2>8
<1> SUFFICES ASSUME NEW r \in Runs \ spoiled PROVE CascadeFits(r)'
  BY <1>1 DEF Cascades
<1>4. CascadeFits(r) /\ Touched(r)' \subseteq Touched(r)
  BY <1>1 DEF Cascades, Touched
<1>5. CASE r = q
  <2>1. cascade[r] = "none"
    BY <1>2, <1>4, <1>5 DEF CascadeFits, Live
  <2> QED BY <1>1, <2>1 DEF CascadeFits
<1>6. CASE r # q
  BY <1>1, <1>3, <1>4, <1>6 DEF CascadeFits, Present
<1> QED BY <1>5, <1>6

LEMMA DeletionKeepsCascades ==
  ASSUME Types, Courses, Cascades, [Next]_vars, NEW q \in Runs,
         BeginDelete(q) \/ ForgetRun(q) \/ ForgetSources(q) \/ DeleteRest(q)
  PROVE  Cascades'
<1>1. /\ UNCHANGED <<task, writer, loaded, drain>> /\ spoiled \subseteq spoiled'
      /\ ledger' = ledger \/ ledger' = NoRun
      /\ cascade \in [Runs -> CascadeStates] /\ selected \in [Runs -> SUBSET Records] /\ row \in [Runs -> RowType]
      /\ NoRun \notin Runs
  BY RunFacts DEF BeginDelete, ForgetRun, ForgetSources, DeleteRest, memoryVars, Types
<1>2. ASSUME NEW r \in Runs \ {q}
      PROVE  /\ cascade'[r] = cascade[r] /\ selected'[r] = selected[r] /\ row'[r] = row[r]
             /\ r \in files' \cup traces' \cup checkpoints' => r \in files \cup traces \cup checkpoints
  <2>1. CASE BeginDelete(q) \/ ForgetRun(q) \/ ForgetSources(q)
    BY <1>1, <2>1 DEF BeginDelete, ForgetRun, ForgetSources, dataVars
  <2>2. CASE DeleteRest(q)
    BY <1>1, <2>2 DEF DeleteRest
  <2> QED BY <2>1, <2>2
<1> SUFFICES ASSUME NEW r \in Runs \ spoiled' PROVE CascadeFits(r)'
  BY DEF Cascades
<1>3. r \in Runs /\ r \notin spoiled /\ CascadeFits(r)
  BY <1>1 DEF Cascades
<1>4. cascade[r] # "none" => Touched(r)' \subseteq Touched(r)
  BY <1>3, TouchedFades DEF CascadeFits
<1>5. CASE r # q
  BY <1>1, <1>2, <1>3, <1>4, <1>5 DEF CascadeFits, Present
<1>6. CASE r = q /\ BeginDelete(q)
  <2>1. ~AtWork(r) /\ cascade'[r] = "selected" /\ selected'[r] = RecordsOf(r) /\ Present(r)
    BY <1>1, <1>6 DEF BeginDelete
  <2>2. task[r] = "ended" /\ writer[r] \notin {"scheduled", "loaded"}
    BY <1>3, <2>1, RestFacts DEF Courses, CourseOf, Types
  <2>3. Touched(r)' \subseteq RecordsOf(r)
    <3>1. Touched(r)' \subseteq Touched(r)
      BY <1>3, <2>2, TouchedFades
    <3> QED BY <1>3, <2>1, <3>1, RestFacts
  <2> QED BY <1>1, <2>1, <2>2, <2>3 DEF CascadeFits
<1>7. CASE r = q /\ ForgetRun(q)
  <2>1. /\ ~AtWork(r) /\ cascade[r] = "selected" /\ cascade'[r] = "forgotten"
        /\ rec' = Forgotten(rec, Found(r))
    BY <1>1, <1>7 DEF ForgetRun
  <2>2. Touched(r) \subseteq RecordsOf(r) /\ Touched(r) \subseteq selected[r]
    BY <1>3, <2>1, RestFacts DEF CascadeFits
  <2>3. Touched(r) \subseteq Found(r)
    BY <2>2 DEF Found, RecordsOf, Candidates
  <2>4. \A m \in Found(r) : m \in Records => ~Owned(rec'[m], r)
    <3>1. \A record \in RecordType : [record EXCEPT !.state = "forgotten"].state = "forgotten"
      BY DEF RecordType
    <3> QED BY <2>1, <3>1 DEF Types, Table, Forgotten, Owned
  <2>5. \A m \in Records, p \in Runs : ~Owned(loaded[p][m], r) /\ ~Owned(drain[p].read[m], r)
    BY <1>3, <2>1 DEF AtWork, Holds, Owned
  <2>6. Touched(r)' \subseteq Touched(r)
    BY <1>3, <1>4, <2>1
  <2>7. Touched(r)' = {}
    <3> SUFFICES ASSUME NEW m \in Touched(r)' PROVE FALSE
      OBVIOUS
    <3>1. m \in Records /\ m \in Found(r)
      BY <2>3, <2>6 DEF Touched
    <3>2. Owned(rec'[m], r)
      BY <1>1, <2>5, <3>1 DEF Touched
    <3> QED BY <2>4, <3>1, <3>2
  <2> QED BY <1>1, <1>3, <2>1, <2>7 DEF CascadeFits
<1>8. CASE r = q /\ ForgetSources(q)
  <2>1. cascade[r] = "forgotten" /\ cascade'[r] = "sources" /\ ledger' # r
    BY <1>1, <1>3, <1>8 DEF ForgetSources
  <2> QED BY <1>1, <1>3, <1>4, <2>1 DEF CascadeFits
<1>9. CASE r = q /\ DeleteRest(q)
  <2>1. NoRow.status = "absent"
    BY DEF NoRow
  <2>2. cascade[r] = "sources" /\ row'[r] = NoRow /\ ledger' = ledger /\ r \notin files'
        /\ \/ r \notin traces' \cup checkpoints' /\ cascade'[r] = "done"
           \/ cascade'[r] \in {"checkpoints left", "traces left"}
    BY <1>1, <1>3, <1>9 DEF DeleteRest, memoryVars
  <2>3. row'[r].status = "absent"
    BY <2>1, <2>2
  <2> QED BY <1>1, <1>3, <1>4, <2>2, <2>3 DEF CascadeFits, Present
<1> QED BY <1>5, <1>6, <1>7, <1>8, <1>9

LEMMA CrashKeepsCascades ==
  ASSUME Types, Cascades, [Next]_vars, Crash
  PROVE  Cascades'
<1>1. \A r \in Runs : /\ task'[r] = IF task[r] \in Live THEN "ended" ELSE task[r]
                      /\ writer'[r] = IF writer[r] = "none" THEN "none" ELSE "done"
                      /\ cascade'[r] = IF cascade[r] \in {"selected", "forgotten", "sources"}
                                       THEN "none" ELSE cascade[r]
                      /\ row[r].status = "absent" => row'[r].status = "absent"
  BY DEF Crash, RecoverableOnStartup
<1>2. UNCHANGED <<ledger, files, traces, checkpoints, spoiled>>
  BY DEF Crash, dataVars
<1> SUFFICES ASSUME NEW r \in Runs \ spoiled PROVE CascadeFits(r)'
  BY <1>2 DEF Cascades
<1>3. CascadeFits(r)
  BY DEF Cascades
<1>4. cascade[r] # "none" => Touched(r)' \subseteq Touched(r)
  BY <1>3, TouchedFades DEF CascadeFits
<1> QED BY <1>1, <1>2, <1>3, <1>4 DEF CascadeFits, Present, Live

LEMMA CascadesKept == ASSUME Types, Courses, Cascades, [Next]_vars PROVE Cascades'
<1>1. CASE MemoryStep \/ UNCHANGED vars
  BY <1>1, MemoryKeepsCascades
<1>2. CASE Crash
  BY <1>2, CrashKeepsCascades
<1>3. ASSUME NEW q \in Runs,
             Post(q) \/ Begin(q) \/ Work(q) \/ Deliver(q) \/ EndTask(q) \/ Fail(q) \/ Cancel(q)
      PROVE  Cascades'
  BY <1>3, RunKeepsCascades
<1>4. ASSUME NEW q \in Runs, BeginDelete(q) \/ ForgetRun(q) \/ ForgetSources(q) \/ DeleteRest(q)
      PROVE  Cascades'
  BY <1>4, DeletionKeepsCascades
<1> QED BY <1>1, <1>2, <1>3, <1>4 DEF Next, Step

-----------------------------------------------------------------------------
(* The start, and the theorems about the stores of a run.                  *)

LEMMA StartOfStorage == Init => Types /\ Courses /\ JobsFit /\ Cascades
<1> SUFFICES ASSUME Init PROVE Types /\ Courses /\ JobsFit /\ Cascades
  OBVIOUS
<1>1. /\ Earlier \subseteq Runs /\ MaxRuns \in Nat \ {0} /\ Nothing \in Table /\ Idle \in DrainType
      /\ NewRecord("plain", EarlierRun) \in RecordType
  <2>1. EarlierRun \in 0 .. MaxRuns + 1 /\ "plain" \in Facts
    BY MemoryAssumption DEF EarlierRun, Facts
  <2> QED BY <2>1, StorageAssumption, MemoryAssumption, RecordFacts DEF Idle, DrainType
<1>2. /\ rec \in Table /\ ledger \in Runs \cup {NoRun}
      /\ writer = [r \in Runs |-> IF r \in Earlier THEN "scheduled" ELSE "none"]
      /\ batch = [r \in Runs |-> <<>>] /\ loaded = [r \in Runs |-> Nothing]
      /\ job = [r \in Runs |-> "none"] /\ drain = [r \in Runs |-> Idle]
  <2>1. rec = [Nothing EXCEPT ![1] = NewRecord("plain", EarlierRun)]
    BY DEF Init, MemoryInit
  <2>2. rec \in Table
    BY <1>1, <2>1 DEF Table
  <2> QED BY <1>1, <2>2 DEF Init, MemoryInit
<1>3. /\ row = [r \in Runs |-> IF r \in Earlier
                                THEN [status |-> "completed", result |-> "report"] ELSE NoRow]
      /\ task = [r \in Runs |-> IF r \in Earlier THEN "ended" ELSE "none"]
      /\ shown = Earlier /\ unsaved = {} /\ cascade = [r \in Runs |-> "none"]
      /\ selected = [r \in Runs |-> {}]
  BY DEF Init
<1>4. NoRow \in RowType /\ [status |-> "completed", result |-> "report"] \in RowType /\ NoRow.status = "absent"
  BY DEF NoRow, RowType, Terminal
<1>5. Types
  BY <1>1, <1>2, <1>3, <1>4 DEF Types, WriterStates, JobStates, CascadeStates
<1>6. Courses
  <2> SUFFICES ASSUME NEW r \in Runs PROVE CourseOf(r)
    BY DEF Courses
  <2>1. CASE r \in Earlier
    BY <1>2, <1>3, <2>1 DEF CourseOf
  <2>2. CASE r \notin Earlier
    BY <1>2, <1>3, <1>4, <2>2 DEF CourseOf, Present
  <2> QED BY <2>1, <2>2
<1>7. JobsFit
  BY <1>2 DEF JobsFit, Idle
<1>8. Cascades
  BY <1>3 DEF Cascades, CascadeFits
<1> QED BY <1>5, <1>6, <1>7, <1>8

Inductive == Types /\ Courses /\ JobsFit /\ Cascades

LEMMA InductiveKept == Inductive /\ [Next]_vars => Inductive'
BY TypesKept, CoursesKept, CascadesKept DEF Inductive

\* The inductive invariant of the stores: types, the course of each run, the
\* jobs claimed by one drain each, what each deletion has reached.
THEOREM StorageInductive == Spec => []Inductive
<1>1. Init => Inductive
  BY StartOfStorage DEF Inductive
<1> QED BY <1>1, InductiveKept, PTL DEF Spec

\* A deletion of a run at rest that is answered without an error leaves
\* nothing of it in any of the six stores, now or later, whatever the other
\* runs, their memory tasks and consolidations do (delete_run_cascade).
THEOREM DeletionIsComplete == Spec => []CascadeIsComplete
<1>1. Inductive => CascadeIsComplete
  <2> SUFFICES ASSUME Inductive PROVE TypeOK /\ CleanCascadeIsComplete
    BY DEF CascadeIsComplete
  <2>1. TypeOK
    BY DEF Inductive, Types, JobsFit, TypeOK, Table, RowType, WriterStates, JobStates
  <2>2. ASSUME NEW r \in Runs, cascade[r] = "done", r \notin spoiled
        PROVE  /\ ~Present(r) /\ r \notin files \cup traces \cup checkpoints
               /\ ledger # r /\ RecordsOf(r) = {}
    <3>1. CascadeFits(r)
      BY <2>2 DEF Inductive, Cascades
    <3>2. RecordsOf(r) \subseteq Touched(r)
      BY DEF RecordsOf, Candidates, Touched, Owned
    <3> QED BY <2>2, <3>1, <3>2 DEF CascadeFits
  <2> QED BY <2>1, <2>2 DEF CleanCascadeIsComplete
<1> QED BY <1>1, StorageInductive, PTL

\* What the page shows can be loaded again as long as the run has a row,
\* through failure, cancellation, crash and restart (persist before publish,
\* interrupt_run, recover_stale_runs).
THEOREM PublishedIsStored == Spec => []PublishedResultIsStored
<1>1. Inductive => PublishedResultIsStored
  <2>1. ASSUME Inductive, NEW r \in shown \ unsaved, Present(r), r \in Runs
        PROVE  row[r].result = "report"
    BY <2>1 DEF Inductive, Courses, CourseOf
  <2>2. Inductive => shown \subseteq Runs
    BY DEF Inductive, Types
  <2> QED BY <2>1, <2>2 DEF PublishedResultIsStored
<1> QED BY <1>1, StorageInductive, PTL

-----------------------------------------------------------------------------
(* The memory.                                                             *)

\* A record that did not race is at least as new as the active copies of it;
\* a copy of its version says what it says.
Faithful(copy, m) ==
  /\ rec[m].state = "active" /\ copy.version <= rec[m].version
  /\ copy.version = rec[m].version => Said(copy) = Said(rec[m])
CopiesFit ==
  \A m \in Records, q \in Runs : \A copy \in {loaded[q][m], drain[q].read[m]} :
    copy.state = "active" => rec[m].state # "missing" /\ (m \in raced \/ Faithful(copy, m))

\* A memory task makes two records at most, and only once.
Used == {m \in Records : rec[m].state # "missing"}
Spent == {r \in Runs : writer[r] \in {"committed", "done"}}
RoomFits == Cardinality(Used) <= 1 + 2 * Cardinality(Spent)

LEMMA Sizes ==
  /\ IsFiniteSet(Records) /\ Cardinality(Records) = 2 * MaxRuns + 1
  /\ IsFiniteSet(Runs) /\ Cardinality(Runs) = MaxRuns /\ MaxRuns \in Nat
  /\ IsFiniteSet(Used) /\ Cardinality(Used) \in Nat
  /\ IsFiniteSet(Spent) /\ Cardinality(Spent) \in Nat
<1>1. MaxRuns \in Nat
  BY MemoryAssumption
<1>2. IsFiniteSet(Records) /\ Cardinality(Records) = 2 * MaxRuns + 1
  BY <1>1, FS_Interval DEF Records
<1>3. IsFiniteSet(Runs) /\ Cardinality(Runs) = MaxRuns
  BY <1>1, FS_Interval DEF Runs
<1>4. Used \subseteq Records /\ Spent \subseteq Runs
  BY DEF Used, Spent
<1> QED BY <1>1, <1>2, <1>3, <1>4, FS_Subset, FS_CardinalityType

LEMMA OneMore ==
  ASSUME NEW S, NEW x, IsFiniteSet(S)
  PROVE  /\ IsFiniteSet(S \cup {x}) /\ Cardinality(S) \in Nat /\ Cardinality(S \cup {x}) \in Nat
         /\ Cardinality(S \cup {x}) <= Cardinality(S) + 1
         /\ x \notin S => Cardinality(S \cup {x}) = Cardinality(S) + 1
<1>1. /\ IsFiniteSet(S \cup {x})
      /\ Cardinality(S \cup {x}) = IF x \in S THEN Cardinality(S) ELSE Cardinality(S) + 1
  BY FS_AddElement
<1>2. Cardinality(S) \in Nat
  BY FS_CardinalityType
<1> QED BY <1>1, <1>2

\* There are slots for what the task of r may still write.
LEMMA RoomLeft ==
  ASSUME RoomFits, NEW r \in Runs, writer[r] = "loaded"
  PROVE  TwoRooms(rec)
<1>1. Spent \subseteq Runs \ {r}
  BY DEF Spent
<1>2. IsFiniteSet(Runs \ {r}) /\ Cardinality(Runs \ {r}) = MaxRuns - 1
  BY Sizes, FS_RemoveElement
<1>3. Cardinality(Spent) <= MaxRuns - 1
  BY <1>1, <1>2, FS_Subset
<1>4. Cardinality(Used) <= 2 * MaxRuns - 1
  BY <1>3, Sizes DEF RoomFits
<1>5. ASSUME NEW m, Records \subseteq Used \cup {m} PROVE FALSE
  <2>1. IsFiniteSet(Used \cup {m}) /\ Cardinality(Used \cup {m}) <= Cardinality(Used) + 1
    BY Sizes, OneMore
  <2>2. Cardinality(Records) <= Cardinality(Used \cup {m})
    BY <1>5, <2>1, FS_Subset
  <2>3. Cardinality(Used \cup {m}) \in Nat
    BY <2>1, FS_CardinalityType
  <2> QED BY <1>4, <2>1, <2>2, <2>3, Sizes
<1>6. PICK m \in Records : m \notin Used
  BY <1>5
<1>7. PICK n \in Records : n \notin Used \cup {m}
  BY <1>5
<1> QED BY <1>6, <1>7 DEF TwoRooms, Used

LEMMA RoomKept ==
  ASSUME RoomFits,
         \/ Used' \subseteq Used /\ Spent \subseteq Spent'
         \/ \E u, v \in Records, r \in Runs \ Spent :
              Used' \subseteq Used \cup {u, v} /\ Spent' = Spent \cup {r}
  PROVE  RoomFits'
<1>1. /\ IsFiniteSet(Used') /\ Cardinality(Used') \in Nat
      /\ IsFiniteSet(Spent') /\ Cardinality(Spent') \in Nat
  <2>1. Used' \subseteq Records /\ Spent' \subseteq Runs
    BY DEF Used, Spent
  <2> QED BY <2>1, Sizes, FS_Subset, FS_CardinalityType
<1>2. CASE Used' \subseteq Used /\ Spent \subseteq Spent'
  <2>1. Cardinality(Used') <= Cardinality(Used) /\ Cardinality(Spent) <= Cardinality(Spent')
    BY <1>1, <1>2, Sizes, FS_Subset
  <2>2. Cardinality(Used') <= 1 + 2 * Cardinality(Spent')
    BY <1>1, <2>1, Sizes DEF RoomFits
  <2> QED BY <2>2 DEF RoomFits
<1>3. ASSUME NEW u \in Records, NEW v \in Records, NEW r \in Runs \ Spent,
             Used' \subseteq Used \cup {u, v}, Spent' = Spent \cup {r}
      PROVE  RoomFits'
  <2>1. IsFiniteSet(Used \cup {u}) /\ Cardinality(Used \cup {u}) <= Cardinality(Used) + 1
    BY Sizes, OneMore
  <2>2. /\ IsFiniteSet((Used \cup {u}) \cup {v})
        /\ Cardinality((Used \cup {u}) \cup {v}) <= Cardinality(Used \cup {u}) + 1
        /\ Cardinality(Used \cup {u}) \in Nat
    BY <2>1, OneMore
  <2>3. Cardinality(Used') <= Cardinality((Used \cup {u}) \cup {v}) /\ Cardinality((Used \cup {u}) \cup {v}) \in Nat
    <3>1. Used' \subseteq (Used \cup {u}) \cup {v}
      BY <1>3
    <3> QED BY <2>2, <3>1, FS_Subset, FS_CardinalityType
  <2>4. Cardinality(Spent') = Cardinality(Spent) + 1
    BY <1>3, Sizes, OneMore
  <2>5. Cardinality(Used') <= 1 + 2 * Cardinality(Spent')
    BY <1>1, <2>1, <2>2, <2>3, <2>4, Sizes DEF RoomFits
  <2> QED BY <2>5 DEF RoomFits
<1> QED BY <1>2, <1>3

\* What may become of a record: it stays, apart from what decay and promotion
\* touch, a slot is filled, the record goes, or a fact is merged into it.
Moves(n) ==
  \/ /\ rec'[n].state = rec[n].state /\ rec'[n].version = rec[n].version
     /\ Said(rec'[n]) = Said(rec[n])
  \/ rec[n].state = "missing" /\ rec'[n].state # "missing"
  \/ rec[n].state # "missing" /\ rec'[n].state \in {"forgotten", "superseded"}
  \/ /\ rec[n].state = "active" /\ rec'[n].state = "active" /\ rec'[n].version > rec[n].version
     /\ SecondTry \/ Said(rec[n]) \subseteq Said(rec'[n])

LEMMA CommitMoves ==
  ASSUME Types, CopiesFit, RoomFits, NEW r \in Runs, Commit(r)
  PROVE  /\ \A n \in Records : /\ n \notin raced => Moves(n)
                               /\ rec'[n].state = "missing" => rec[n].state = "missing"
         /\ \E u, v \in Records :
              \A n \in Records \ {u, v} : rec[n].state = "missing" => rec'[n].state = "missing"
<1>1. /\ writer[r] = "loaded" /\ batch[r] \in Batches /\ loaded[r] \in Table /\ rec \in Table
      /\ batch' = [batch EXCEPT ![r] = <<>>] /\ batch \in [Runs -> Batches \cup {<<>>}]
  BY DEF Commit, Types
<1>2. PICK s \in AllWritten(loaded[r], rec, batch[r], r) : rec' = s.table
  BY DEF Commit
<1>3. Known(loaded[r], rec) /\ TwoRooms(rec)
  BY <1>1, RoomLeft DEF Known, CopiesFit
<1>4. /\ Commits(loaded[r], rec, rec')
      /\ Len(batch[r]) = 1 => Merges(loaded[r], rec, rec')
      /\ \E u, v \in Records :
           \A n \in Records \ {u, v} : rec[n].state = "missing" => rec'[n].state = "missing"
      /\ rec' \in Table
  BY <1>1, <1>2, <1>3, CommitFacts
<1>5. Len(batch[r]) = 1 \/ SecondTry
  <2>1. Len(batch[r]) \in {1, 2} /\ batch'[r] = <<>>
    BY <1>1, BatchFacts
  <2>2. Len(batch[r]) = 2 => SecondTry
    <3>1. 2 > 1
      OBVIOUS
    <3> QED BY <2>1, <3>1, Zenon DEF SecondTry
  <2> QED BY <2>1, <2>2
<1>6. ASSUME NEW n \in Records
      PROVE  /\ n \notin raced => Moves(n)
             /\ rec'[n].state = "missing" => rec[n].state = "missing"
  <2>1. \/ rec'[n] = rec[n]
        \/ rec[n].state = "missing" /\ rec'[n].state # "missing"
        \/ /\ loaded[r][n].state = "active" /\ rec[n].state # "missing" /\ rec'[n].state = "superseded"
        \/ /\ loaded[r][n].state = "active" /\ rec[n].state # "missing" /\ rec'[n].state = "active"
           /\ rec'[n].version > rec[n].version
    BY <1>4, Zenon DEF Commits
  <2>2. ASSUME n \notin raced, loaded[r][n].state = "active" PROVE Faithful(loaded[r][n], n)
    BY <2>2 DEF CopiesFit
  <2>3. ASSUME n \notin raced, loaded[r][n].state = "active", rec'[n].state = "active",
               Len(batch[r]) = 1, rec'[n] # rec[n]
        PROVE  Said(rec[n]) \subseteq Said(rec'[n])
    <3>1. rec[n].state = "active"
      BY <2>2, <2>3 DEF Faithful
    <3>2. /\ rec[n].version = loaded[r][n].version
          /\ rec'[n].past = loaded[r][n].past \cup {loaded[r][n].fact}
      BY <1>4, <2>3, <3>1 DEF Merges
    <3>3. Said(loaded[r][n]) = Said(rec[n])
      BY <2>2, <2>3, <3>2 DEF Faithful
    <3>4. rec'[n].past = Said(loaded[r][n])
      BY <3>2 DEF Said
    <3>5. rec'[n].past \subseteq Said(rec'[n])
      BY DEF Said
    <3> QED BY <3>3, <3>4, <3>5
  <2>4. CASE rec'[n] = rec[n]
    BY <2>4 DEF Moves
  <2>5. CASE rec[n].state = "missing" /\ rec'[n].state # "missing"
    BY <2>5 DEF Moves
  <2>6. CASE /\ loaded[r][n].state = "active" /\ rec[n].state # "missing" /\ rec'[n].state = "superseded"
    BY <2>6 DEF Moves
  <2>7. CASE /\ loaded[r][n].state = "active" /\ rec[n].state # "missing" /\ rec'[n].state = "active"
             /\ rec'[n].version > rec[n].version
    <3>1. ASSUME n \notin raced PROVE Moves(n)
      <4>1. rec[n].state = "active"
        BY <2>2, <2>7, <3>1 DEF Faithful
      <4>2. rec'[n] # rec[n]
        <5>1. rec[n].version \in Nat
          BY <1>1 DEF Table, RecordType
        <5> QED BY <2>7, <5>1
      <4>3. SecondTry \/ Said(rec[n]) \subseteq Said(rec'[n])
        BY <1>5, <2>3, <2>7, <3>1, <4>2
      <4> QED BY <2>7, <4>1, <4>3 DEF Moves
    <3> QED BY <2>7, <3>1
  <2> QED BY <2>1, <2>4, <2>5, <2>6, <2>7
<1> QED BY <1>4, <1>6

\* Nobody but the memory task of a run makes records.
LEMMA OtherMoves ==
  ASSUME Types, CopiesFit, [Next]_vars, NEW n \in Records, \A r \in Runs : ~Commit(r)
  PROVE  /\ n \notin raced' => Moves(n)
         /\ rec'[n].state = "missing" <=> rec[n].state = "missing"
<1>1. ASSUME rec' = rec
      PROVE  /\ n \notin raced' => Moves(n)
             /\ rec'[n].state = "missing" <=> rec[n].state = "missing"
  BY <1>1 DEF Moves
<1>2. rec \in Table /\ rec[n] \in RecordType
  BY DEF Types, Table
<1>3. ASSUME NEW ms \in SUBSET Candidates(rec), rec' = Forgotten(rec, ms)
      PROVE  /\ n \notin raced' => Moves(n)
             /\ rec'[n].state = "missing" <=> rec[n].state = "missing"
  <2>1. [rec[n] EXCEPT !.state = "forgotten"].state = "forgotten"
    BY <1>2 DEF RecordType
  <2>2. \/ rec'[n] = rec[n]
        \/ rec[n].state = "active" /\ rec'[n] = [rec[n] EXCEPT !.state = "forgotten"]
    BY <1>3 DEF Forgotten, Candidates
  <2> QED BY <2>1, <2>2 DEF Moves
<1>4. ASSUME NEW r \in Runs, WriteBack(r), raced' = raced \cup Raced
      PROVE  /\ n \notin raced' => Moves(n)
             /\ rec'[n].state = "missing" <=> rec[n].state = "missing"
  <2>1. drain[r].read[n] \in RecordType /\ drain[r] \in DrainType /\ drain \in [Runs -> DrainType]
    BY DEF Types, DrainType, Table
  <2>2. \/ rec'[n] = rec[n]
        \/ /\ drain[r].read[n].state = "active"
           /\ \/ rec'[n] = drain[r].read[n]
              \/ rec'[n] = [drain[r].read[n] EXCEPT !.trust = "trusted"]
    BY <1>4 DEF WriteBack, Candidates
  <2>3. /\ [drain[r].read[n] EXCEPT !.trust = "trusted"].state = drain[r].read[n].state
        /\ [drain[r].read[n] EXCEPT !.trust = "trusted"].version = drain[r].read[n].version
        /\ [drain[r].read[n] EXCEPT !.trust = "trusted"].fact = drain[r].read[n].fact
        /\ [drain[r].read[n] EXCEPT !.trust = "trusted"].past = drain[r].read[n].past
    BY <2>1 DEF RecordType
  <2>4. drain[r].read[n].state = "active" => rec[n].state # "missing"
    BY DEF CopiesFit
  <2>5. rec'[n].state = "missing" <=> rec[n].state = "missing"
    BY <2>2, <2>3, <2>4
  <2>6. ASSUME n \notin raced' PROVE Moves(n)
    <3>1. drain[r].at = "read" /\ drain'[r].at = "written"
      BY <1>4, <2>1 DEF WriteBack, DrainType
    <3>2. rec'[n] = rec[n] \/ drain[r].read[n] = rec[n]
      BY <1>4, <2>6, <3>1 DEF Raced
    <3> QED BY <2>2, <2>3, <3>2 DEF Moves, Said
  <2> QED BY <2>5, <2>6
<1>5. ASSUME NEW r \in Runs,
             Load(r) \/ GiveUp(r) \/ Enqueue(r) \/ Claim(r) \/ Survey(r) \/ Finish(r)
      PROVE  rec' = rec
  BY <1>5 DEF Load, GiveUp, Enqueue, Claim, Survey, Finish
<1>6. ASSUME NEW r \in Runs,
             \/ Post(r) \/ Begin(r) \/ Work(r) \/ Deliver(r) \/ EndTask(r) \/ Fail(r) \/ Cancel(r)
             \/ BeginDelete(r) \/ ForgetSources(r) \/ DeleteRest(r)
      PROVE  rec' = rec
  BY <1>6 DEF Post, Begin, RecordSources, Work, Deliver, Persist, EndTask, Fail, Cancel, BeginDelete, ForgetSources, DeleteRest, memoryVars
<1>7. Crash \/ UNCHANGED vars => rec' = rec
  BY DEF Crash, vars, memoryVars
<1>8. ASSUME ForgetRecord \/ ForgetUser \/ \E r \in Runs : ForgetRun(r)
      PROVE  \E ms \in SUBSET Candidates(rec) : rec' = Forgotten(rec, ms)
  <2>1. CASE ForgetRecord
    <3>1. PICK m \in Candidates(rec) : rec' = Forgotten(rec, {m})
      BY <2>1 DEF ForgetRecord, ForgetRecords
    <3> QED BY <3>1
  <2>2. CASE ForgetUser
    BY <2>2 DEF ForgetUser, ForgetRecords
  <2>3. ASSUME NEW r \in Runs, ForgetRun(r) PROVE \E ms \in SUBSET Candidates(rec) : rec' = Forgotten(rec, ms)
    <3>1. Found(r) \in SUBSET Candidates(rec)
      BY DEF Types, Found, Candidates
    <3> QED BY <2>3, <3>1 DEF ForgetRun
  <2> QED BY <1>8, <2>1, <2>2, <2>3
<1>9. ASSUME MemoryStep, raced' = raced \cup Raced
      PROVE  /\ n \notin raced' => Moves(n)
             /\ rec'[n].state = "missing" <=> rec[n].state = "missing"
  <2>1. CASE ForgetRecord \/ ForgetUser
    BY <1>3, <1>8, <2>1
  <2>2. ASSUME NEW r \in Runs, WriteBack(r)
        PROVE  /\ n \notin raced' => Moves(n)
               /\ rec'[n].state = "missing" <=> rec[n].state = "missing"
    BY <1>4, <1>9, <2>2
  <2>3. ASSUME NEW r \in Runs,
               Load(r) \/ GiveUp(r) \/ Enqueue(r) \/ Claim(r) \/ Survey(r) \/ Finish(r)
        PROVE  /\ n \notin raced' => Moves(n)
               /\ rec'[n].state = "missing" <=> rec[n].state = "missing"
    BY <1>1, <1>5, <2>3
  <2> QED BY <1>9, <2>1, <2>2, <2>3 DEF MemoryStep, MemoryNext
<1>10. ASSUME NEW r \in Runs, ForgetRun(r)
       PROVE  /\ n \notin raced' => Moves(n)
              /\ rec'[n].state = "missing" <=> rec[n].state = "missing"
  BY <1>3, <1>8, <1>10
<1> QED BY <1>1, <1>6, <1>7, <1>9, <1>10 DEF Next, Step

\* A copy is older than the step, or it is taken in it from the table.
LEMMA CopiesOfStep ==
  ASSUME Types, [Next]_vars, NEW n \in Records, NEW q \in Runs,
         NEW copy \in {loaded'[q][n], drain'[q].read[n]}, copy.state = "active"
  PROVE  \/ copy \in {loaded[q][n], drain[q].read[n]}
         \/ copy = rec[n] /\ rec' = rec
<1>1. /\ loaded \in [Runs -> Table] /\ drain \in [Runs -> DrainType] /\ drain[q] \in DrainType
      /\ Nothing[n].state = "missing" /\ (Active(rec)[n].state = "active" => Active(rec)[n] = rec[n])
      /\ Idle.read = Nothing
  BY DEF Types, Nothing, Missing, Active, Idle
<1>2. ASSUME \/ UNCHANGED <<loaded, drain>>
             \/ /\ loaded'[q] \in {loaded[q], Nothing} /\ drain'[q].read \in {drain[q].read, Nothing}
             \/ /\ loaded'[q] \in {loaded[q], Active(rec)} /\ drain'[q].read \in {drain[q].read, Active(rec)}
                /\ rec' = rec
      PROVE  \/ copy \in {loaded[q][n], drain[q].read[n]}
             \/ copy = rec[n] /\ rec' = rec
  BY <1>1, <1>2
<1>3. ASSUME NEW r \in Runs, Load(r) \/ Survey(r)
      PROVE  /\ loaded'[q] \in {loaded[q], Active(rec)} /\ drain'[q].read \in {drain[q].read, Active(rec)}
             /\ rec' = rec
  BY <1>1, <1>3 DEF Load, Survey, ReadRecords, DrainType
<1>4. ASSUME NEW r \in Runs, Commit(r) \/ GiveUp(r) \/ Enqueue(r) \/ Claim(r) \/ WriteBack(r)
      PROVE  loaded'[q] \in {loaded[q], Nothing} /\ drain'[q].read \in {drain[q].read, Nothing}
  <2>1. CASE Commit(r) \/ GiveUp(r)
    BY <1>1, <2>1 DEF Commit, GiveUp
  <2>2. CASE Enqueue(r)
    BY <1>1, <2>2 DEF Enqueue, DrainType
  <2>3. CASE Claim(r)
    BY <1>1, <2>3 DEF Claim, DrainType
  <2>4. CASE WriteBack(r)
    BY <1>1, <2>4 DEF WriteBack, DrainType
  <2> QED BY <1>4, <2>1, <2>2, <2>3, <2>4
<1>5. ASSUME NEW r \in Runs, Finish(r)
      PROVE  loaded'[q] \in {loaded[q], Nothing} /\ drain'[q].read \in {drain[q].read, Nothing}
  <2>1. \A js : [Idle EXCEPT !.at = "claimed", !.jobs = js].read = Nothing
    BY DEF Idle
  <2> QED BY <1>1, <1>5, <2>1 DEF Finish
<1>6. CASE Crash
  BY <1>1, <1>2, <1>6 DEF Crash
<1>7. ASSUME NEW r \in Runs,
             \/ Post(r) \/ Begin(r) \/ Work(r) \/ Deliver(r) \/ EndTask(r) \/ Fail(r) \/ Cancel(r)
             \/ BeginDelete(r) \/ ForgetRun(r) \/ ForgetSources(r) \/ DeleteRest(r)
      PROVE  UNCHANGED <<loaded, drain>>
  BY <1>7 DEF Post, Begin, RecordSources, Work, Deliver, Persist, EndTask, Fail, Cancel, BeginDelete, ForgetRun, ForgetSources,
              DeleteRest, memoryVars
<1>8. ForgetRecord \/ ForgetUser \/ UNCHANGED vars => UNCHANGED <<loaded, drain>>
  BY DEF ForgetRecord, ForgetUser, ForgetRecords, vars, memoryVars
<1>9. CASE MemoryStep
  BY <1>2, <1>3, <1>4, <1>5, <1>8, <1>9 DEF MemoryStep, MemoryNext
<1> QED BY <1>2, <1>6, <1>7, <1>8, <1>9 DEF Next, Step

LEMMA CopiesKept == ASSUME Types, CopiesFit, RoomFits, [Next]_vars PROVE CopiesFit'
<1> SUFFICES ASSUME NEW n \in Records, NEW q \in Runs,
                    NEW copy \in {loaded'[q][n], drain'[q].read[n]}, copy.state = "active"
             PROVE  rec'[n].state # "missing" /\ (n \in raced' \/ Faithful(copy, n)')
  BY DEF CopiesFit
<1>1. /\ rec[n] \in RecordType /\ rec[n].version \in Nat
      /\ rec'[n] \in RecordType /\ rec'[n].version \in Nat
  BY TypesKept DEF Types, Table, RecordType
<1>2. /\ n \notin raced' => Moves(n)
      /\ rec'[n].state = "missing" => rec[n].state = "missing"
  <2>1. raced \subseteq raced'
    BY DEF Next, vars
  <2> QED BY <2>1, CommitMoves, OtherMoves
<1>3. CASE copy = rec[n] /\ rec' = rec
  BY <1>1, <1>3 DEF Faithful
<1>4. CASE copy \in {loaded[q][n], drain[q].read[n]}
  <2>1. rec[n].state # "missing" /\ (n \in raced \/ Faithful(copy, n))
    BY <1>4 DEF CopiesFit
  <2>2. ASSUME n \notin raced' PROVE Faithful(copy, n)'
    <3>1. Faithful(copy, n) /\ copy.version \in Nat
      <4>1. raced \subseteq raced'
        BY DEF Next, vars
      <4>2. copy \in RecordType
        BY <1>4 DEF Types, Table, DrainType
      <4> QED BY <2>1, <2>2, <4>1, <4>2 DEF RecordType
    <3>2. rec'[n].state = "active"
      <4> SUFFICES ASSUME rec'[n].state # "active" PROVE FALSE
        OBVIOUS
      <4>1. rec[n].state = "active" /\ rec' # rec
        BY <3>1 DEF Faithful
      <4>2. n \in Raced
        BY <4>1 DEF Raced, CopyOut
      <4>3. raced' = raced \cup Raced
        BY <4>1 DEF Next, vars, memoryVars
      <4> QED BY <2>2, <4>2, <4>3
    <3> QED BY <1>1, <1>2, <2>1, <2>2, <3>1, <3>2 DEF Moves, Faithful
  <2> QED BY <1>2, <2>1, <2>2
<1> QED BY <1>3, <1>4, CopiesOfStep

LEMMA RoomOfStep == ASSUME Types, Courses, CopiesFit, RoomFits, [Next]_vars PROVE RoomFits'
<1>1. writer \in [Runs -> WriterStates]
  BY DEF Types
<1>2. ASSUME NEW r \in Runs, Commit(r) PROVE RoomFits'
  <2>1. PICK u \in Records, v \in Records :
          \A n \in Records \ {u, v} : rec[n].state = "missing" => rec'[n].state = "missing"
    BY <1>2, CommitMoves
  <2>2. Used' \subseteq Used \cup {u, v}
    BY <2>1 DEF Used
  <2>3. r \notin Spent /\ Spent' = Spent \cup {r}
    BY <1>1, <1>2 DEF Commit, Spent
  <2> QED BY <2>2, <2>3, RoomKept
<1>3. ASSUME \A r \in Runs : ~Commit(r) PROVE RoomFits'
  <2>1. Used' \subseteq Used
    BY <1>3, OtherMoves DEF Used
  <2>2. Spent \subseteq Spent'
    <3>1. CASE Crash
      BY <3>1 DEF Crash, Spent
    <3>2. ASSUME NEW r \in Runs, Load(r) \/ GiveUp(r) \/ Enqueue(r) PROVE Spent \subseteq Spent'
      BY <1>1, <3>2 DEF Load, GiveUp, Enqueue, Spent
    <3>3. ASSUME NEW r \in Runs, Deliver(r) PROVE Spent \subseteq Spent'
      <4>1. writer[r] = "none" /\ writer' = [writer EXCEPT ![r] = "scheduled"]
        BY <3>3 DEF Deliver, Persist, Courses, CourseOf
      <4> QED BY <1>1, <4>1 DEF Spent
    <3>4. ASSUME writer' = writer PROVE Spent \subseteq Spent'
      BY <3>4 DEF Spent
    <3>5. ASSUME NEW r \in Runs,
                 \/ Claim(r) \/ Survey(r) \/ WriteBack(r) \/ Finish(r) \/ ForgetRecord \/ ForgetUser
                 \/ Post(r) \/ Begin(r) \/ Work(r) \/ EndTask(r) \/ Fail(r) \/ Cancel(r)
                 \/ BeginDelete(r) \/ ForgetRun(r) \/ ForgetSources(r) \/ DeleteRest(r)
          PROVE  writer' = writer
      BY <3>5 DEF Claim, Survey, WriteBack, Finish, ForgetRecord, ForgetUser, ForgetRecords, Post, Begin, RecordSources,
                  Work, EndTask, Fail, Cancel, BeginDelete, ForgetRun, ForgetSources, DeleteRest, memoryVars
    <3>6. UNCHANGED vars \/ ForgetRecord \/ ForgetUser => writer' = writer
      BY DEF vars, memoryVars, ForgetRecord, ForgetUser, ForgetRecords
    <3>7. CASE MemoryStep
      BY <1>3, <3>2, <3>4, <3>5, <3>6, <3>7 DEF MemoryStep, MemoryNext
    <3> QED BY <3>1, <3>3, <3>4, <3>5, <3>6, <3>7 DEF Next, Step
  <2> QED BY <2>1, <2>2, RoomKept
<1> QED BY <1>2, <1>3

MemoryFits == Inductive /\ CopiesFit /\ RoomFits

LEMMA StartOfMemory == Init => CopiesFit /\ RoomFits
<1> SUFFICES ASSUME Init PROVE CopiesFit /\ RoomFits
  OBVIOUS
<1>1. /\ rec = [Nothing EXCEPT ![1] = NewRecord("plain", EarlierRun)]
      /\ writer = [r \in Runs |-> IF r \in Earlier THEN "scheduled" ELSE "none"]
      /\ loaded = [r \in Runs |-> Nothing] /\ drain = [r \in Runs |-> Idle]
  BY DEF Init, MemoryInit
<1>2. \A n \in Records : Nothing[n].state = "missing"
  BY DEF Nothing, Missing
<1>3. CopiesFit
  BY <1>1, <1>2 DEF CopiesFit, Idle
<1>4. Used \subseteq {1} /\ Spent = {}
  BY <1>1, <1>2 DEF Used, Spent, Nothing
<1>5. Cardinality(Used) <= 1 /\ Cardinality(Spent) = 0
  <2>1. IsFiniteSet({1}) /\ Cardinality({1}) = 1
    BY FS_Singleton
  <2>2. Cardinality(Used) <= Cardinality({1})
    BY <1>4, <2>1, FS_Subset
  <2> QED BY <1>4, <2>1, <2>2, FS_EmptySet
<1> QED BY <1>3, <1>5, Sizes DEF RoomFits

\* What the memory was told stays told, and what it forgot stays forgotten,
\* whatever is written, merged, consolidated and deleted meanwhile - except on
\* records that raced, and except for the second fact of a batch
\* (_commit_writes, _update_record, consolidate, delete_record).
THEOREM MemoryKept == Spec => MemoryIsKept
<1>1. Init => MemoryFits
  BY StartOfStorage, StartOfMemory DEF MemoryFits, Inductive
<1>2. MemoryFits /\ [Next]_vars => MemoryFits'
  BY InductiveKept, CopiesKept, RoomOfStep DEF MemoryFits, Inductive
<1>3. ASSUME MemoryFits, [Next]_vars
      PROVE  [\A m \in Records \ raced' :
                /\ rec[m].state \in {"forgotten", "superseded"} => rec'[m].state # "active"
                /\ rec[m].state = "active" /\ rec'[m].state = "active" /\ ~SecondTry
                     => Said(rec[m]) \subseteq Said(rec'[m])]_vars
  <2>1. ASSUME NEW m \in Records \ raced' PROVE Moves(m)
    <3>1. raced \subseteq raced'
      BY <1>3 DEF Next, vars
    <3> QED BY <1>3, <2>1, <3>1, CommitMoves, OtherMoves DEF MemoryFits, Inductive
  <2>2. \A m \in Records \ raced' :
          /\ rec[m].state \in {"forgotten", "superseded"} => rec'[m].state # "active"
          /\ rec[m].state = "active" /\ rec'[m].state = "active" /\ ~SecondTry
               => Said(rec[m]) \subseteq Said(rec'[m])
    BY <2>1 DEF Moves
  <2> QED BY <2>2
<1> QED BY <1>3, <1>1, <1>2, PTL DEF Spec, MemoryIsKept
=============================================================================
