------------------------------- MODULE Recovery -------------------------------
(***************************************************************************)
(* The durable state of one trading pair and its recovery: the write-ahead *)
(* log (wal.go), the snapshot file (snapshot.go) and RegisterPair, which   *)
(* restores the one and replays the other (exchange.go).                   *)
(*                                                                         *)
(* The engine goroutine journals a record and applies it in a second step. *)
(* Savers (the snapshot tickers of the binaries, the admin endpoint) read  *)
(* the log's sequence number, copy the book and write the snapshot file,   *)
(* each a step of its own; they share one temporary file.  The book is     *)
(* what has been applied to it, in order.  Errors of the file system other *)
(* than those of a closed log and of a missing temporary file are left out.*)
(***************************************************************************)
EXTENDS Naturals, Sequences, FiniteSets, SequencesExt

CONSTANTS
    Ops,         \* orders and cancels, a record each
    NoOp,
    Savers,      \* goroutines that call Snapshot
    MaxCrashes,  \* bound: how often the process goes down
    MaxSaves     \* bound: snapshots started

ASSUME RecoveryAssumption ==
    NoOp \notin Ops /\ MaxCrashes \in Nat /\ MaxSaves \in Nat

VARIABLES
    file,      \* the lines of the log file
    torn,      \* the file ends in a fragment of a line
    synced,    \* lines known to be on stable storage
    seq,       \* w.seq
    open,      \* the log accepts writes
    pc,        \* the engine: "down", "idle" or "journaled"
    cur,       \* the record in progress
    book,      \* what has been applied to the order book
    snap, tmp, \* the snapshot file and the temporary file
    spc, copy, handle, \* each saver: its step, its copy, the file it holds open
    logged,    \* history: the records appended to the log, oldest first
    faults,    \* history: what went wrong so far
    crashes, saves

logVars   == <<file, torn, synced, seq, open>>
engine    == <<pc, cur, book>>
saverVars == <<spc, copy, handle, saves>>
fileVars  == <<snap, tmp>>
vars == <<logVars, engine, saverVars, fileVars, logged, faults, crashes>>

Line(n, o) == [seq |-> n, op |-> o]

\* A line that does not unmarshal.
Corrupt == Line(0, NoOp)

Lines == [seq : Nat, op : Ops \cup {NoOp}]

Missing == [state |-> "missing", lastSeq |-> 0, book |-> <<>>]
Unreadable == [state |-> "unreadable", lastSeq |-> 0, book |-> <<>>]
Snapshot(n, b) == [state |-> "readable", lastSeq |-> n, book |-> b]

SnapshotFiles == [state : {"missing", "unreadable", "readable"}, lastSeq : Nat, book : Seq(Ops)]

-------------------------------------------------------------------------------
(* The engine goroutine.                                                    *)

\* A record appended after a fragment ends up on the fragment's line.
AppendedLine(n, o) == IF torn THEN Corrupt ELSE Line(n, o)

\* AppendOrder, AppendCancel: flushed to the file, never synced.
AppendRecord(o) ==
    /\ pc = "idle" /\ open
    /\ o \notin Range(logged) \cup Range(book)
    /\ seq' = seq + 1
    /\ file' = Append(file, AppendedLine(seq + 1, o))
    /\ torn' = FALSE
    /\ logged' = Append(logged, o)
    /\ pc' = "journaled" /\ cur' = o
    /\ UNCHANGED <<synced, open, book, saverVars, fileVars, faults, crashes>>

\* Stop has closed the log under an engine that still has orders in its batch:
\* the error is logged and the order is processed all the same.
AppendFails(o) ==
    /\ pc = "idle" /\ ~open
    /\ o \notin Range(logged) \cup Range(book)
    /\ seq' = seq + 1
    /\ pc' = "journaled" /\ cur' = o
    /\ faults' = faults \cup {"late"}
    /\ UNCHANGED <<file, torn, synced, open, book, saverVars, fileVars, logged, crashes>>

Apply ==
    /\ pc = "journaled"
    /\ book' = Append(book, cur)
    /\ pc' = "idle" /\ cur' = NoOp
    /\ UNCHANGED <<logVars, saverVars, fileVars, logged, faults, crashes>>

\* Close syncs the log before it closes it.
Stop ==
    /\ pc # "down" /\ open
    /\ open' = FALSE
    /\ synced' = Len(file)
    /\ UNCHANGED <<file, torn, seq, engine, saverVars, fileVars, logged, faults, crashes>>

-------------------------------------------------------------------------------
(* Savers.                                                                  *)

SaverAt(s, l) == pc # "down" /\ spc[s] = l

\* e.wal.Seq(), under the log's mutex only.
ReadSeq(s) ==
    /\ SaverAt(s, "idle") /\ saves < MaxSaves
    /\ saves' = saves + 1
    /\ copy' = [copy EXCEPT ![s] = Snapshot(seq, <<>>)]
    /\ spc' = [spc EXCEPT ![s] = "copy"]
    /\ UNCHANGED <<logVars, engine, handle, fileVars, logged, faults, crashes>>

\* What a snapshot that claims the first n records should hold.
Reflects(c) ==
    c.lastSeq <= Len(logged) /\ c.book = SubSeq(logged, 1, c.lastSeq)

\* OrderBook.Snapshot, under the book's lock.
CopyBook(s) ==
    /\ SaverAt(s, "copy")
    /\ copy' = [copy EXCEPT ![s].book = book]
    /\ faults' = IF Reflects(copy'[s]) THEN faults ELSE faults \cup {"raced"}
    /\ spc' = [spc EXCEPT ![s] = "open"]
    /\ UNCHANGED <<logVars, engine, handle, saves, fileVars, logged, crashes>>

\* O_CREATE|O_TRUNC: a temporary file another saver still writes is emptied.
OpenTmp(s) ==
    /\ SaverAt(s, "open")
    /\ tmp' = Unreadable
    /\ handle' = [handle EXCEPT ![s] = "tmp"]
    /\ spc' = [spc EXCEPT ![s] = "write"]
    /\ UNCHANGED <<logVars, engine, copy, saves, snap, logged, faults, crashes>>

\* What a file holds after a saver writes its copy at the start of it: another
\* saver's longer text may stick out behind it.
Overwrite(old, new) == IF old.state = "readable" THEN {new, Unreadable} ELSE {new}

WriteTmp(s) ==
    /\ SaverAt(s, "write")
    /\ \/ handle[s] = "tmp" /\ tmp' \in Overwrite(tmp, copy[s]) /\ UNCHANGED snap
       \/ handle[s] = "snap" /\ snap' \in Overwrite(snap, copy[s]) /\ UNCHANGED tmp
       \/ handle[s] = "none" /\ UNCHANGED <<snap, tmp>>
    /\ spc' = [spc EXCEPT ![s] = "rename"]
    /\ UNCHANGED <<logVars, engine, copy, handle, saves, logged, faults, crashes>>

\* Rename moves the file under every saver that holds it open; with no
\* temporary file it fails.
Rename(s) ==
    /\ SaverAt(s, "rename")
    /\ spc' = [spc EXCEPT ![s] = "idle"]
    /\ IF tmp = Missing
       THEN /\ handle' = [handle EXCEPT ![s] = "none"]
            /\ UNCHANGED fileVars
       ELSE /\ snap' = tmp /\ tmp' = Missing
            /\ handle' = [x \in Savers |->
                  IF x # s /\ handle[x] = "tmp" THEN "snap" ELSE "none"]
    /\ UNCHANGED <<logVars, engine, copy, saves, logged, faults, crashes>>

-------------------------------------------------------------------------------
(* Failures and recovery.                                                   *)

GoDown ==
    /\ pc # "down" /\ crashes < MaxCrashes
    /\ pc' = "down" /\ cur' = NoOp /\ book' = <<>> /\ seq' = 0 /\ open' = FALSE
    /\ crashes' = crashes + 1
    /\ spc' = [s \in Savers |-> "idle"] /\ handle' = [s \in Savers |-> "none"]
    /\ copy' = [s \in Savers |-> Missing]
    /\ UNCHANGED <<saves, fileVars, logged>>

\* The process dies; what it wrote stays.
Crash ==
    /\ GoDown
    /\ UNCHANGED <<file, torn, synced, faults>>

\* The machine dies: any unsynced suffix of the log may go, and leave a fragment.
PowerLoss ==
    /\ GoDown
    /\ \E n \in synced..Len(file) :
          /\ n < Len(file)
          /\ file' = SubSeq(file, 1, n)
          /\ torn' \in BOOLEAN
    /\ faults' = faults \cup {"power"}
    /\ UNCHANGED synced

\* countWALRecords: the lines that unmarshal.
CountRecords == Cardinality({i \in DOMAIN file : file[i] # Corrupt})

NextWALSeq == IF snap.state = "readable" THEN snap.lastSeq + 1 ELSE 0

LastWALSeq == IF snap.state = "readable" THEN snap.lastSeq ELSE 0

\* OrderBook.Restore: the snapshot's orders replace the book; without a readable
\* snapshot recoverPair leaves the book empty.
Restored == IF snap.state = "readable" THEN snap.book ELSE <<>>

\* Replay passes on the lines that unmarshal; replayWAL skips what the snapshot
\* is assumed to reflect.
Replayed(l) == l # Corrupt /\ l.seq > LastWALSeq

\* WALReader.Replay: what the first n lines of the file give, in their order.
ReplayOf[n \in 0..Len(file)] ==
    IF n = 0 THEN <<>>
    ELSE IF Replayed(file[n]) THEN Append(ReplayOf[n - 1], file[n].op) ELSE ReplayOf[n - 1]

Replay == ReplayOf[Len(file)]

NewWALWriter ==
    /\ seq' = CountRecords
    /\ open' = TRUE
    /\ UNCHANGED <<file, torn, synced>>

\* RegisterPair: NewWALWriter, recoverPair, Start.
Recover ==
    /\ pc = "down"
    /\ NewWALWriter
    /\ book' = Restored \o Replay
    /\ pc' = "idle"
    /\ UNCHANGED <<cur, saverVars, fileVars, logged, faults, crashes>>

-------------------------------------------------------------------------------

Init ==
    /\ file = <<>> /\ torn = FALSE /\ synced = 0 /\ seq = 0 /\ open = FALSE
    /\ pc = "down" /\ cur = NoOp /\ book = <<>>
    /\ snap = Missing /\ tmp = Missing
    /\ spc = [s \in Savers |-> "idle"] /\ copy = [s \in Savers |-> Missing]
    /\ handle = [s \in Savers |-> "none"]
    /\ logged = <<>> /\ faults = {} /\ crashes = 0 /\ saves = 0

Save(s) == ReadSeq(s) \/ CopyBook(s) \/ OpenTmp(s) \/ WriteTmp(s) \/ Rename(s)

Next ==
    \/ \E o \in Ops : AppendRecord(o) \/ AppendFails(o)
    \/ Apply \/ Stop
    \/ \E s \in Savers : Save(s)
    \/ Crash \/ PowerLoss \/ Recover

Spec == Init /\ [][Next]_vars

-------------------------------------------------------------------------------
(* Properties.                                                              *)

\* With snapshots that reflect the records they claim, and a log that loses
\* none, the book is what the log says, record by record, after any number of
\* crashes: also when savers ruin each other's files, or fall behind each other.
\* A snapshot taken beside a working engine costs each crash at most the one record
\* that was journaled and not applied.
RecoveredExactly ==
    /\ faults = {} /\ pc # "down" =>
          book = IF pc = "idle" THEN logged ELSE Front(logged)
    /\ faults \subseteq {"raced"} /\ pc # "down" =>
          Cardinality(Range(logged) \ (Range(book) \cup {cur})) <= crashes

===============================================================================
