--------------------------- MODULE RunLedgerFile ---------------------------
(***************************************************************************)
(* The one file of run records, state/ledger/run_ledger.jsonl, and those   *)
(* who share it: RunLedger of the core (run_ledger.py), which appends and  *)
(* reads under a lock of readers and writers; the ledger bridge of the     *)
(* multi-model alliance (ledger_bridge.py), which appends its rows without *)
(* it; and the routes of the panel (routes/ledger.py), which show all      *)
(* records, or those of a run as numbered events (aggregate.py).           *)
(*                                                                         *)
(* A row is three tokens: the two halves of its text and the end of line.  *)
(* What fits into the buffer reaches the file in one write, the rest in    *)
(* two, and a death or a full disk may leave a part of a write.  Text is   *)
(* utf-8, so a file in which a character has been cut is not read at all;  *)
(* and a snapshot is taken apart by splitlines, which ends a line at       *)
(* U+2028, U+2029 and U+0085 too.  (Such a character is never the last     *)
(* that is left of a row here.)                                            *)
(***************************************************************************)
EXTENDS Integers, Sequences, FiniteSets

CONSTANTS
    Appenders,     \* processes that call RunLedger.append
    Bridges,       \* processes that call append_ledger_records
    Viewers,       \* processes that read
    RecordRuns,    \* the runs that records are about
    RowKinds,      \* [run, long, valid, wide, divided]: more than the buffer takes; a RunRecord;
                   \* a character of several bytes where its halves meet; a divider of splitlines
    MaxLedRows,    \* bound on the rows
    MaxBatch,      \* bound on the rows a bridge appends at once
    LargeFile,     \* tokens from which the file is streamed (50 MiB)
    MaxViews,      \* bound on the reads
    MaxLedFaults   \* bound on deaths and failed writes

ASSUME LedgerFileAssumption ==
    /\ RowKinds \subseteq [run : RecordRuns, long : BOOLEAN, valid : BOOLEAN, wide : BOOLEAN, divided : BOOLEAN]
    /\ {MaxLedRows, MaxBatch, LargeFile, MaxViews, MaxLedFaults} \subseteq Nat
    /\ Viewers \cap (Appenders \cup Bridges) = {}

VARIABLES
    ledRows,   \* the records that somebody set out to append: [kind, by]
    ledFile,   \* the tokens of the file
    ledLock,   \* who has the write lock, at most one
    ledProc,   \* the locals of a call
    ledPast    \* history: rows acknowledged, struck by a fault, pairs that share a line; views, faults

ledVars == <<ledRows, ledFile, ledLock, ledProc, ledPast>>

NoView == [of |-> "none", large |-> FALSE, failed |-> FALSE, events |-> <<>>, acked |-> {}, shared |-> {}]
NoAppend == [at |-> "idle", first |-> 1, last |-> 0, done |-> 0, view |-> NoView]

LedInit ==
    /\ ledRows = <<>> /\ ledFile = <<>> /\ ledLock = {}
    /\ ledProc = [p \in Appenders \cup Bridges \cup Viewers |-> NoAppend]
    /\ ledPast = [acked |-> {}, struck |-> {}, shared |-> {}, views |-> 0, faults |-> 0]

-----------------------------------------------------------------------------
(* The file.                                                               *)

IsEnd(token) == token.part = 3

\* A row that has a line of its own, the last one also without its end.
LineAt(file, i) ==
    /\ i < Len(file) /\ file[i].part = 1 /\ file[i + 1] = [file[i] EXCEPT !.part = 2]
    /\ i > 1 => IsEnd(file[i - 1])
    /\ i + 2 <= Len(file) => IsEnd(file[i + 2])

\* What a question is after: records (model_validate_json), of any run or of one; in a
\* snapshot splitlines makes two lines of a divided one, neither of which is a record.
Sought(of, large, n) ==
    LET kind == ledRows[n].kind IN kind.valid /\ (large \/ ~kind.divided) /\ (of = "all" \/ kind.run = of)

\* The records of the file, line by line; other lines are skipped.
Events(of, large) ==
    LET To[k \in 0..Len(ledFile)] ==
            IF k = 0 THEN <<>>
            ELSE IF LineAt(ledFile, k) /\ Sought(of, large, ledFile[k].row)
                 THEN Append(To[k - 1], ledFile[k].row) ELSE To[k - 1]
    IN  To[Len(ledFile)]

\* No character of the file is cut: the halves of a wide row are together.
Decodes ==
    \A i \in DOMAIN ledFile : ledFile[i].part = 1 /\ ledRows[ledFile[i].row].kind.wide =>
        i < Len(ledFile) /\ ledFile[i + 1] = [ledFile[i] EXCEPT !.part = 2]

\* The rows of a call, and their tokens in the order they are written.
Batch(p) == ledProc[p].first .. ledProc[p].last
Size(p) == 3 * (ledProc[p].last - ledProc[p].first + 1)
Token(p, k) == [row |-> ledProc[p].first + (k - 1) \div 3, part |-> ((k - 1) % 3) + 1]
Piece(p, k) == [j \in 1..k |-> Token(p, ledProc[p].done + j)]

\* One write at the end of the file (O_APPEND).  Behind a line of somebody else that has
\* not been ended, both rows are on one line.
Shares(piece) ==
    LET last == ledFile[Len(ledFile)] IN
    IF piece = <<>> \/ ledFile = <<>> \/ IsEnd(last) \/ last.row = piece[1].row THEN {}
    ELSE {{last.row, piece[1].row}}

-----------------------------------------------------------------------------
(* Appending.                                                              *)

\* RunLedger.append has one record, append_ledger_records a batch; neither has
\* written any of it.
BeginAppend(p) ==
    /\ ledProc[p].at = "idle"
    /\ \E n \in 1..(IF p \in Bridges THEN MaxBatch ELSE 1) : \E kinds \in [1..n -> RowKinds] :
        /\ Len(ledRows) + n <= MaxLedRows
        /\ p \in Appenders => kinds[1].valid
        /\ ledRows' = ledRows \o [k \in 1..n |-> [kind |-> kinds[k], by |-> p]]
        /\ ledProc' = [ledProc EXCEPT ![p].at = IF p \in Appenders THEN "lock" ELSE "write",
                                      ![p].first = Len(ledRows) + 1, ![p].last = Len(ledRows) + n]
    /\ UNCHANGED <<ledFile, ledLock, ledPast>>

\* Faulty variant: the lock is taken without looking who holds it.
AcquireUnlocked(p) ==
    /\ ledProc[p].at = "lock" /\ p \in Appenders
    /\ ledLock' = ledLock \cup {p} /\ ledProc' = [ledProc EXCEPT ![p].at = "write"]
    /\ UNCHANGED <<ledRows, ledFile, ledPast>>

\* The exclusive lock; who waits for it longer than its timeout gives up.
Acquire(p) ==
    /\ ledProc[p].at = "lock" /\ p \in Appenders
    /\ \/ /\ ledLock = {}
          /\ ledLock' = {p} /\ ledProc' = [ledProc EXCEPT ![p].at = "write"]
       \/ /\ ledLock # {}
          /\ ledLock' = ledLock /\ ledProc' = [ledProc EXCEPT ![p] = NoAppend]
    /\ UNCHANGED <<ledRows, ledFile, ledPast>>

\* The buffer is written when it is full and at the end.
WriteSome(p) ==
    LET done == ledProc[p].done IN
    /\ ledProc[p].at = "write"
    /\ \E k \in 1..(Size(p) - done) :
        /\ \/ k = Size(p) - done
           \/ /\ Token(p, done + 1).part = 1
              /\ \E j \in done + 1..Size(p) : ledRows[Token(p, j).row].kind.long
        /\ ledFile' = ledFile \o Piece(p, k)
        /\ ledProc' = [ledProc EXCEPT ![p].done = done + k]
        /\ ledPast' = [ledPast EXCEPT !.shared = ledPast.shared \cup Shares(Piece(p, k))]
    /\ UNCHANGED <<ledRows, ledLock>>

\* Everything is written (and synced, by append): the file is closed and the lock is free.
EndAppend(p) ==
    /\ ledProc[p].at = "write" /\ ledProc[p].done = Size(p)
    /\ ledLock' = ledLock \ {p}
    /\ ledProc' = [ledProc EXCEPT ![p] = NoAppend]
    /\ ledPast' = [ledPast EXCEPT !.acked = ledPast.acked \cup Batch(p)]
    /\ UNCHANGED <<ledRows, ledFile>>

\* The process dies, or a write fails and its exception leaves the call; a part of the
\* write may be in the file, and the lock is free.
Breaks(p) ==
    /\ ledProc[p].at \in {"lock", "write"} /\ ledPast.faults < MaxLedFaults
    /\ \E k \in 0..(Size(p) - ledProc[p].done) :
        /\ ledProc[p].at = "lock" => k = 0
        /\ ledFile' = ledFile \o Piece(p, k)
        /\ ledPast' = [ledPast EXCEPT !.faults = ledPast.faults + 1,
                                      !.struck = ledPast.struck \cup Batch(p),
                                      !.shared = ledPast.shared \cup Shares(Piece(p, k))]
    /\ ledLock' = ledLock \ {p}
    /\ ledProc' = [ledProc EXCEPT ![p] = NoAppend]
    /\ UNCHANGED ledRows

-----------------------------------------------------------------------------
(* Reading.                                                                *)

\* The routes ask for all records, or for those of a run. How the file is read goes by
\* its size before the lock.
AskRecords(p) ==
    /\ ledProc[p].at = "idle" /\ p \in Viewers /\ ledPast.views < MaxViews
    /\ \E of \in RecordRuns \cup {"all"} :
        ledProc' = [ledProc EXCEPT ![p].at = "lock",
                                   ![p].view = [NoView EXCEPT !.of = of, !.large = Len(ledFile) >= LargeFile,
                                                              !.acked = ledPast.acked]]
    /\ ledPast' = [ledPast EXCEPT !.views = ledPast.views + 1]
    /\ UNCHANGED <<ledRows, ledFile, ledLock>>

\* iter_all under the shared lock: a snapshot, or a large file line by line to its end.
\* A UnicodeDecodeError is nobody's: it leaves the call. An aggregate numbers the events
\* of a run by their place; its schema refuses what is too much for it (more than 64
\* models, more than 1000 artifacts, a summary of more than 4096 characters, ...), which
\* here any run with an event may be.
ReadRecords(p) ==
    LET view == ledProc[p].view IN
    /\ ledProc[p].at = "lock" /\ p \in Viewers
    /\ \/ /\ ledLock = {} /\ Decodes
          /\ ledProc' = [ledProc EXCEPT ![p].at = "idle", ![p].view.events = Events(view.of, view.large),
                                        ![p].view.shared = ledPast.shared]
       \/ /\ ledLock = {} /\ ~Decodes
          /\ ledProc' = [ledProc EXCEPT ![p].at = "idle", ![p].view.failed = TRUE]
       \/ /\ \/ ledLock # {}
             \/ Decodes /\ view.of # "all" /\ Events(view.of, view.large) # <<>>
          /\ ledProc' = [ledProc EXCEPT ![p] = NoAppend]
    /\ UNCHANGED <<ledRows, ledFile, ledLock, ledPast>>

LedNext ==
    \/ \E p \in Appenders \cup Bridges :
        BeginAppend(p) \/ Acquire(p) \/ WriteSome(p) \/ EndAppend(p) \/ Breaks(p)
    \/ \E p \in Viewers : AskRecords(p) \/ ReadRecords(p)

LedSpec == LedInit /\ [][LedNext]_ledVars

-----------------------------------------------------------------------------
(* Properties.                                                             *)

Shown(p) == ledProc[p].at = "idle" /\ ledProc[p].view.of # "none"
Answered(p) == Shown(p) /\ ~ledProc[p].view.failed
Unlocked == {n \in DOMAIN ledRows : ledRows[n].by \in Bridges}
OnSharedLines == UNION ledPast.shared

\* "Lines are written one at a time, never interleaved": two rows share a line only
\* where one of them was struck by a fault or comes from the bridge, which takes no lock.
\* Every other record that was acknowledged before a question is in the answer, once and
\* in the order of the file, if it is not one that the snapshot divides. The file cannot
\* be read only on account of a wide row that was struck, comes from the bridge or shares
\* its line: with the lock and without a fault, never. And what was answered once stays:
\* the events of a run keep their numbers as long as no further rows have come to share
\* a line.
RecordsAreKept ==
    /\ \A pair \in ledPast.shared : pair \cap (Unlocked \cup ledPast.struck) # {}
    /\ \A p \in Viewers : ledProc[p].view.failed =>
          \E n \in Unlocked \cup ledPast.struck \cup OnSharedLines : ledRows[n].kind.wide
    /\ \A p \in Viewers : Answered(p) =>
        LET view == ledProc[p].view
            now == Events(view.of, view.large)
        IN  /\ \A n \in view.acked \ OnSharedLines : Sought(view.of, view.large, n) =>
                 Cardinality({k \in DOMAIN view.events : view.events[k] = n}) = 1
            /\ view.shared = ledPast.shared =>
                 \A k \in DOMAIN view.events : k \in DOMAIN now /\ now[k] = view.events[k]
=============================================================================
