----------------------------- MODULE ResultPool -----------------------------
(***************************************************************************)
(* parse_origin_results of the evaluation scripts: the reports are listed, *)
(* cut into chunks and parsed by a multiprocessing pool, and what comes    *)
(* back is merged.  Each worker is a fork with a table of its own          *)
(* (ROI_ORIGIN_STATS, empty at the fork) that lives as long as the pool:   *)
(* parse_file writes into the entry of the report's key that the worker    *)
(* already has, and returns that entry.  A chunk's results are pickled when*)
(* the chunk ends, so the earlier ones show what the later ones wrote.     *)
(* The baseline directory is usually one of the results directories too:   *)
(* its reports are then parsed twice.                                      *)
(*                                                                         *)
(* How map_async cuts and hands out the chunks is the library's; it is     *)
(* modelled from the call.                                                 *)
(***************************************************************************)
EXTENDS Integers, Sequences

CONSTANTS
    Key,        \* <<trace, prefetcher>>
    Cell,       \* <<field, core>>
    Value,      \* what a cell can hold
    Blank,      \* '-'
    Worker,     \* the processes of the pool
    ChunkSize,
    Reading     \* what parse_file can find: [key, kind, cells]

ASSUME BlankAssumption == Blank \in Value

ASSUME ChunkAssumption == ChunkSize \in Nat \ {0}

ASSUME ReadingAssumption ==
    \A r \in Reading :
        /\ r.key \in Key
        /\ r.kind \in {"skipped", "broken", "unreached", "reached"}
        /\ DOMAIN r.cells \subseteq Cell
        /\ \A c \in DOMAIN r.cells : r.cells[c] \in Value

VARIABLES
    files,      \* the readings of all_files, in the order glob gave them
    handed,     \* how many chunks the pool has handed out
    chunk,      \* the chunk each worker is on, 0 when it is idle
    parsed,     \* how many files of it the worker has parsed
    tables,      \* each worker's table: the entries of the keys it has met
    returned,   \* the entries that came back, by position in files
    failed,     \* parse_file raised in some worker
    merged,     \* how many results have been merged
    roi,        \* the parent's table
    rows,       \* its keys, in the order they were inserted
    pool        \* "open", "merging", "done" or "died"

poolVars == <<files, handed, chunk, parsed, tables, returned, failed, merged, roi, rows, pool>>

Min2(a, b) == IF a < b THEN a ELSE b
Chunks == (Len(files) + ChunkSize - 1) \div ChunkSize
FirstOf(k) == (k - 1) * ChunkSize + 1
LastOf(k) == Min2(k * ChunkSize, Len(files))

NewEntry == [c \in Cell |-> Blank]
EntryOf(table, k) == IF k \in DOMAIN table THEN table[k] ELSE NewEntry
Write(entry, cells) == [c \in Cell |-> IF c \in DOMAIN cells THEN cells[c] ELSE entry[c]]
Put(table, k, entry) == [x \in DOMAIN table \union {k} |-> IF x = k THEN entry ELSE table[x]]
Empty == [k \in {} |-> NewEntry]
Nobody == [i \in {} |-> NewEntry]

PoolInit(listing) ==
    /\ files \in listing
    /\ handed = 0
    /\ chunk = [w \in Worker |-> 0]
    /\ parsed = [w \in Worker |-> 0]
    /\ tables = [w \in Worker |-> Empty]
    /\ returned = Nobody
    /\ failed = FALSE
    /\ merged = 0
    /\ roi = Empty
    /\ rows = <<>>
    /\ pool = "open"

TakeChunk(w) ==
    /\ pool = "open"
    /\ chunk[w] = 0
    /\ handed < Chunks
    /\ handed' = handed + 1
    /\ chunk' = [chunk EXCEPT ![w] = handed + 1]
    /\ parsed' = [parsed EXCEPT ![w] = 0]
    /\ UNCHANGED <<files, tables, returned, failed, merged, roi, rows, pool>>

Current(w) == files[FirstOf(chunk[w]) + parsed[w]]

\* parse_file of the next report of the chunk
ParseReport(w) ==
    /\ pool = "open"
    /\ chunk[w] # 0
    /\ FirstOf(chunk[w]) + parsed[w] <= LastOf(chunk[w])
    /\ Current(w).kind # "broken"
    /\ parsed' = [parsed EXCEPT ![w] = @ + 1]
    /\ tables' = IF Current(w).kind = "skipped" THEN tables
                ELSE [tables EXCEPT ![w] =
                        Put(@, Current(w).key, Write(EntryOf(@, Current(w).key), Current(w).cells))]
    /\ UNCHANGED <<files, handed, chunk, returned, failed, merged, roi, rows, pool>>

\* mutant: the worker never gives the failed chunk back
MutParseRaises(w) ==
    /\ pool = "open"
    /\ chunk[w] # 0
    /\ FirstOf(chunk[w]) + parsed[w] <= LastOf(chunk[w])
    /\ Current(w).kind = "broken"
    /\ failed' = TRUE
    /\ UNCHANGED <<files, handed, chunk, parsed, tables, returned, merged, roi, rows, pool>>

\* parse_file raises: the rest of the chunk is lost
ParseRaises(w) ==
    /\ pool = "open"
    /\ chunk[w] # 0
    /\ FirstOf(chunk[w]) + parsed[w] <= LastOf(chunk[w])
    /\ Current(w).kind = "broken"
    /\ failed' = TRUE
    /\ chunk' = [chunk EXCEPT ![w] = 0]
    /\ UNCHANGED <<files, handed, parsed, tables, returned, merged, roi, rows, pool>>

\* mutant: every result of the chunk is the entry of its last report
MutReturnChunk(w) ==
    /\ pool = "open"
    /\ chunk[w] # 0
    /\ FirstOf(chunk[w]) + parsed[w] > LastOf(chunk[w])
    /\ returned' = [i \in DOMAIN returned \union FirstOf(chunk[w])..LastOf(chunk[w]) |->
                        IF i \in DOMAIN returned THEN returned[i]
                        ELSE EntryOf(tables[w], files[LastOf(chunk[w])].key)]
    /\ chunk' = [chunk EXCEPT ![w] = 0]
    /\ UNCHANGED <<files, handed, parsed, tables, failed, merged, roi, rows, pool>>

ReturnChunk(w) ==
    /\ pool = "open"
    /\ chunk[w] # 0
    /\ FirstOf(chunk[w]) + parsed[w] > LastOf(chunk[w])
    /\ returned' = [i \in DOMAIN returned \union FirstOf(chunk[w])..LastOf(chunk[w]) |->
                        IF i \in DOMAIN returned THEN returned[i]
                        ELSE EntryOf(tables[w], files[i].key)]
    /\ chunk' = [chunk EXCEPT ![w] = 0]
    /\ UNCHANGED <<files, handed, parsed, tables, failed, merged, roi, rows, pool>>

\* pool.map returns when every chunk is back, and raises when one failed; the
\* workers and their tables are gone after join
MapReturns ==
    /\ pool = "open"
    /\ handed = Chunks
    /\ \A w \in Worker : chunk[w] = 0
    /\ pool' = IF failed THEN "died" ELSE "merging"
    /\ tables' = [w \in Worker |-> Empty]
    /\ parsed' = [w \in Worker |-> 0]
    /\ UNCHANGED <<files, handed, chunk, returned, failed, merged, roi, rows>>

\* mutant: a report without an IPC line is merged too
MutMergeResult ==
    /\ pool = "merging"
    /\ merged < Len(files)
    /\ merged' = merged + 1
    /\ LET r == files[merged + 1]
       IN  /\ roi' = Put(roi, r.key, returned[merged + 1])
           /\ rows' = IF r.key \in DOMAIN roi THEN rows ELSE Append(rows, r.key)
    /\ UNCHANGED <<files, handed, chunk, parsed, tables, returned, failed, pool>>

\* One result: those without an IPC line are dropped, the last of a key wins.
MergeResult ==
    /\ pool = "merging"
    /\ merged < Len(files)
    /\ merged' = merged + 1
    /\ LET r == files[merged + 1]
       IN  IF r.kind # "reached" THEN UNCHANGED <<roi, rows>>
           ELSE /\ roi' = Put(roi, r.key, returned[merged + 1])
                /\ rows' = IF r.key \in DOMAIN roi THEN rows ELSE Append(rows, r.key)
    /\ UNCHANGED <<files, handed, chunk, parsed, tables, returned, failed, pool>>

MergeEnds ==
    /\ pool = "merging"
    /\ merged = Len(files)
    /\ pool' = "done"
    /\ returned' = Nobody
    /\ UNCHANGED <<files, handed, chunk, parsed, tables, failed, merged, roi, rows>>

WorkerStep(w) == TakeChunk(w) \/ ParseReport(w) \/ ParseRaises(w) \/ ReturnChunk(w)
ParentStep == MapReturns \/ MergeResult \/ MergeEnds
PoolNext == ParentStep \/ \E w \in Worker : WorkerStep(w)

PoolSpec == PoolInit(Seq(Reading)) /\ [][PoolNext]_poolVars
-----------------------------------------------------------------------------
IsReached(r) == r.kind = "reached"
IsRead(r) == r.kind \in {"reached", "unreached"}

\* Whatever the worker a report met, the chunk it was in and the reports
\* parsed before it there: a cell of the merged table was written by a report
\* of its own trace and prefetcher (ROI_ORIGIN_STATS of the worker, parse_file).
NoCrossTalk ==
    \A k \in DOMAIN roi : \A c \in Cell :
        roi[k][c] # Blank =>
            \E i \in DOMAIN files : /\ files[i].key = k
                                    /\ IsRead(files[i])
                                    /\ c \in DOMAIN files[i].cells
                                    /\ roi[k][c] = files[i].cells[c]

\* Reports of one key that were read hold the same: copies of one file, as
\* the baseline directory's when it is listed twice.
CopiesOnly ==
    \A i, j \in DOMAIN files :
        files[i].key = files[j].key /\ IsRead(files[i]) /\ IsRead(files[j])
            => files[i].cells = files[j].cells

\* When a key's reports are copies, the pool is a sequential loop in disguise:
\* the merged table has an entry for exactly the keys whose run finished, and
\* it is that report's, whatever the chunks and the workers' tables did.
SameAsSequential ==
    pool = "done" /\ CopiesOnly =>
        /\ DOMAIN roi = {files[i].key : i \in {j \in DOMAIN files : IsReached(files[j])}}
        /\ \A i \in DOMAIN files :
            IsReached(files[i]) => roi[files[i].key] = Write(NewEntry, files[i].cells)
=============================================================================
