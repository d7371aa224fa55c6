------------------------------ MODULE AdbPairs ------------------------------
(***************************************************************************)
(* One direction of the socket pairs adb emulates on Windows               *)
(* (sysdeps_win32.c): a circular buffer of two regions, two manual-reset   *)
(* events, a writing and a reading thread, and a close that takes no lock. *)
(* The reader is a transport thread that blocks in bip_buffer_read, or the *)
(* event loop, which waits on the handle of the read event first.          *)
(***************************************************************************)
EXTENDS Integers, Sequences

CONSTANTS Size,      \* BIP_BUFFER_SIZE
          MaxWritten \* bound: bytes ever written

VARIABLES
    buff, aStart, aEnd, bEnd,
    canRead, canWrite,      \* guarded by the lock
    evtRead, evtWrite,      \* the events, set and reset apart from them
    lock, closed,
    wpc, rpc, cpc,          \* writer, reader, closer
    mode,                   \* of the reader: "thread", "loop"
    written, got            \* bytes written, bytes read, in order

pvars == <<buff, aStart, aEnd, bEnd, canRead, canWrite, evtRead, evtWrite, lock, closed, wpc, rpc,
           cpc, mode, written, got>>

MinOf(a, b) == IF a < b THEN a ELSE b
\* buff with n bytes from the stream put at position p.
Put(b, p, n, from) == [i \in DOMAIN b |-> IF i >= p /\ i < p + n THEN from + (i - p) ELSE b[i]]
Slice(b, p, n) == [i \in 1..n |-> b[p + i - 1]]
Held == Slice(buff, aStart, aEnd - aStart) \o Slice(buff, 0, bEnd)

-----------------------------------------------------------------------------
\* bip_buffer_write: wait until can_write, ...
WriteEnter ==
    /\ wpc = "enter" /\ lock = "none" /\ written < MaxWritten
    /\ IF canWrite THEN wpc' = "copy" /\ lock' = "writer" ELSE wpc' = (IF closed THEN "end" ELSE "wait") /\ UNCHANGED lock
    /\ UNCHANGED <<buff, aStart, aEnd, bEnd, canRead, canWrite, evtRead, evtWrite, closed, rpc, cpc,
                   mode, written, got>>

WriteWait ==
    /\ wpc = "wait" /\ evtWrite /\ wpc' = IF closed THEN "end" ELSE "enter"
    /\ UNCHANGED <<buff, aStart, aEnd, bEnd, canRead, canWrite, evtRead, evtWrite, lock, closed, rpc,
                   cpc, mode, written, got>>

\* ... fill region A to the end of the buffer, then region B up to A.
WriteCopy_Slip(len) ==
    LET n == MinOf(len, Size - aEnd)
        m == MinOf(len - n, aStart - bEnd)
    IN  /\ wpc = "copy" /\ wpc' = "leave"
        /\ buff' = Put(Put(buff, aEnd, n, written + 1), bEnd, m, written + n + 1)
        /\ aEnd' = aEnd + n /\ bEnd' = bEnd + m /\ written' = written + n + m
        /\ canWrite' = ~(bEnd' = aStart)
        /\ UNCHANGED <<aStart, canRead, evtRead, evtWrite, lock, closed, rpc, cpc, mode, got>>

WriteCopy(len) ==
    LET n == MinOf(len, Size - aEnd)
        full == n > 0 /\ aEnd + n = Size /\ aStart = 0
        m == IF full THEN 0 ELSE MinOf(len - n, aStart - bEnd)
    IN  /\ wpc = "copy" /\ wpc' = "leave"
        /\ buff' = Put(Put(buff, aEnd, n, written + 1), bEnd, m, written + n + 1)
        /\ aEnd' = aEnd + n /\ bEnd' = bEnd + m /\ written' = written + n + m
        /\ canWrite' = ~(full \/ (m > 0 /\ bEnd' = aStart))
        /\ UNCHANGED <<aStart, canRead, evtRead, evtWrite, lock, closed, rpc, cpc, mode, got>>

WriteLeave ==
    /\ wpc = "leave" /\ wpc' = "enter" /\ lock' = "none"
    /\ evtWrite' = (evtWrite /\ canWrite)
    /\ canRead' = TRUE /\ evtRead' = (evtRead \/ ~canRead)
    /\ UNCHANGED <<buff, aStart, aEnd, bEnd, canWrite, closed, rpc, cpc, mode, written, got>>

-----------------------------------------------------------------------------
\* fdevent_process with the hooks of a socket pair: ready at once if there is
\* something to read, else the read event is waited for.
event_socketpair_peek == canRead
LoopWait ==
    /\ rpc = "poll" /\ (event_socketpair_peek \/ evtRead) /\ rpc' = "enter"
    /\ UNCHANGED <<buff, aStart, aEnd, bEnd, canRead, canWrite, evtRead, evtWrite, lock, closed, wpc,
                   cpc, mode, written, got>>

\* bip_buffer_read: wait until can_read, ...
ReadEnter ==
    /\ rpc = "enter" /\ lock = "none"
    /\ IF canRead THEN rpc' = "copy" /\ lock' = "reader" ELSE rpc' = (IF closed THEN "end" ELSE "wait") /\ UNCHANGED lock
    /\ UNCHANGED <<buff, aStart, aEnd, bEnd, canRead, canWrite, evtRead, evtWrite, closed, wpc, cpc,
                   mode, written, got>>

ReadWait ==
    /\ rpc = "wait" /\ evtRead /\ rpc' = IF closed THEN "end" ELSE "enter"
    /\ UNCHANGED <<buff, aStart, aEnd, bEnd, canRead, canWrite, evtRead, evtWrite, lock, closed, wpc,
                   cpc, mode, written, got>>

\* ... empty region A; when it is through, B becomes A.
ReadCopy(len) ==
    LET n == MinOf(len, aEnd - aStart)
        over == aStart + n = aEnd
        m == IF over THEN MinOf(len - n, bEnd) ELSE 0
        empty == over /\ m = bEnd
    IN  /\ rpc = "copy" /\ rpc' = IF empty THEN "reset" ELSE "leave"
        /\ got' = got \o Slice(buff, aStart, n) \o Slice(buff, 0, m)
        /\ aStart' = IF empty THEN 0 ELSE IF over THEN m ELSE aStart + n
        /\ aEnd' = IF empty THEN 0 ELSE IF over THEN bEnd ELSE aEnd
        /\ bEnd' = IF over THEN 0 ELSE bEnd
        /\ canRead' = ~empty
        /\ UNCHANGED <<buff, canWrite, evtRead, evtWrite, lock, closed, wpc, cpc, mode, written>>

ReadReset ==
    /\ rpc = "reset" /\ rpc' = "leave" /\ evtRead' = FALSE
    /\ UNCHANGED <<buff, aStart, aEnd, bEnd, canRead, canWrite, evtWrite, lock, closed, wpc, cpc, mode,
                   written, got>>

ReadLeave_Slip ==
    /\ rpc = "leave" /\ rpc' = (IF mode = "loop" THEN "poll" ELSE "enter") /\ lock' = "none"
    /\ canWrite' = TRUE
    /\ UNCHANGED <<buff, aStart, aEnd, bEnd, canRead, evtRead, evtWrite, closed, wpc, cpc, mode, written, got>>

ReadLeave ==
    /\ rpc = "leave" /\ rpc' = (IF mode = "loop" THEN "poll" ELSE "enter") /\ lock' = "none"
    /\ canWrite' = TRUE /\ evtWrite' = (evtWrite \/ ~canWrite)
    /\ UNCHANGED <<buff, aStart, aEnd, bEnd, canRead, evtRead, closed, wpc, cpc, mode, written, got>>

-----------------------------------------------------------------------------
\* bip_buffer_close, without the lock: closed first, then the events.
CloseMark ==
    /\ cpc = "open" /\ closed' = TRUE /\ cpc' = "signal"
    /\ UNCHANGED <<buff, aStart, aEnd, bEnd, canRead, canWrite, evtRead, evtWrite, lock, wpc, rpc,
                   mode, written, got>>

CloseSignal ==
    /\ cpc = "signal" /\ cpc' = "done"
    /\ evtRead' = (evtRead \/ ~canRead) /\ evtWrite' = (evtWrite \/ ~canWrite)
    /\ UNCHANGED <<buff, aStart, aEnd, bEnd, canRead, canWrite, lock, closed, wpc, rpc, mode, written,
                   got>>

bip_buffer_init ==
    /\ buff = [i \in 0..(Size - 1) |-> 0] /\ aStart = 0 /\ aEnd = 0 /\ bEnd = 0
    /\ canRead = FALSE /\ canWrite = TRUE /\ evtRead = FALSE /\ evtWrite = TRUE
    /\ closed = FALSE

\* adb_socketpair.
Init ==
    /\ bip_buffer_init
    /\ lock = "none" /\ wpc = "enter" /\ cpc = "open"
    /\ mode \in {"thread", "loop"} /\ rpc = (IF mode = "loop" THEN "poll" ELSE "enter")
    /\ written = 0 /\ got = <<>>

Writer == WriteEnter \/ WriteWait \/ WriteLeave \/ \E len \in 1..Size : WriteCopy(len)
Reader == LoopWait \/ ReadEnter \/ ReadWait \/ ReadReset \/ ReadLeave \/ \E len \in 1..Size : ReadCopy(len)
Closer == CloseMark \/ CloseSignal
Next == Writer \/ Reader \/ Closer

-----------------------------------------------------------------------------
\* Bytes come out in the order they went in and none is lost or repeated
\* inside the buffer, wherever the regions lie and however reads and writes
\* are cut; when nobody holds the lock the flags say what the buffer holds.
BipFifo ==
    /\ wpc # "copy" => got \o Held = [i \in 1..written |-> i]
    /\ lock = "none" => /\ canRead = (Held # <<>>)
                        /\ canWrite = (Len(Held) < Size)
    /\ bEnd <= aStart

\* What it rests on: the lock is held by who is inside; region B lies below
\* region A and there is one only when A reaches the end of the buffer; the
\* bytes lie in the regions in the order of the stream; the flags are right
\* but for the one that the thread inside is about to set.
LockHeld ==
    /\ lock \in {"none", "writer", "reader"}
    /\ wpc \in {"copy", "leave"} <=> lock = "writer"
    /\ rpc \in {"copy", "reset", "leave"} <=> lock = "reader"
Regions ==
    /\ 0 <= bEnd /\ bEnd <= aStart /\ aStart <= aEnd /\ aEnd <= Size
    /\ bEnd > 0 => aEnd = Size
    /\ aStart = aEnd => aStart = 0
BytesInPlace ==
    /\ Len(got) + (aEnd - aStart) + bEnd = written
    /\ \A i \in 1 .. Len(got) : got[i] = i
    /\ \A i \in aStart .. aEnd - 1 : buff[i] = Len(got) + (i - aStart) + 1
    /\ \A i \in 0 .. bEnd - 1 : buff[i] = Len(got) + (aEnd - aStart) + i + 1
FlagsKnown ==
    /\ IF wpc = "leave" THEN aEnd > aStart ELSE canRead <=> aEnd > aStart
    /\ IF rpc \in {"reset", "leave"} THEN ~(aEnd = Size /\ bEnd = aStart)
       ELSE canWrite <=> ~(aEnd = Size /\ bEnd = aStart)
    /\ wpc = "copy" => canWrite
    /\ rpc = "copy" => canRead

\* What may not last: a writer that waits for room at a reader that reads, and
\* a blocking reader after the close.
WriterBlocked == mode = "thread" /\ wpc = "wait"
ReaderBlocked == mode = "thread" /\ cpc = "done" /\ rpc # "end"

=============================================================================
