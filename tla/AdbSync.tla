------------------------------ MODULE AdbSync ------------------------------
(***************************************************************************)
(* File transfer of adb: the client's push, pull, sync and ls              *)
(* (file_sync_client.c) against the service in the recovery                *)
(* (file_sync_service.c), through a stream that can break.  A file of the  *)
(* device is the sequence of its blocks, each an old one or one of this    *)
(* transfer.                                                               *)
(***************************************************************************)
EXTENDS Integers, Sequences

CONSTANTS Files,      \* the files 1 .. Files
          Links,      \* those that are symbolic links, of one block
          Blocks,     \* blocks of the others
          Cap,        \* bound: messages a stream holds
          MaxTrouble  \* bound: failing reads, writes and opens

VARIABLES
    cmd,      \* "push", "sync", "pull", "ls"
    cpc,      \* the client
    at,       \* the file it is at
    n,        \* blocks of it done
    skip,     \* files with ci->flag set
    spc,      \* the service: "cmd", "data", "fetch", "list", "closed"
    cur,      \* [f, n, fd]: the file it is at, blocks done, fd >= 0
    up, down, \* the stream, to the service and back
    cut,
    remote,   \* the files the device has, each with its blocks
    local,    \* the files a pull made, each with the number of its blocks
    kept,     \* files that an unlink of the service failed to remove
    short,    \* a file or directory could not be read, and nobody was told
    said,     \* "failed to copy" was printed
    trouble

yvars == <<cmd, cpc, at, n, skip, spc, cur, up, down, cut, remote, local, kept, short, said, trouble>>

\* The list local_build_list makes of a directory.
F == 1 .. Files
BlocksOf(f) == IF f \in Links THEN 1 ELSE Blocks
M(id, f) == [id |-> id, f |-> f]

New(f) == [k \in 1 .. BlocksOf(f) |-> "new"]
OldFiles(f) == {<<"old">>} \cup (IF f \in Links THEN {} ELSE {<<"old", "old", "old">>})
Put(files, f, c) == [g \in DOMAIN files \cup {f} |-> IF g = f THEN c ELSE files[g]]
Drop(files, f) == [g \in DOMAIN files \ {f} |-> files[g]]

Client == <<cmd, cpc, at, n, skip, local, said>>
Service == <<spc, cur, remote, kept>>
CanPut(ch) == ~cut /\ Len(ch) < Cap
Fault == trouble < MaxTrouble /\ trouble' = trouble + 1
End(r) == cpc' = r /\ UNCHANGED <<at, n>>

-----------------------------------------------------------------------------
\* What the client does once it is through with file f.
NextFile(f) ==
    IF f < Files THEN cpc' = (IF cmd = "pull" THEN "recv" ELSE "send") /\ at' = f + 1 /\ n' = 0
                 ELSE cpc' = "ok" /\ UNCHANGED <<at, n>>

\* copy_local_dir_remote with checktimestamps: all the STAT requests first, ...
StatRequest ==
    /\ cpc = "stat" /\ CanPut(up) /\ up' = Append(up, M("STAT", at))
    /\ IF at < Files THEN at' = at + 1 /\ UNCHANGED cpc ELSE at' = 1 /\ cpc' = "stats"
    /\ UNCHANGED <<cmd, n, skip, local, said, Service, down, cut, short, trouble>>

\* ... then all the answers.  The size and the time tell what is unchanged; of
\* a link the time only has to be later, whatever it points to now.
Unchanged(f) ==
    f \in DOMAIN remote /\ (remote[f] = New(f) \/ (f \in Links /\ Len(remote[f]) = BlocksOf(f)))

StatReply ==
    /\ cpc = "stats" /\ down # <<>> /\ down' = Tail(down)
    /\ IF Head(down).id # "STAT" THEN End("failed") /\ UNCHANGED skip
       ELSE /\ skip' \in {skip} \cup (IF Unchanged(at) THEN {skip \cup {at}} ELSE {})
            /\ IF at < Files THEN at' = at + 1 /\ UNCHANGED cpc ELSE at' = 1 /\ cpc' = "send"
            /\ UNCHANGED n
    /\ UNCHANGED <<cmd, local, said, Service, up, cut, short, trouble>>

SendSkip ==
    /\ cpc \in {"send", "recv"} /\ at \in skip /\ NextFile(at)
    /\ UNCHANGED <<cmd, skip, local, said, Service, up, down, cut, short, trouble>>

SendRequest ==
    /\ cpc = "send" /\ at \notin skip /\ CanPut(up) /\ up' = Append(up, M("SEND", at))
    /\ cpc' = "data" /\ n' = 0
    /\ UNCHANGED <<cmd, at, skip, local, said, Service, down, cut, short, trouble>>

\* write_data_file: an error of the local file ends the loop like its end;
\* DONE follows in either case.
SendData ==
    /\ cpc = "data" /\ CanPut(up)
    /\ \/ /\ n < BlocksOf(at) /\ up' = Append(up, M("DATA", at)) /\ n' = n + 1
          /\ UNCHANGED <<cpc, short, trouble>>
       \/ /\ n = BlocksOf(at) /\ up' = Append(up, M("DONE", at)) /\ cpc' = "status"
          /\ UNCHANGED <<n, short, trouble>>
       \/ /\ n < BlocksOf(at) /\ Fault /\ short' = TRUE
          /\ up' = Append(up, M("DONE", at)) /\ cpc' = "status" /\ UNCHANGED n
    /\ UNCHANGED <<cmd, at, skip, local, said, Service, down, cut>>

SendStatus ==
    /\ cpc = "status" /\ down # <<>> /\ down' = Tail(down)
    /\ IF Head(down).id = "OKAY" THEN NextFile(at) /\ UNCHANGED said
                                 ELSE End("failed") /\ said' = TRUE
    /\ UNCHANGED <<cmd, skip, local, Service, up, cut, short, trouble>>

\* sync_ls, for "ls" and for the file list of a directory that is pulled.
ListRequest ==
    /\ cpc = "list" /\ CanPut(up) /\ up' = Append(up, M("LIST", 0)) /\ cpc' = "dents"
    /\ UNCHANGED <<cmd, at, n, skip, local, said, Service, down, cut, short, trouble>>

ListReply ==
    /\ cpc = "dents" /\ down # <<>> /\ down' = Tail(down)
    /\ \/ Head(down).id = "DENT" /\ skip' = skip \ {Head(down).f} /\ UNCHANGED <<cpc, at, n>>
       \/ /\ Head(down).id = "DONE" /\ UNCHANGED skip
          /\ cpc' = (IF cmd = "ls" THEN "ok" ELSE "recv") /\ at' = 1 /\ n' = 0
       \/ Head(down).id \notin {"DENT", "DONE"} /\ End("failed") /\ UNCHANGED skip
    /\ UNCHANGED <<cmd, local, said, Service, up, cut, short, trouble>>

RecvRequest ==
    /\ cpc = "recv" /\ at \notin skip /\ CanPut(up) /\ up' = Append(up, M("RECV", at)) /\ cpc' = "fetch"
    /\ UNCHANGED <<cmd, at, n, skip, local, said, Service, down, cut, short, trouble>>

\* sync_recv.  The file is made anew at the first answer; a failure the
\* service reports removes it again, and counts as done.
RecvData ==
    /\ cpc = "fetch" /\ down # <<>> /\ down' = Tail(down)
    /\ LET id == Head(down).id
       IN  \/ /\ id = "DATA" /\ n' = n + 1 /\ local' = Put(local, at, n + 1)
              /\ UNCHANGED <<cpc, at, said, trouble>>
           \/ id = "DATA" /\ Fault /\ End("failed") /\ UNCHANGED <<local, said>>
           \/ /\ id = "DONE" /\ local' = Put(local, at, n)
              /\ NextFile(at) /\ UNCHANGED <<said, trouble>>
           \/ /\ id \notin {"DATA", "DONE"} /\ local' = Drop(local, at)
              /\ said' = TRUE /\ NextFile(at) /\ UNCHANGED trouble
    /\ UNCHANGED <<cmd, skip, Service, up, cut, short>>

\* A write fails once the stream or the service is gone, a read once there is
\* nothing left either.
ClientLoses ==
    /\ cpc \notin {"ok", "failed"} /\ (cut \/ spc = "closed")
    /\ cpc \in {"status", "stats", "dents", "fetch"} => down = <<>>
    /\ End("failed")
    /\ UNCHANGED <<cmd, skip, local, said, Service, up, down, cut, short, trouble>>

\* The last thing a client writes.
sync_quit == cpc \in {"ok", "failed"}

-----------------------------------------------------------------------------
Answer(m) == CanPut(down) /\ down' = Append(down, m)
Take == up # <<>> /\ up' = Tail(up)
InService == UNCHANGED <<Client, cut>>

\* adb_unlink, whose result nobody looks at.
Unlink(f) ==
    \/ remote' = Drop(remote, f) /\ UNCHANGED kept
    \/ f \in DOMAIN remote /\ kept' = kept \cup {f} /\ UNCHANGED remote

\* do_send removes the file first.  handle_send_file makes a new one, or opens
\* the one still there without cutting it; a failing open is answered at once.
do_send(f) ==
    /\ spc' = "data"
    /\ \/ /\ \/ remote' = (IF f \in Links THEN Drop(remote, f) ELSE Put(remote, f, <<>>))
                /\ UNCHANGED kept
             \/ f \in DOMAIN remote /\ kept' = kept \cup {f} /\ UNCHANGED remote
          /\ cur' = [f |-> f, n |-> 0, fd |-> TRUE] /\ UNCHANGED <<down, trouble>>
       \/ /\ f \notin Links /\ Fault /\ Answer(M("FAIL", f)) /\ Unlink(f)
          /\ cur' = [f |-> f, n |-> 0, fd |-> FALSE]

\* file_sync_service, one request.
Request ==
    /\ spc = "cmd" /\ Take
    /\ LET m == Head(up)
           begin(f) == cur' = [f |-> f, n |-> 0, fd |-> TRUE] /\ UNCHANGED <<down, remote, kept>>
       IN  \/ /\ m.id = "STAT" /\ Answer(m)
              /\ UNCHANGED <<Service, short, trouble>>
           \/ /\ m.id = "LIST" /\ spc' = "list" /\ begin(1)
              /\ UNCHANGED <<short, trouble>>
           \/ /\ m.id = "LIST" /\ spc' = "list" /\ begin(Files + 1)       \* opendir fails
              /\ Fault /\ short' = TRUE
           \/ m.id = "SEND" /\ do_send(m.f) /\ UNCHANGED short
           \/ /\ m.id = "RECV" /\ m.f \in DOMAIN remote /\ spc' = "fetch" /\ begin(m.f)
              /\ UNCHANGED <<short, trouble>>
           \/ /\ m.id = "RECV" /\ Fault /\ Answer(M("FAIL", m.f))
              /\ UNCHANGED <<Service, short>>
    /\ InService

\* handle_send_file: data goes on being read when the file could not be
\* opened or written, so that the next request is found behind it.
WriteFails_Slip(f) ==
    /\ Answer(M("FAIL", f)) /\ UNCHANGED <<remote, kept>>
    /\ cur' = [cur EXCEPT !.fd = FALSE] /\ UNCHANGED spc

WriteFails(f) ==
    /\ Answer(M("FAIL", f)) /\ Unlink(f)
    /\ cur' = [cur EXCEPT !.fd = FALSE] /\ UNCHANGED spc

\* What the file is once k of its blocks were written from its beginning.
Overwritten(c, k) == [i \in 1 .. (IF Len(c) > k THEN Len(c) ELSE k) |-> IF i <= k THEN "new" ELSE c[i]]

SendFile ==
    /\ spc = "data" /\ cur.f \notin Links /\ Take
    /\ LET f == cur.f
           m == Head(up)
       IN  \/ /\ m.id = "DATA" /\ cur.fd
              /\ cur' = [cur EXCEPT !.n = @ + 1]
              /\ remote' = Put(remote, f, Overwritten(remote[f], cur.n + 1))
              /\ UNCHANGED <<spc, kept, down, trouble>>
           \/ m.id = "DATA" /\ cur.fd /\ Fault /\ WriteFails(f)
           \/ m.id = "DATA" /\ ~cur.fd /\ UNCHANGED <<Service, down, trouble>>
           \/ /\ m.id = "DONE" /\ spc' = "cmd" /\ UNCHANGED <<cur, remote, kept, trouble>>
              /\ IF cur.fd THEN Answer(M("OKAY", f)) ELSE UNCHANGED down
           \/ /\ m.id \notin {"DATA", "DONE"} /\ Answer(M("FAIL", f)) /\ spc' = "closed"
              /\ Unlink(f) /\ UNCHANGED <<cur, trouble>>
    /\ InService /\ UNCHANGED short

\* handle_send_link: one block, then DONE; any failure ends the service, and
\* a file still there is one.
SendLink ==
    /\ spc = "data" /\ cur.f \in Links /\ Take
    /\ LET f == cur.f
           m == Head(up)
       IN  \/ /\ m.id = "DATA" /\ cur.n = 0 /\ f \notin DOMAIN remote
              /\ cur' = [cur EXCEPT !.n = 1] /\ remote' = Put(remote, f, New(f))
              /\ UNCHANGED <<spc, kept, down, trouble>>
           \/ /\ m.id = "DATA" /\ cur.n = 0 /\ (f \in DOMAIN remote \/ trouble < MaxTrouble)
              /\ trouble' = (IF f \in DOMAIN remote THEN trouble ELSE trouble + 1)
              /\ Answer(M("FAIL", f)) /\ spc' = "closed" /\ UNCHANGED <<cur, remote, kept>>
           \/ /\ m.id = "DONE" /\ cur.n = 1 /\ Answer(M("OKAY", f)) /\ spc' = "cmd"
              /\ UNCHANGED <<cur, remote, kept, trouble>>
           \/ /\ (m.id = "DATA") # (cur.n = 0) /\ Answer(M("FAIL", f))
              /\ spc' = "closed" /\ UNCHANGED <<cur, remote, kept, trouble>>
    /\ InService /\ UNCHANGED short

\* do_recv: a failing read is reported in the middle of the data.
Fetch ==
    /\ spc = "fetch"
    /\ LET size == Len(remote[cur.f])
       IN  \/ /\ cur.n < size /\ Answer(M("DATA", cur.f)) /\ cur' = [cur EXCEPT !.n = @ + 1]
              /\ UNCHANGED <<spc, trouble>>
           \/ /\ cur.n = size /\ Answer(M("DONE", cur.f)) /\ spc' = "cmd"
              /\ UNCHANGED <<cur, trouble>>
           \/ /\ cur.n < size /\ Fault /\ Answer(M("FAIL", cur.f)) /\ spc' = "cmd"
              /\ UNCHANGED cur
    /\ InService /\ UNCHANGED <<up, remote, kept, short>>

\* do_list, which goes to its end at once when the directory cannot be read.
List ==
    /\ spc = "list"
    /\ \/ /\ cur.f <= Files
          /\ IF cur.f \in DOMAIN remote THEN Answer(M("DENT", cur.f)) ELSE UNCHANGED down
          /\ cur' = [cur EXCEPT !.f = @ + 1] /\ UNCHANGED spc
       \/ cur.f > Files /\ Answer(M("DONE", 0)) /\ spc' = "cmd" /\ UNCHANGED cur
    /\ InService /\ UNCHANGED <<up, remote, kept, short, trouble>>

\* The client's QUIT, or the stream is gone: a file half received is removed (a link is left).
ServiceLoses ==
    /\ spc # "closed" /\ (cut \/ sync_quit) /\ up = <<>>
    /\ spc' = "closed"
    /\ IF spc = "data" /\ cur.f \notin Links THEN Unlink(cur.f) ELSE UNCHANGED <<remote, kept>>
    /\ InService /\ UNCHANGED <<cur, up, down, short, trouble>>

Cut ==
    /\ ~cut /\ trouble < MaxTrouble /\ cut' = TRUE /\ trouble' = trouble + 1
    /\ up' = <<>> /\ UNCHANGED <<Client, Service, down, short>>

\* The commands.
do_sync_ls   == cmd = "ls" /\ cpc = "list"
do_sync_push == cmd = "push" /\ cpc = "send"
do_sync_sync == cmd = "sync" /\ cpc = "stat"
do_sync_pull == cmd = "pull" /\ cpc = "list"

Init ==
    /\ do_sync_ls \/ do_sync_push \/ do_sync_sync \/ do_sync_pull
    /\ at = 1 /\ n = 0 /\ skip = (IF cmd = "pull" THEN F ELSE {}) /\ spc = "cmd" /\ cur = [f |-> 1, n |-> 0, fd |-> FALSE]
    /\ up = <<>> /\ down = <<>> /\ cut = FALSE
    /\ \E there \in SUBSET F :
          remote \in {r \in [there -> UNION {OldFiles(f) \cup {New(f)} : f \in F}] :
                        \A f \in there : r[f] \in OldFiles(f) \cup {New(f)}}
    /\ local = <<>> /\ kept = {} /\ short = FALSE /\ said = FALSE /\ trouble = 0

ClientStep ==
    \/ StatRequest \/ StatReply \/ SendSkip \/ SendRequest \/ SendData \/ SendStatus
    \/ ListRequest \/ ListReply \/ RecvRequest \/ RecvData \/ ClientLoses
ServiceStep == Request \/ SendFile \/ SendLink \/ Fetch \/ List \/ ServiceLoses
Next == ClientStep \/ ServiceStep \/ Cut

-----------------------------------------------------------------------------
\* A push or sync that succeeds has made every file what it is on the host.
\* Three things it does not notice: a local file that cannot be read to its
\* end, a link that was changed on the device and has the same length, and an
\* old file that could not be removed, whose end stays behind the new blocks.
PushTells ==
    cpc = "ok" /\ cmd \in {"push", "sync"} /\ ~short =>
        \A f \in F : /\ f \in DOMAIN remote
                     /\ \/ remote[f] = New(f)
                        \/ f \in skip \cap Links /\ Len(remote[f]) = BlocksOf(f)
                        \/ f \in kept \ Links /\ SubSeq(remote[f], 1, BlocksOf(f)) = New(f)

\* A pull that succeeds without a complaint has what the device has, unless
\* the device could not read the directory, which it does not tell.
PullTells ==
    cpc = "ok" /\ cmd = "pull" /\ ~said /\ ~short =>
        /\ DOMAIN local = DOMAIN remote
        /\ \A f \in DOMAIN local : local[f] = Len(remote[f])

\* The answer the client reads is the one to its own last request: pipelined
\* STATs, early FAILs and skipped data never leave the two out of step.
InStep ==
    /\ down # <<>> /\ cpc \in {"stats", "status", "fetch"} => Head(down).f = at
    /\ cpc \in {"recv", "list", "ok"} => down = <<>>

\* A push that failed leaves a file of the device as it was, whole or not
\* there: blocks written before the failure stay only where the removal of the
\* file failed too, or where the end of the local file could not be read.
NoHalfFile ==
    spc # "data" /\ ~short =>
        \A f \in DOMAIN remote \ kept : remote[f] \in OldFiles(f) \cup {New(f)}

\* What may not last: a command.
Busy == cpc \notin {"ok", "failed"}

=============================================================================
