--------------------------- MODULE ConsoleSession ---------------------------
(***************************************************************************)
(* run_console (console.c) beside the threads it meets: the input thread   *)
(* of ui.c with its key queue, the cursor threads, and the shell on the    *)
(* other end of a pseudo terminal.                                         *)
(***************************************************************************)
EXTENDS Integers, Sequences, FiniteSets, SequencesExt

CONSTANTS
    QueueMax,    \* entries of key_queue
    MaxEvents,   \* bound: input events in a behaviour
    MaxOutput,   \* bound: chunks the shell writes in a session
    MaxSessions  \* bound: consoles opened in a behaviour

VARIABLES
    rel,       \* rel_sum of the trackball
    queue,     \* key_queue
    pressed,   \* key_pressed, the keys held
    accepted,  \* keys queued since the queue was cleared, in order
    handled,   \* keys taken since the queue was cleared, in order
    events,    \* input events so far
    pc,        \* control of run_console
    sh,        \* the shell: "none", "running", "dead", "reaped"
    wrote,     \* chunks the shell has written
    unread,    \* chunks in the terminal not yet read
    seen,      \* chunks printed on the console
    typed,     \* what was last sent to the shell
    quit,      \* force_quit
    how,       \* how the loop was left
    show,      \* show_console
    cursors,   \* cursor threads, by number, each "look" or "draw"
    sessions

cvars == <<rel, queue, pressed, accepted, handled, events, pc, sh, wrote, unread,
           seen, typed, quit, how, show, cursors, sessions>>

keyvars == <<rel, queue, pressed, accepted, handled, events>>
runvars == <<pc, sh, wrote, unread, seen, typed, quit, how>>
uivars  == <<show, cursors, sessions>>

Keys == {"menu", "alt", "c"}
TrackballMax == 3

-----------------------------------------------------------------------------
Enqueue_Slip(k) ==
    /\ queue' = IF Len(queue) < QueueMax THEN Append(queue, k) ELSE Append(Tail(queue), k)
    /\ accepted' = Append(accepted, k)

(***************************************************************************)
(* input_thread: a press, a repeat or a release of a key, or motion of the *)
(* trackball that adds up to a faked key press (which is not recorded as   *)
(* held).                                                                  *)
(***************************************************************************)
Enqueue(k) ==
    IF Len(queue) < QueueMax
    THEN queue' = Append(queue, k) /\ accepted' = Append(accepted, k)
    ELSE UNCHANGED <<queue, accepted>>

InputEvent ==
    /\ events < MaxEvents /\ events' = events + 1
    /\ \/ \E k \in Keys :
             /\ pressed' = pressed \cup {k} /\ rel' = 0 /\ Enqueue(k)
       \/ \E k \in pressed :
             pressed' = pressed \ {k} /\ rel' = 0 /\ UNCHANGED <<queue, accepted>>
       \/ \E d \in {-2, 2} :
             /\ UNCHANGED pressed
             /\ IF rel + d > TrackballMax THEN rel' = 0 /\ Enqueue("down")
                ELSE IF rel + d < -TrackballMax THEN rel' = 0 /\ Enqueue("up")
                ELSE rel' = rel + d /\ UNCHANGED <<queue, accepted>>
    /\ UNCHANGED <<handled, runvars, uivars>>

\* ui_get_key; "none" stands for -1.
NextKey == IF queue = <<>> THEN "none" ELSE Head(queue)

ui_get_key ==
    IF queue = <<>> THEN UNCHANGED <<queue, handled>>
    ELSE queue' = Tail(queue) /\ handled' = Append(handled, Head(queue))

(***************************************************************************)
(* run_console.  init_console starts a cursor thread; the shell may fail   *)
(* to start, then the console is closed again.                             *)
(***************************************************************************)
Open ==
    /\ pc = "closed" /\ sessions < MaxSessions /\ sessions' = sessions + 1
    /\ show' = TRUE
    /\ cursors' = [t \in DOMAIN cursors \cup {sessions + 1} |->
                      IF t = sessions + 1 THEN "look" ELSE cursors[t]]
    /\ \/ /\ pc' = "read" /\ sh' = "running"
          /\ queue' = <<>> /\ accepted' = <<>> /\ handled' = <<>>   \* ui_clear_key_queue
       \/ /\ pc' = "exit" /\ sh' = "none"                           \* create_subprocess failed
          /\ UNCHANGED <<queue, accepted, handled>>
    /\ wrote' = 0 /\ unread' = 0 /\ seen' = 0 /\ typed' = "none"
    /\ quit' = FALSE /\ how' = "none"
    /\ UNCHANGED <<rel, pressed, events>>

ForceQuit ==
    /\ pc = "read" /\ quit
    /\ sh' = "reaped" /\ pc' = "exit" /\ how' = "forced"
    /\ UNCHANGED <<keyvars, wrote, unread, seen, typed, quit, uivars>>

ReadOutput_Slip ==
    /\ pc = "read" /\ ~quit
    /\ \/ /\ unread > 0 /\ seen' = seen + unread /\ unread' = 0 /\ pc' = "key"
       \/ /\ sh = "running" /\ unread = 0 /\ pc' = "poll" /\ UNCHANGED <<seen, unread>>
       \/ /\ sh = "dead" /\ pc' = "wait" /\ UNCHANGED <<seen, unread>>
    /\ UNCHANGED <<keyvars, sh, wrote, typed, quit, how, uivars>>

\* One read of the terminal, which is non-blocking: output, EAGAIN while the
\* shell holds the other end, or an error once it has gone.
ReadOutput ==
    /\ pc = "read" /\ ~quit
    /\ \/ /\ unread > 0 /\ seen' = seen + unread /\ unread' = 0 /\ pc' = "key"
       \/ /\ unread = 0 /\ sh = "running" /\ pc' = "poll" /\ UNCHANGED <<seen, unread>>
       \/ /\ unread = 0 /\ sh = "dead" /\ pc' = "wait" /\ UNCHANGED <<seen, unread>>
    /\ UNCHANGED <<keyvars, sh, wrote, typed, quit, how, uivars>>

\* waitpid with WNOHANG after an empty read, and the blocking one.
Poll ==
    /\ pc = "poll"
    /\ IF sh = "dead" THEN sh' = "reaped" /\ pc' = "exit" /\ how' = "polled"
       ELSE pc' = "key" /\ UNCHANGED <<sh, how>>
    /\ UNCHANGED <<keyvars, wrote, unread, seen, typed, quit, uivars>>

Reap ==
    /\ pc = "wait" /\ sh = "dead" /\ sh' = "reaped" /\ pc' = "exit" /\ how' = "read"
    /\ UNCHANGED <<keyvars, wrote, unread, seen, typed, quit, uivars>>

EvaluateKey_Slip ==
    /\ pc = "key"
    /\ handled' = Append(handled, NextKey) /\ queue' = <<>>
    /\ pc' = "read"
    /\ UNCHANGED <<typed, quit, rel, pressed, accepted, events, sh, wrote, unread, seen, how, uivars>>

\* One key; what it means depends on the keys held when it is taken, not when
\* it was pressed.
EvaluateKey ==
    /\ pc = "key" /\ ui_get_key
    /\ LET k == NextKey IN
       CASE k = "none" -> UNCHANGED <<typed, quit>>
         [] k # "none" /\ "menu" \in pressed ->
               IF k \in {"menu", "alt"} THEN UNCHANGED <<typed, quit>>
               ELSE IF k = "c" /\ "alt" \in pressed THEN quit' = TRUE /\ UNCHANGED typed
               ELSE typed' = "control" /\ UNCHANGED quit
         [] k # "none" /\ "menu" \notin pressed ->
               /\ UNCHANGED quit
               /\ IF k \in {"c", "down", "up"} THEN typed' = k
                  ELSE UNCHANGED typed             \* scrolls, or means nothing
    /\ pc' = "read"
    /\ UNCHANGED <<rel, pressed, accepted, events, sh, wrote, unread, seen, how, uivars>>

\* close, exit_console
Close ==
    /\ pc = "exit" /\ pc' = "closed" /\ show' = FALSE
    /\ UNCHANGED <<keyvars, sh, wrote, unread, seen, typed, quit, how, cursors, sessions>>

(***************************************************************************)
(* The shell.                                                              *)
(***************************************************************************)
ShellWrite ==
    /\ sh = "running" /\ wrote < MaxOutput
    /\ wrote' = wrote + 1 /\ unread' = unread + 1
    /\ UNCHANGED <<keyvars, pc, sh, seen, typed, quit, how, uivars>>

ShellExit ==
    /\ sh = "running" /\ sh' = "dead"
    /\ UNCHANGED <<keyvars, pc, wrote, unread, seen, typed, quit, how, uivars>>

CursorThread_Slip(t) ==
    /\ \/ /\ cursors[t] = "look" /\ cursors' = [cursors EXCEPT ![t] = "draw"]
       \/ cursors[t] = "draw" /\ cursors' = [cursors EXCEPT ![t] = "look"]
    /\ UNCHANGED <<keyvars, runvars, show, sessions>>

(***************************************************************************)
(* console_cursor_thread number t: looks at show_console without the lock, *)
(* then redraws under it.                                                  *)
(***************************************************************************)
CursorThread(t) ==
    /\ \/ /\ cursors[t] = "look" /\ show /\ cursors' = [cursors EXCEPT ![t] = "draw"]
       \/ /\ cursors[t] = "look" /\ ~show
          /\ cursors' = [u \in DOMAIN cursors \ {t} |-> cursors[u]]
       \/ cursors[t] = "draw" /\ cursors' = [cursors EXCEPT ![t] = "look"]
    /\ UNCHANGED <<keyvars, runvars, show, sessions>>

-----------------------------------------------------------------------------
Init ==
    /\ rel = 0 /\ queue = <<>> /\ pressed = {} /\ accepted = <<>> /\ handled = <<>>
    /\ events = 0 /\ pc = "closed" /\ sh = "none" /\ wrote = 0 /\ unread = 0 /\ seen = 0
    /\ typed = "none" /\ quit = FALSE /\ how = "none"
    /\ show = FALSE /\ cursors = <<>> /\ sessions = 0

RunConsole == ForceQuit \/ ReadOutput \/ Poll \/ Reap \/ EvaluateKey \/ Close

Next ==
    \/ InputEvent \/ Open \/ RunConsole \/ ShellWrite \/ ShellExit
    \/ \E t \in DOMAIN cursors : CursorThread(t)

-----------------------------------------------------------------------------
\* The key queue loses only what does not fit: the keys handled and those
\* waiting are the keys accepted, in the order they were pressed.
KeysInOrder == accepted = handled \o queue /\ Len(queue) <= QueueMax

\* No output is lost when the loop ends with an error from the terminal; only
\* the exit seen by polling, after an empty read, may leave output behind.
OutputDrained == (pc = "closed" /\ how = "read") => seen = wrote

\* No console returns to the menu while its shell is alive or unreaped.
ShellReaped == pc = "closed" => sh \in {"none", "reaped"}

\* What the two rest on: every chunk written is printed or waits to be read,
\* run_console goes to the blocking waitpid only with a dead shell and nothing
\* left to read, and each place of its loop knows whether the shell is reaped.
ChunksCounted == wrote \in Nat /\ unread \in Nat /\ seen + unread = wrote /\ seen \in Nat
ShellKnown ==
    /\ pc \in {"read", "poll", "key"} => sh \in {"running", "dead"}
    /\ pc = "wait" => sh = "dead" /\ unread = 0
    /\ pc \in {"exit", "closed"} => sh \in {"none", "reaped"}
    /\ how = "read" => sh = "reaped" /\ unread = 0

\* What may not last: the console of a shell that is gone, and the cursor
\* threads of a closed console, also the one that slept through a close and
\* an open.
ShellGone   == sh = "dead" /\ pc # "closed"
CursorsLeft == ~show /\ cursors # <<>>

=============================================================================
