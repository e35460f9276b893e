------------------------------- MODULE Watcher -------------------------------
(***************************************************************************)
(* Watcher.h: the thread that watches the directory of conf.json.  A write *)
(* of the file is seen as two UV_CHANGE events (the truncation, then the   *)
(* content); the callback runs on the second, and then _change_lock drops  *)
(* every event until the timer clears it.  The editor and the event queue  *)
(* are external: the kernel may merge an event with an equal one that is   *)
(* still in the queue.                                                     *)
(***************************************************************************)
EXTENDS Naturals

CONSTANTS
    Contents,  \* what the file may be given
    Truncated, \* what it holds in the middle of a write
    NoContent, \* no write is under way
    MaxWrites  \* bound: writes of the file

ASSUME WatcherBounds == MaxWrites \in Nat /\ Truncated \notin Contents /\ NoContent \notin Contents

VARIABLES
    file,          \* the content of conf.json
    editing,       \* the content being written
    writes,        \* writes so far
    changes,       \* UV_CHANGE events in the queue
    missed,        \* an event was merged, dropped, or came before the watch: history
    _watch_running,
    _change_lock,
    _file_toggled

editorVars == <<file, editing, writes>>
watchVars == <<changes, missed, _watch_running, _change_lock, _file_toggled>>

WatcherInit ==
    /\ file \in Contents
    /\ editing = NoContent
    /\ writes = 0
    /\ changes = 0
    /\ missed = FALSE
    /\ _watch_running = FALSE
    /\ _change_lock = FALSE
    /\ _file_toggled = FALSE

-----------------------------------------------------------------------------
(* The editor                                                              *)

Queued ==
    \/ _watch_running /\ changes' = changes + 1 /\ UNCHANGED missed
    \/ (changes > 0 \/ ~_watch_running) /\ missed' = TRUE /\ UNCHANGED changes

Truncate ==
    /\ editing = NoContent /\ writes < MaxWrites
    /\ writes' = writes + 1
    /\ file' = Truncated
    /\ editing' \in Contents
    /\ Queued
    /\ UNCHANGED <<_watch_running, _change_lock, _file_toggled>>

Finish ==
    /\ editing # NoContent
    /\ file' = editing
    /\ editing' = NoContent
    /\ Queued
    /\ UNCHANGED <<writes, _watch_running, _change_lock, _file_toggled>>

-----------------------------------------------------------------------------
(* The watch thread                                                        *)

\* watch_start: the callback is set, then the thread starts to watch.
watch_start ==
    /\ _watch_running' = TRUE
    /\ UNCHANGED <<changes, missed, _change_lock, _file_toggled>>

Taken == changes > 0 /\ changes' = changes - 1

Dropped ==
    /\ Taken
    /\ _change_lock
    /\ missed' = TRUE
    /\ UNCHANGED <<_watch_running, _change_lock, _file_toggled>>

FirstOfTwo ==
    /\ Taken
    /\ ~_change_lock /\ ~_file_toggled
    /\ _file_toggled' = TRUE
    /\ UNCHANGED <<missed, _watch_running, _change_lock>>

\* The event that runs the callback.
SecondOfTwo ==
    /\ Taken
    /\ ~_change_lock /\ _file_toggled
    /\ _file_toggled' = FALSE
    /\ UNCHANGED <<missed, _watch_running, _change_lock>>

CallbackReturns ==
    /\ _change_lock' = TRUE
    /\ UNCHANGED <<changes, missed, _watch_running, _file_toggled>>

clear_change_lock ==
    /\ _change_lock
    /\ _change_lock' = FALSE
    /\ UNCHANGED <<changes, missed, _watch_running, _file_toggled>>

==============================================================================
