----------------------------- MODULE SupportingDocs -----------------------------
(***************************************************************************)
(* Reference documents: files in a category folder, one database row per   *)
(* distinct content, and two writers of these rows, the upload route and   *)
(* the watcher, which handles each file with an in-process timer.          *)
(*                                                                         *)
(* Everything interleaves: a file is overwritten, moved or deleted while a *)
(* thread stores what it read of it, two threads store one content side by *)
(* side, a process dies with its timers.  One category is modelled, so a   *)
(* content is a document key; every document holds one table.  There is    *)
(* one upload at a time (the route is a coroutine that does not await      *)
(* while it stores) and, a bound, one hard delete at a time.               *)
(***************************************************************************)
EXTENDS Naturals

CONSTANTS
  Files,       \* names in the category folder
  Contents,    \* distinct file contents
  Timers,      \* timer threads of the watcher
  Named,       \* the file an upload stores a content under: <sha16><ext>
  Settle,      \* ticks before an upsert fires; a delete fires after one
  MaxChanges,  \* bound: changes to the folder and the rows from outside
  Twins,       \* may one content lie in the folder under two names?
  Nothing      \* no content, no file, no timer

ASSUME SupportingAssumption ==
  /\ Named \in [Contents -> Files]
  /\ \A c, d \in Contents : Named[c] = Named[d] => c = d
  /\ Settle \in Nat /\ Settle > 1 /\ MaxChanges \in Nat
  /\ Twins \in BOOLEAN
  /\ Nothing \notin Files \cup Contents \cup Timers
  /\ "upload" \notin Timers

VARIABLES
  disk,      \* the content of each file
  changes,   \* how many changes there were
  thread,    \* the watcher's timer threads and the upload request
  timers,    \* the handler's dictionary: the last timer of each file
  docs,      \* supporting_documents by doc_key
  removal,   \* the file of the hard delete in progress: its row is gone
  missed,    \* history: files whose event, store or removal died with a process
  retired,   \* history: documents an admin deactivated and nobody stored since
  late,      \* history: documents last stored from a file that no longer held them
  crossed    \* history: documents last stored while another thread stored them

vars == <<disk, changes, thread, timers, docs, removal, missed, retired, late, crossed>>

Threads == Timers \cup {"upload"}
Free == [at |-> "free", kind |-> "upsert", file |-> Nothing, left |-> 0,
         content |-> Nothing, typed |-> FALSE]
NoDoc == [row |-> FALSE, active |-> FALSE, file |-> Nothing, typed |-> FALSE, tables |-> 0]

TypeOK ==
  /\ disk \in [Files -> Contents \cup {Nothing}] /\ changes \in 0..MaxChanges
  /\ thread \in [Threads -> [at: {"free", "armed", "parsed", "clearing", "filling", "finished"},
                             kind: {"upsert", "delete"}, file: Files \cup {Nothing},
                             left: 0..Settle, content: Contents \cup {Nothing}, typed: BOOLEAN]]
  /\ timers \in [Files -> Timers \cup {Nothing}]
  /\ docs \in [Contents -> [row: BOOLEAN, active: BOOLEAN, file: Files \cup {Nothing},
                            typed: BOOLEAN, tables: Nat]]
  /\ removal \in Files \cup {Nothing}
  /\ missed \subseteq Files
  /\ retired \subseteq Contents /\ late \subseteq Contents /\ crossed \subseteq Contents

Init ==
  /\ disk = [f \in Files |-> Nothing] /\ changes = 0
  /\ thread = [t \in Threads |-> Free]
  /\ timers = [f \in Files |-> Nothing]
  /\ docs = [c \in Contents |-> NoDoc]
  /\ removal = Nothing /\ missed = {}
  /\ retired = {} /\ late = {} /\ crossed = {}

-----------------------------------------------------------------------------
(* The watcher's timers.                                                    *)

Storing(t) == thread[t].at \in {"parsed", "clearing", "filling"}

(* The row is stored, its tables are not yet.                               *)
Rewriting(t) == thread[t].at \in {"clearing", "filling"}

Armed(kind, f) ==
  [Free EXCEPT !.at = "armed", !.kind = kind, !.file = f,
               !.left = IF kind = "delete" THEN 1 ELSE Settle]

(* cancel() stops the timer the dictionary knows, if it still waits.        *)
Cancelled(f) == {t \in Timers : timers[f] = t /\ thread[t].at = "armed"}

(* _schedule for each file of a change; events maps a file to its event.    *)
Schedule(events) ==
  LET Seen == DOMAIN events
      Stopped == UNION {Cancelled(f) : f \in Seen}
      Ready == {t \in Timers : thread[t].at = "free"} \cup Stopped
  IN \E new \in [Seen -> Ready] :
       /\ \A f, g \in Seen : new[f] = new[g] => f = g
       /\ thread' = [t \in Threads |->
            CASE \E f \in Seen : new[f] = t ->
                   LET f == CHOOSE f \in Seen : new[f] = t IN Armed(events[f], f)
              [] t \in Stopped /\ ~(\E f \in Seen : new[f] = t) -> Free
              [] OTHER -> thread[t]]
       /\ timers' = [f \in Files |-> IF f \in Seen THEN new[f] ELSE timers[f]]

Tick ==
  /\ \E t \in Timers : thread[t].at = "armed"
  /\ \A t \in Timers : thread[t].at = "armed" => thread[t].left > 0
  /\ thread' = [t \in Threads |->
       IF thread[t].at = "armed" THEN [thread[t] EXCEPT !.left = @ - 1] ELSE thread[t]]
  /\ UNCHANGED <<disk, changes, timers, docs, removal, missed, retired, late, crossed>>

(* The lock guards the dictionary only: what runs is not excluded.          *)
Due(t, kind) == thread[t].at = "armed" /\ thread[t].left = 0 /\ thread[t].kind = kind

(* soft_delete_path: every document last stored under this path.            *)
FireDelete(t) ==
  /\ Due(t, "delete")
  /\ docs' = [c \in Contents |-> IF docs[c].file = thread[t].file
                                 THEN [docs[c] EXCEPT !.active = FALSE] ELSE docs[c]]
  /\ thread' = [thread EXCEPT ![t].at = "finished"]
  /\ missed' = missed \ {thread[t].file}
  /\ UNCHANGED <<disk, changes, timers, removal, retired, late, crossed>>

(* ingest_path hashes and parses the file; one that is gone is an error in  *)
(* the log.                                                                 *)
FireUpsert(t) ==
  /\ Due(t, "upsert")
  /\ LET found == disk[thread[t].file] IN
       thread' = [thread EXCEPT ![t].content = found,
                                ![t].at = IF found = Nothing THEN "finished" ELSE "parsed"]
  /\ UNCHANGED <<disk, changes, timers, docs, removal, missed, retired, late, crossed>>

(* The thread ends by popping the file's entry, whichever timer it names.   *)
Pop(t) ==
  /\ thread[t].at = "finished"
  /\ timers' = [timers EXCEPT ![thread[t].file] = Nothing]
  /\ thread' = [thread EXCEPT ![t] = Free]
  /\ UNCHANGED <<disk, changes, docs, removal, missed, retired, late, crossed>>

-----------------------------------------------------------------------------
(* store(): the row, the old tables, the new tables, each committed by      *)
(* itself.  The watcher has no date that an admin typed.  Nothing is read   *)
(* again: the row takes the content and the path the thread knows.          *)

(* What the history notes of a row that t stores.                           *)
Noted(t) ==
  LET c == thread[t].content
      f == thread[t].file
  IN /\ retired' = retired \ {c}
     /\ IF disk[f] = c THEN late' = late \ {c} /\ missed' = missed \ {f}
                       ELSE late' = late \cup {c} /\ UNCHANGED missed
     /\ crossed' = IF \E u \in Threads \ {t} : Rewriting(u) /\ thread[u].content = c
                   THEN crossed \cup {c} ELSE crossed \ {c}

(* Mutant: a row that exists is not reactivated.                            *)
StoreRow_KeepsActive(t) ==
  /\ thread[t].at = "parsed"
  /\ docs' = [docs EXCEPT ![thread[t].content] =
       [row |-> TRUE, active |-> @.row => @.active, file |-> thread[t].file,
        typed |-> thread[t].typed, tables |-> @.tables]]
  /\ thread' = [thread EXCEPT ![t].at = "clearing"]
  /\ Noted(t)
  /\ UNCHANGED <<disk, changes, timers, removal>>

StoreRow(t) ==
  /\ thread[t].at = "parsed"
  /\ docs' = [docs EXCEPT ![thread[t].content] =
       [row |-> TRUE, active |-> TRUE, file |-> thread[t].file,
        typed |-> thread[t].typed, tables |-> @.tables]]
  /\ thread' = [thread EXCEPT ![t].at = "clearing"]
  /\ Noted(t)
  /\ UNCHANGED <<disk, changes, timers, removal>>

(* Mutant: the tables of the earlier store stay.                            *)
ClearTables_Skipped(t) ==
  /\ thread[t].at = "clearing"
  /\ thread' = [thread EXCEPT ![t].at = "filling"]
  /\ UNCHANGED <<disk, changes, timers, docs, removal, missed, retired, late, crossed>>

ClearTables(t) ==
  /\ thread[t].at = "clearing"
  /\ docs' = [docs EXCEPT ![thread[t].content].tables = 0]
  /\ thread' = [thread EXCEPT ![t].at = "filling"]
  /\ UNCHANGED <<disk, changes, timers, removal, missed, retired, late, crossed>>

(* The end of a thread that has stored, or whose row was deleted meanwhile. *)
Ended(t) == IF t = "upload" THEN Free ELSE [thread[t] EXCEPT !.at = "finished"]

FillTables(t) ==
  /\ thread[t].at = "filling"
  /\ docs' = [docs EXCEPT ![thread[t].content].tables = @ + 1]
  /\ thread' = [thread EXCEPT ![t] = Ended(t)]
  /\ UNCHANGED <<disk, changes, timers, removal, missed, retired, late, crossed>>

(* Processes die: the watcher with its timers, the API with its upload and  *)
(* the second half of a hard delete, or both, when the watcher is a thread  *)
(* of the API.  Nothing is armed again.                                     *)
Restart(died) ==
  LET Dead == (IF "watcher" \in died THEN Timers ELSE {})
                \cup (IF "api" \in died THEN {"upload"} ELSE {})
  IN /\ changes < MaxChanges /\ changes' = changes + 1
     /\ \/ \E t \in Dead : thread[t].at # "free"
        \/ "api" \in died /\ removal # Nothing
     /\ missed' = missed
          \cup {thread[t].file : t \in {u \in Dead : thread[u].at \notin {"free", "finished"}}}
          \cup (IF "api" \in died THEN {removal} \ {Nothing} ELSE {})
     /\ thread' = [t \in Threads |-> IF t \in Dead THEN Free ELSE thread[t]]
     /\ timers' = IF "watcher" \in died THEN [f \in Files |-> Nothing] ELSE timers
     /\ removal' = IF "api" \in died THEN Nothing ELSE removal
     /\ UNCHANGED <<disk, docs, retired, late, crossed>>

-----------------------------------------------------------------------------
(* What users and admins do.                                                *)

Alone(c, f) == Twins \/ \A g \in Files \ {f} : disk[g] # c

Changed(events) ==
  /\ changes < MaxChanges /\ changes' = changes + 1
  /\ Schedule(events)

(* A file is copied into the folder by hand, or overwritten there.          *)
Drop(f, c) ==
  /\ Alone(c, f) /\ disk[f] # c
  /\ Changed([g \in {f} |-> "upsert"])
  /\ disk' = [disk EXCEPT ![f] = c]
  /\ UNCHANGED <<docs, removal, missed, retired, late, crossed>>

Remove(f) ==
  /\ disk[f] # Nothing
  /\ Changed([g \in {f} |-> "delete"])
  /\ disk' = [disk EXCEPT ![f] = Nothing]
  /\ UNCHANGED <<docs, removal, missed, retired, late, crossed>>

(* Mutant: the handler looks at the new name only.                          *)
Rename_NewNameOnly(f, g) ==
  /\ f # g /\ disk[f] # Nothing
  /\ Changed([h \in {g} |-> "upsert"])
  /\ disk' = [disk EXCEPT ![g] = disk[f], ![f] = Nothing]
  /\ UNCHANGED <<docs, removal, missed, retired, late, crossed>>

Rename(f, g) ==
  /\ f # g /\ disk[f] # Nothing
  /\ Changed([h \in {f, g} |-> IF h = g THEN "upsert" ELSE "delete"])
  /\ disk' = [disk EXCEPT ![g] = disk[f], ![f] = Nothing]
  /\ UNCHANGED <<docs, removal, missed, retired, late, crossed>>

(* The route parses a hidden staging file, moves it to its name (an event   *)
(* of the watcher too), and stores it.                                      *)
Upload(c, typed) ==
  /\ thread["upload"].at = "free" /\ Alone(c, Named[c])
  /\ changes < MaxChanges /\ changes' = changes + 1
  /\ disk' = [disk EXCEPT ![Named[c]] = c]
  /\ \E new \in {t \in Timers : thread[t].at = "free"} \cup Cancelled(Named[c]) :
       /\ thread' = [t \in Threads |->
            CASE t = "upload" -> [Free EXCEPT !.at = "parsed", !.file = Named[c],
                                              !.content = c, !.typed = typed]
              [] t = new -> Armed("upsert", Named[c])
              [] t \in Cancelled(Named[c]) \ {new} -> Free
              [] OTHER -> thread[t]]
       /\ timers' = [timers EXCEPT ![Named[c]] = new]
  /\ UNCHANGED <<docs, removal, missed, retired, late, crossed>>

Deactivate(c) ==
  /\ docs[c].active /\ changes < MaxChanges /\ changes' = changes + 1
  /\ docs' = [docs EXCEPT ![c].active = FALSE]
  /\ retired' = retired \cup {c}
  /\ UNCHANGED <<disk, thread, timers, removal, missed, late, crossed>>

(* The row goes first, the file second.  A thread in the middle of storing  *)
(* the row fails at its next insert: the row it refers to is gone.          *)
DeleteRow(c) ==
  /\ docs[c].row /\ removal = Nothing
  /\ changes < MaxChanges /\ changes' = changes + 1
  /\ removal' = docs[c].file
  /\ docs' = [docs EXCEPT ![c] = NoDoc]
  /\ retired' = retired \ {c}
  /\ thread' = [t \in Threads |->
       IF Rewriting(t) /\ thread[t].content = c THEN Ended(t) ELSE thread[t]]
  /\ UNCHANGED <<disk, timers, missed, late, crossed>>

DeleteFile ==
  /\ removal # Nothing /\ removal' = Nothing
  /\ disk' = [disk EXCEPT ![removal] = Nothing]
  /\ IF disk[removal] = Nothing
     THEN UNCHANGED <<thread, timers>>
     ELSE Schedule([g \in {removal} |-> "delete"])
  /\ UNCHANGED <<changes, docs, missed, retired, late, crossed>>
-----------------------------------------------------------------------------
Next ==
  \/ \E f \in Files : Remove(f) \/ \E c \in Contents : Drop(f, c)
  \/ \E f, g \in Files : Rename(f, g)
  \/ \E c \in Contents : Deactivate(c) \/ DeleteRow(c) \/ \E typed \in BOOLEAN : Upload(c, typed)
  \/ \E t \in Timers : FireDelete(t) \/ FireUpsert(t) \/ Pop(t)
  \/ \E t \in Threads : StoreRow(t) \/ ClearTables(t) \/ FillTables(t)
  \/ \E died \in {{"watcher"}, {"api"}, {"watcher", "api"}} : Restart(died)
  \/ DeleteFile \/ Tick

Spec == Init /\ [][Next]_vars
-----------------------------------------------------------------------------
Settled == removal = Nothing /\ \A t \in Threads : thread[t].at = "free"

(* Once the timers have run, every file of the folder is a document an      *)
(* officer can choose, unless a process died with its event, an admin       *)
(* retired it, or its document was last stored from a file that no longer   *)
(* held it (on_created, on_moved, ingest_path).                             *)
DroppedIsOffered ==
  Settled => \A f \in Files \ missed :
    disk[f] # Nothing => docs[disk[f]].active \/ disk[f] \in retired \cup late

(* An offered document has its file, so no draft cites a file that 404s     *)
(* (delete, supporting_file): whatever was removed, moved or overwritten,   *)
(* except in the middle of the ingest that stored the document last.        *)
OfferedHasFile ==
  Settled => \A c \in Contents :
    docs[c].active => disk[docs[c].file] # Nothing \/ docs[c].file \in missed \/ c \in late

(* Once the timers have run, a document whose file is in place has its      *)
(* tables once, also when upload and watcher store it one after the other,  *)
(* unless the last two stores overlapped or a process died in the middle    *)
(* (store).                                                                 *)
TablesWhole ==
  Settled => \A c \in Contents :
    docs[c].active /\ disk[docs[c].file] = c =>
      docs[c].tables = 1 \/ docs[c].file \in missed \/ c \in crossed

(* Not kept, the two properties without what the history excuses: a file    *)
(* that vanished has its row withdrawn (soft_delete_path), and a duplicate  *)
(* timer is harmless (_make_supporting_handler).                            *)
VanishedIsWithdrawn ==
  Settled => \A c \in Contents :
    docs[c].active => disk[docs[c].file] # Nothing \/ docs[c].file \in missed
DuplicateIsHarmless ==
  Settled => \A c \in Contents :
    docs[c].active /\ disk[docs[c].file] = c => docs[c].tables = 1 \/ docs[c].file \in missed

(* The date an admin typed wins over what the system proposes, until an     *)
(* admin uploads the document again (upload, as_of_date).                   *)
TypedDateWins ==
  [][\A c \in Contents : docs[c].typed /\ docs'[c].row /\ ~docs'[c].typed
                           => Storing("upload") /\ thread["upload"].content = c]_vars

(* A file is one document: the row of what it held before is not offered    *)
(* beside the row of what it holds (soft_delete_path).                      *)
OneOfferPerFile ==
  Settled => \A c, d \in Contents :
    docs[c].active /\ docs[d].active /\ docs[c].file = docs[d].file => c = d
=============================================================================
