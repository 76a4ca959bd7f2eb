-------------------------- MODULE SupportingDocsProofs --------------------------
(***************************************************************************)
(* What the folder of reference documents promises once its timers have    *)
(* run, for any number of files, contents, timers and changes.              *)
(*                                                                         *)
(* The argument: a delete that is still armed for a file that came back     *)
(* fires before the upsert of what came back (UpsertsLast), whichever       *)
(* timers the dictionary lost; so a file that is not offered yet has a      *)
(* timer, or a thread that read what lies there, that will offer it         *)
(* (Offers), and a document whose file is gone has a timer that will        *)
(* withdraw it (HasFile), unless a thread stored it after its file changed. *)
(* Two threads may write the tables of one document; where the last store   *)
(* overlapped no other, one thread owns them until they are whole (Single,  *)
(* Cleared, Whole).                                                         *)
(***************************************************************************)
EXTENDS SupportingDocs, TLAPS

Kinds == {"upsert", "delete"}
ThreadState ==
  [at: {"free", "armed", "parsed", "clearing", "filling", "finished"},
   kind: Kinds, file: Files \cup {Nothing},
   left: 0..Settle, content: Contents \cup {Nothing}, typed: BOOLEAN]
DocState ==
  [row: BOOLEAN, active: BOOLEAN, file: Files \cup {Nothing}, typed: BOOLEAN, tables: Nat]

Typed ==
  /\ disk \in [Files -> Contents \cup {Nothing}] /\ changes \in 0..MaxChanges
  /\ thread \in [Threads -> ThreadState]
  /\ timers \in [Files -> Timers \cup {Nothing}]
  /\ docs \in [Contents -> DocState]
  /\ removal \in Files \cup {Nothing}
  /\ missed \subseteq Files
  /\ retired \subseteq Contents /\ late \subseteq Contents /\ crossed \subseteq Contents

Waits(t, kind, f) == thread[t].at = "armed" /\ thread[t].kind = kind /\ thread[t].file = f

(* A thread at work has a file, and a timer the dictionary knows is one of  *)
(* its file that has not ended; an upload waits for no timer.               *)
BusyHasFile == \A t \in Threads : thread[t].at # "free" => thread[t].file \in Files
TimersKnown ==
  \A f \in Files : timers[f] # Nothing => thread[timers[f]].at # "free" /\ thread[timers[f]].file = f
UploadsAtOnce == thread["upload"].at # "armed"

(* A delete waits a tick, an upsert armed after it longer.                  *)
DeletesShort == \A t \in Timers, f \in Files : Waits(t, "delete", f) => thread[t].left <= 1
UpsertsLast ==
  \A t \in Timers, f \in Files :
    Waits(t, "delete", f) /\ disk[f] # Nothing =>
      \E u \in Timers : Waits(u, "upsert", f) /\ thread[t].left < thread[u].left

(* A store has a content to store, in the folder or not.                    *)
StoresKnown == \A t \in Threads : Storing(t) => thread[t].content \in Contents

(* A document whose file is gone is about to be withdrawn.                  *)
HasFile ==
  \A c \in Contents : docs[c].active =>
    /\ docs[c].file \in Files
    /\ \/ disk[docs[c].file] # Nothing \/ docs[c].file \in missed \/ c \in late
       \/ \E t \in Timers : Waits(t, "delete", docs[c].file)

FolderInv ==
  /\ Typed /\ BusyHasFile /\ TimersKnown /\ UploadsAtOnce /\ DeletesShort
  /\ UpsertsLast /\ StoresKnown /\ HasFile

(* A file whose content is not stored yet will be, by a timer or by a       *)
(* thread that read what lies there.                                        *)
Pending(f) ==
  \/ \E t \in Timers : Waits(t, "upsert", f)
  \/ \E t \in Threads : thread[t].at = "parsed" /\ thread[t].file = f /\ thread[t].content = disk[f]

(* Who rewrites a document alone, owns its row and its tables.              *)
Rewrites(t, c) == Rewriting(t) /\ thread[t].content = c
Single ==
  \A c \in Contents \ crossed, t, u \in Threads : Rewrites(t, c) /\ Rewrites(u, c) => t = u
Cleared ==
  \A c \in Contents \ crossed, t \in Threads :
    Rewrites(t, c) => docs[c].file = thread[t].file /\ (thread[t].at = "filling" => docs[c].tables = 0)
WillBeWhole(c) ==
  \/ docs[c].tables = 1 \/ docs[c].file \in missed \/ Pending(docs[c].file)
  \/ \E t \in Threads : Rewrites(t, c)
Whole ==
  \A c \in Contents \ crossed :
    docs[c].active /\ docs[c].file \in Files /\ disk[docs[c].file] = c => WillBeWhole(c)

TableInv == Single /\ Cleared /\ Whole

(* The rest is for a folder that holds a content once.                      *)
Distinct == \A f, g \in Files : disk[f] = disk[g] /\ disk[f] # Nothing => f = g
Offered(f) ==
  docs[disk[f]].row /\ docs[disk[f]].file = f /\ (docs[disk[f]].active \/ disk[f] \in retired)
Offers ==
  \A f \in Files \ missed :
    disk[f] # Nothing => removal = f \/ Pending(f) \/ Offered(f) \/ disk[f] \in late

OfferInv == Distinct /\ Offers

-----------------------------------------------------------------------------
LEMMA FreeIsState == Free \in ThreadState /\ Free.at = "free"
BY SupportingAssumption DEF Free, ThreadState, Kinds

LEMMA ArmedIsState ==
  ASSUME NEW kind \in Kinds, NEW f \in Files
  PROVE  /\ Armed(kind, f) \in ThreadState
         /\ Armed(kind, f).at = "armed" /\ Armed(kind, f).kind = kind /\ Armed(kind, f).file = f
         /\ Armed(kind, f).left = IF kind = "delete" THEN 1 ELSE Settle
<1> DEFINE wait == IF kind = "delete" THEN 1 ELSE Settle
<1> HIDE DEF wait
<1>1. Armed(kind, f) = [Free EXCEPT !.at = "armed", !.kind = kind, !.file = f, !.left = wait]
  BY DEF Armed, wait
<1>3. Armed(kind, f) = [at |-> "armed", kind |-> kind, file |-> f,
                        left |-> wait, content |-> Nothing, typed |-> FALSE]
  BY <1>1 DEF Free
<1>2. 1 \in 0..Settle /\ Settle \in 0..Settle
  BY SupportingAssumption
<1> QED BY <1>2, <1>3 DEF ThreadState, Kinds, wait

LEMMA ThreadFields ==
  ASSUME Typed, NEW t \in Threads
  PROVE  /\ thread[t].at \in {"free", "armed", "parsed", "clearing", "filling", "finished"}
         /\ thread[t].kind \in Kinds /\ thread[t].file \in Files \cup {Nothing}
         /\ thread[t].left \in 0..Settle /\ thread[t].content \in Contents \cup {Nothing}
         /\ thread[t].typed \in BOOLEAN
BY DEF Typed, ThreadState

LEMMA TimersAreThreads == Timers \subseteq Threads /\ "upload" \in Threads /\ "upload" \notin Timers
BY SupportingAssumption DEF Threads

-----------------------------------------------------------------------------
(* A change of the folder: timers that were free or waited for one of its   *)
(* files are given to its events, each event gets one and the dictionary    *)
(* knows it.                                                                *)
Loose(t, S) == thread[t].at = "free" \/ (thread[t].at = "armed" /\ thread[t].file \in S)

Rearmed(events) ==
  /\ \A t \in Timers :
       \/ thread'[t] = thread[t]
       \/ /\ Loose(t, DOMAIN events)
          /\ \/ thread'[t] = Free
             \/ \E f \in DOMAIN events : thread'[t] = Armed(events[f], f)
  /\ \A f \in DOMAIN events : \E t \in Timers : timers'[f] = t /\ thread'[t] = Armed(events[f], f)
  /\ \A f \in Files \ DOMAIN events : timers'[f] = timers[f]

Uploads(events) ==
  /\ thread["upload"].at = "free" /\ thread'["upload"] \in ThreadState
  /\ thread'["upload"].at = "parsed" /\ thread'["upload"].file \in DOMAIN events
  /\ events[thread'["upload"].file] = "upsert" /\ thread'["upload"].content \in Contents

Change(events) ==
  /\ DOMAIN events \subseteq Files /\ \A f \in DOMAIN events : events[f] \in Kinds
  /\ disk' \in [Files -> Contents \cup {Nothing}] /\ changes' \in 0..MaxChanges
  /\ \A f \in DOMAIN events : disk'[f] = Nothing <=> events[f] = "delete"
  /\ \A f \in Files \ DOMAIN events : disk'[f] = disk[f]
  /\ removal' = removal \/ (removal' = Nothing /\ removal \in DOMAIN events)
  /\ UNCHANGED <<docs, missed, retired, late, crossed>>
  /\ thread' = [t \in Threads |-> thread'[t]] /\ timers' = [f \in Files |-> timers'[f]]
  /\ Rearmed(events)
  /\ thread'["upload"] = thread["upload"] \/ Uploads(events)

LEMMA ChangeThreads ==
  ASSUME FolderInv, NEW events, Change(events), NEW t \in Threads
  PROVE  /\ \/ thread'[t] = thread[t]
            \/ /\ t \in Timers /\ Loose(t, DOMAIN events)
               /\ (thread'[t] = Free \/ \E f \in DOMAIN events : thread'[t] = Armed(events[f], f))
            \/ t = "upload" /\ Uploads(events)
         /\ thread'[t] \in ThreadState
<1>1. t \in Timers \/ t = "upload"
  BY DEF Threads
<1>2. \/ thread'[t] = thread[t]
      \/ /\ t \in Timers /\ Loose(t, DOMAIN events)
         /\ (thread'[t] = Free \/ \E f \in DOMAIN events : thread'[t] = Armed(events[f], f))
      \/ t = "upload" /\ Uploads(events)
  BY <1>1 DEF Change, Rearmed
<1>3. thread[t] \in ThreadState
  BY DEF FolderInv, Typed
<1>4. \A f \in DOMAIN events : Armed(events[f], f) \in ThreadState
  BY ArmedIsState DEF Change
<1> QED BY <1>2, <1>3, <1>4, FreeIsState DEF Uploads

(* What is not loose stays.                                                 *)
LEMMA ChangeStays ==
  ASSUME FolderInv, NEW events, Change(events), NEW t \in Threads, ~Loose(t, DOMAIN events)
  PROVE  thread'[t] = thread[t]
BY ChangeThreads DEF Loose, Uploads

LEMMA ChangeWaits ==
  ASSUME FolderInv, NEW events, Change(events), NEW t \in Timers, NEW kind, NEW f \in Files
  PROVE  /\ f \notin DOMAIN events => (Waits(t, kind, f)' <=> Waits(t, kind, f))
         /\ f \notin DOMAIN events /\ Waits(t, kind, f) => thread'[t] = thread[t]
<1>1. t \in Threads
  BY TimersAreThreads
<1>2. \A g \in DOMAIN events : Armed(events[g], g).file = g
  BY ArmedIsState DEF Change
<1>3. \/ thread'[t] = thread[t]
      \/ Loose(t, DOMAIN events) /\ (thread'[t].at = "free" \/ thread'[t].file \in DOMAIN events)
  BY <1>1, <1>2, ChangeThreads, FreeIsState, TimersAreThreads
<1> QED BY <1>3 DEF Waits, Loose

(* What is stored after a change was stored before, or is uploaded.         *)
LEMMA ChangeStores ==
  ASSUME FolderInv, NEW events, Change(events), NEW t \in Threads, thread'[t].at \notin {"free", "armed"}
  PROVE  thread'[t] = thread[t] \/ (t = "upload" /\ Uploads(events))
<1>1. \A g \in DOMAIN events : Armed(events[g], g).at = "armed"
  BY ArmedIsState DEF Change
<1> QED BY <1>1, ChangeThreads, FreeIsState

LEMMA ChangeAwaits ==
  ASSUME FolderInv, NEW events, Change(events), NEW f \in DOMAIN events
  PROVE  \E t \in Timers : Waits(t, events[f], f)' /\ thread'[t].left = (IF events[f] = "delete" THEN 1 ELSE Settle)
<1>1. PICK t \in Timers : timers'[f] = t /\ thread'[t] = Armed(events[f], f)
  BY DEF Change, Rearmed
<1>2. f \in Files /\ events[f] \in Kinds
  BY DEF Change
<1> QED BY <1>1, <1>2, ArmedIsState DEF Waits

LEMMA ChangeTyped ==
  ASSUME FolderInv, NEW events, Change(events)
  PROVE  Typed' /\ BusyHasFile' /\ TimersKnown' /\ UploadsAtOnce'
<1>1. thread' \in [Threads -> ThreadState]
  BY ChangeThreads DEF Change
<1>2. timers' \in [Files -> Timers \cup {Nothing}]
  <2>1. \A f \in Files : timers'[f] \in Timers \cup {Nothing}
    BY DEF Change, Rearmed, FolderInv, Typed
  <2> QED BY <2>1 DEF Change
<1>3. Typed'
  BY <1>1, <1>2 DEF Change, FolderInv, Typed
<1>4. BusyHasFile'
  <2> SUFFICES ASSUME NEW t \in Threads, thread'[t].at # "free" PROVE thread'[t].file \in Files
    BY DEF BusyHasFile
  <2>1. \A g \in DOMAIN events : Armed(events[g], g).file = g /\ g \in Files
    BY ArmedIsState DEF Change
  <2> QED BY <2>1, ChangeThreads, FreeIsState DEF Uploads, FolderInv, BusyHasFile
<1>5. TimersKnown'
  <2> SUFFICES ASSUME NEW f \in Files, timers'[f] # Nothing
               PROVE  thread'[timers'[f]].at # "free" /\ thread'[timers'[f]].file = f
    BY DEF TimersKnown
  <2>1. CASE f \in DOMAIN events
    <3>1. PICK t \in Timers : timers'[f] = t /\ thread'[t] = Armed(events[f], f)
      BY <2>1 DEF Change, Rearmed
    <3> QED BY <2>1, <3>1, ArmedIsState DEF Change
  <2>2. CASE f \notin DOMAIN events
    <3>1. timers'[f] = timers[f] /\ timers[f] \in Timers
      BY <2>2 DEF Change, Rearmed, FolderInv, Typed
    <3>2. thread[timers[f]].at # "free" /\ thread[timers[f]].file = f
      BY <3>1 DEF FolderInv, TimersKnown
    <3>3. thread'[timers[f]] = thread[timers[f]]
      BY <2>2, <3>1, <3>2, ChangeStays, TimersAreThreads DEF Loose
    <3> QED BY <3>1, <3>2, <3>3
  <2> QED BY <2>1, <2>2
<1>6. UploadsAtOnce'
  BY DEF Change, Uploads, UploadsAtOnce, FolderInv
<1> QED BY <1>3, <1>4, <1>5, <1>6

LEMMA ChangeOrder ==
  ASSUME FolderInv, NEW events, Change(events)
  PROVE  DeletesShort' /\ UpsertsLast'
<1>1. ASSUME NEW t \in Timers, NEW f \in Files, Waits(t, "delete", f)'
      PROVE  thread'[t].left <= 1
  <2>1. CASE thread'[t] = thread[t]
    BY <1>1, <2>1 DEF Waits, FolderInv, DeletesShort
  <2>2. CASE thread'[t] # thread[t]
    <3>1. PICK g \in DOMAIN events : thread'[t] = Armed(events[g], g)
      BY <1>1, <2>2, ChangeThreads, FreeIsState, TimersAreThreads DEF Waits
    <3> QED BY <1>1, <3>1, ArmedIsState DEF Change, Waits
  <2> QED BY <2>1, <2>2
<1>2. DeletesShort'
  BY <1>1 DEF DeletesShort
<1>3. ASSUME NEW t \in Timers, NEW f \in Files, Waits(t, "delete", f)', disk'[f] # Nothing
      PROVE  \E u \in Timers : Waits(u, "upsert", f)' /\ thread'[t].left < thread'[u].left
  <2>1. CASE f \in DOMAIN events
    <3>1. events[f] = "upsert"
      BY <1>3, <2>1 DEF Change, Kinds
    <3>2. PICK u \in Timers : Waits(u, "upsert", f)' /\ thread'[u].left = Settle
      BY <2>1, <3>1, ChangeAwaits
    <3>3. thread'[t].left \in Nat /\ thread'[t].left <= 1
      BY <1>1, <1>3, ChangeThreads, TimersAreThreads DEF ThreadState
    <3> QED BY <3>2, <3>3, SupportingAssumption
  <2>2. CASE f \notin DOMAIN events
    <3>1. disk[f] # Nothing
      BY <1>3, <2>2 DEF Change
    <3>2. Waits(t, "delete", f) /\ thread'[t] = thread[t]
      BY <1>3, <2>2, ChangeWaits
    <3>3. PICK u \in Timers : Waits(u, "upsert", f) /\ thread[t].left < thread[u].left
      BY <3>1, <3>2 DEF FolderInv, UpsertsLast
    <3>4. Waits(u, "upsert", f)' /\ thread'[u] = thread[u]
      BY <2>2, <3>3, ChangeWaits
    <3> QED BY <3>2, <3>3, <3>4
  <2> QED BY <2>1, <2>2
<1> QED BY <1>2, <1>3 DEF UpsertsLast

LEMMA ChangeStored ==
  ASSUME FolderInv, NEW events, Change(events)
  PROVE  StoresKnown'
<1> SUFFICES ASSUME NEW t \in Threads, Storing(t)' PROVE thread'[t].content \in Contents
  BY DEF StoresKnown
<1>1. (thread'[t] = thread[t] /\ Storing(t)) \/ (t = "upload" /\ Uploads(events))
  BY ChangeStores DEF Storing
<1> QED BY <1>1 DEF FolderInv, StoresKnown, Uploads

LEMMA ChangeHasFile ==
  ASSUME FolderInv, NEW events, Change(events)
  PROVE  HasFile'
<1> SUFFICES ASSUME NEW c \in Contents, docs[c].active
             PROVE  /\ docs[c].file \in Files
                    /\ \/ disk'[docs[c].file] # Nothing \/ docs[c].file \in missed \/ c \in late
                       \/ \E t \in Timers : Waits(t, "delete", docs[c].file)'
  BY DEF HasFile, Waits, Change
<1>1. /\ docs[c].file \in Files
      /\ \/ disk[docs[c].file] # Nothing \/ docs[c].file \in missed \/ c \in late
         \/ \E t \in Timers : Waits(t, "delete", docs[c].file)
  BY DEF FolderInv, HasFile
<1> PICK f \in Files : f = docs[c].file
  BY <1>1
<1>2. CASE f \in DOMAIN events
  <2>1. \A t \in Timers : Waits(t, "delete", f)' => Waits(t, "delete", docs[c].file)'
    BY DEF Waits, Change
  <2> QED BY <1>1, <1>2, <2>1, ChangeAwaits DEF Change, Kinds
<1>3. CASE f \notin DOMAIN events
  <2>1. disk'[f] = disk[f]
    BY <1>1, <1>3 DEF Change
  <2>2. \A t \in Timers : Waits(t, "delete", f) => Waits(t, "delete", docs[c].file)'
    BY <1>3, ChangeWaits DEF Waits, Change
  <2> QED BY <1>1, <2>1, <2>2
<1> QED BY <1>2, <1>3

LEMMA ChangeFolder ==
  ASSUME FolderInv, NEW events, Change(events)
  PROVE  FolderInv'
BY ChangeTyped, ChangeOrder, ChangeStored, ChangeHasFile DEF FolderInv

(* What waits for a file stays unless the file changes.                     *)
LEMMA ChangePending ==
  ASSUME FolderInv, NEW events, Change(events), NEW f \in Files
  PROVE  /\ f \in DOMAIN events /\ events[f] = "upsert" => Pending(f)'
         /\ f \notin DOMAIN events /\ Pending(f) => Pending(f)'
<1>1. ASSUME f \in DOMAIN events, events[f] = "upsert" PROVE Pending(f)'
  BY <1>1, ChangeAwaits DEF Pending
<1>2. ASSUME f \notin DOMAIN events, Pending(f) PROVE Pending(f)'
  <2>1. CASE \E t \in Timers : Waits(t, "upsert", f)
    BY <1>2, <2>1, ChangeWaits DEF Pending
  <2>2. CASE \E t \in Threads : thread[t].at = "parsed" /\ thread[t].file = f /\ thread[t].content = disk[f]
    <3>1. disk'[f] = disk[f]
      BY <1>2 DEF Change
    <3> QED BY <2>2, <3>1, ChangeStays DEF Pending, Loose
  <2> QED BY <1>2, <2>1, <2>2 DEF Pending
<1> QED BY <1>1, <1>2

LEMMA ChangeRewrites ==
  ASSUME FolderInv, NEW events, Change(events), NEW t \in Threads
  PROVE  /\ Rewriting(t)' <=> Rewriting(t)
         /\ Rewriting(t) => thread'[t] = thread[t]
<1>1. Rewriting(t) => thread'[t] = thread[t]
  BY ChangeStays DEF Rewriting, Loose
<1>2. Rewriting(t)' => Rewriting(t)
  BY ChangeStores DEF Rewriting, Uploads
<1> QED BY <1>1, <1>2 DEF Rewriting

LEMMA ChangeTables ==
  ASSUME FolderInv, TableInv, NEW events, Change(events)
  PROVE  TableInv'
<1>1. docs' = docs /\ missed' = missed /\ crossed' = crossed
  BY DEF Change
<1>2. \A t \in Threads, c \in Contents : Rewrites(t, c)' <=> Rewrites(t, c)
  BY ChangeRewrites DEF Rewrites
<1>3. Single'
  BY <1>1, <1>2 DEF TableInv, Single
<1>4. Cleared'
  BY <1>1, <1>2, ChangeRewrites DEF TableInv, Cleared, Rewrites
<1>5. Whole'
  <2> SUFFICES ASSUME NEW c \in Contents \ crossed, docs[c].active, NEW f \in Files, f = docs[c].file,
                      disk'[f] = c
               PROVE  \/ docs[c].tables = 1 \/ f \in missed \/ Pending(f)'
                      \/ \E t \in Threads : Rewrites(t, c)'
    BY <1>1 DEF Whole, WillBeWhole, Pending, Waits
  <2>1. c # Nothing
    BY SupportingAssumption
  <2>2. CASE f \in DOMAIN events
    <3>1. events[f] = "upsert"
      BY <2>1, <2>2 DEF Change, Kinds
    <3> QED BY <2>2, <3>1, ChangePending
  <2>3. CASE f \notin DOMAIN events
    <3>1. disk[f] = c
      BY <2>3 DEF Change
    <3>2. WillBeWhole(c)
      BY <3>1 DEF TableInv, Whole
    <3> QED BY <1>2, <2>3, <3>2, ChangePending DEF WillBeWhole
  <2> QED BY <2>2, <2>3
<1> QED BY <1>3, <1>4, <1>5 DEF TableInv

LEMMA ChangeOffers ==
  ASSUME FolderInv, OfferInv, NEW events, Change(events), Distinct'
  PROVE  OfferInv'
<1>1. docs' = docs /\ retired' = retired /\ missed' = missed /\ late' = late
  BY DEF Change
<1>2. Offers'
  <2> SUFFICES ASSUME NEW f \in Files \ missed, disk'[f] # Nothing
               PROVE  removal' = f \/ Pending(f)' \/ Offered(f)' \/ disk'[f] \in late
    BY <1>1 DEF Offers
  <2>1. CASE f \in DOMAIN events
    <3>1. events[f] = "upsert"
      BY <2>1 DEF Change, Kinds
    <3> QED BY <2>1, <3>1, ChangePending
  <2>2. CASE f \notin DOMAIN events
    <3>1. disk'[f] = disk[f] /\ (removal = f => removal' = f)
      BY <2>2 DEF Change
    <3>2. removal = f \/ Pending(f) \/ Offered(f) \/ disk[f] \in late
      BY <3>1 DEF OfferInv, Offers
    <3>3. Offered(f) => Offered(f)'
      BY <1>1, <3>1 DEF Offered
    <3> QED BY <2>2, <3>1, <3>2, <3>3, ChangePending
  <2> QED BY <2>1, <2>2
<1> QED BY <1>2 DEF OfferInv

-----------------------------------------------------------------------------
(* Each change of the model is one.                                         *)
LEMMA ScheduleRearms ==
  ASSUME FolderInv, NEW events, DOMAIN events \subseteq Files, \A f \in DOMAIN events : events[f] \in Kinds,
         Schedule(events)
  PROVE  /\ thread' = [t \in Threads |-> thread'[t]] /\ timers' = [f \in Files |-> timers'[f]]
         /\ Rearmed(events) /\ thread'["upload"] = thread["upload"]
<1> DEFINE Seen == DOMAIN events
           Stopped == UNION {Cancelled(f) : f \in Seen}
           Ready == {t \in Timers : thread[t].at = "free"} \cup Stopped
<1>1. PICK new \in [Seen -> Ready] :
        /\ \A f, g \in Seen : new[f] = new[g] => f = g
        /\ thread' = [t \in Threads |->
             CASE \E f \in Seen : new[f] = t ->
                    LET f == CHOOSE f \in Seen : new[f] = t IN Armed(events[f], f)
               [] t \in Stopped /\ ~(\E f \in Seen : new[f] = t) -> Free
               [] OTHER -> thread[t]]
        /\ timers' = [f \in Files |-> IF f \in Seen THEN new[f] ELSE timers[f]]
  BY DEF Schedule
<1>2. \A t \in Stopped : t \in Timers /\ Loose(t, Seen)
  BY SupportingAssumption DEF Cancelled, Loose, FolderInv, TimersKnown
<1>3. \A t \in Ready : t \in Timers /\ Loose(t, Seen)
  BY <1>2 DEF Loose
<1>4. ASSUME NEW f \in Seen PROVE timers'[f] = new[f] /\ new[f] \in Timers /\ thread'[new[f]] = Armed(events[f], f)
  <2>1. new[f] \in Timers /\ new[f] \in Threads
    BY <1>1, <1>3, TimersAreThreads
  <2>2. (CHOOSE g \in Seen : new[g] = new[f]) = f
    BY <1>1
  <2> QED BY <1>1, <2>1, <2>2
<1>5. ASSUME NEW t \in Threads, ~(\E f \in Seen : new[f] = t)
      PROVE  thread'[t] = IF t \in Stopped THEN Free ELSE thread[t]
  BY <1>1, <1>5
<1> HIDE DEF Seen, Stopped, Ready
<1>6. \A f \in Files \ Seen : timers'[f] = timers[f]
  BY <1>1
<1>7. \A t \in Timers :
        \/ thread'[t] = thread[t]
        \/ /\ Loose(t, Seen)
           /\ \/ thread'[t] = Free
              \/ \E f \in Seen : thread'[t] = Armed(events[f], f)
  <2> SUFFICES ASSUME NEW t \in Timers
               PROVE  \/ thread'[t] = thread[t]
                      \/ /\ Loose(t, Seen)
                         /\ \/ thread'[t] = Free
                            \/ \E f \in Seen : thread'[t] = Armed(events[f], f)
    OBVIOUS
  <2>1. CASE \E f \in Seen : new[f] = t
    <3>1. PICK f \in Seen : new[f] = t
      BY <2>1
    <3>2. thread'[t] = Armed(events[f], f)
      BY <1>4, <3>1
    <3>3. t \in Ready
      BY <1>1, <3>1
    <3>4. Loose(t, Seen)
      BY <1>3, <3>3
    <3> QED BY <3>2, <3>4
  <2>2. CASE ~(\E f \in Seen : new[f] = t)
    <3>1. t \in Threads /\ thread'[t] = IF t \in Stopped THEN Free ELSE thread[t]
      BY <1>5, <2>2, TimersAreThreads
    <3>2. t \in Stopped => Loose(t, Seen)
      BY <1>2
    <3> QED BY <3>1, <3>2
  <2> QED BY <2>1, <2>2
<1>8. Rearmed(events)
  BY <1>4, <1>6, <1>7 DEF Rearmed, Seen
<1>9. thread'["upload"] = thread["upload"]
  BY <1>1, <1>2, <1>3, <1>5, TimersAreThreads
<1> QED BY <1>1, <1>8, <1>9

(* The user's and the admin's changes of the folder.                        *)
LEMMA DropChanges ==
  ASSUME FolderInv, NEW f \in Files, NEW c \in Contents, Drop(f, c)
  PROVE  \E events : Change(events)
<1> DEFINE events == [g \in {f} |-> "upsert"]
<1>1. DOMAIN events = {f} /\ events[f] = "upsert"
  OBVIOUS
<1>2. /\ changes < MaxChanges /\ changes' = changes + 1 /\ Schedule(events)
      /\ disk' = [disk EXCEPT ![f] = c] /\ UNCHANGED <<docs, removal, missed, retired, late, crossed>>
  BY DEF Drop, Changed
<1> HIDE DEF events
<1>3. /\ thread' = [t \in Threads |-> thread'[t]] /\ timers' = [g \in Files |-> timers'[g]]
      /\ Rearmed(events) /\ thread'["upload"] = thread["upload"]
  BY <1>1, <1>2, ScheduleRearms DEF Kinds
<1>4. disk' \in [Files -> Contents \cup {Nothing}] /\ changes' \in 0..MaxChanges
  BY <1>2, SupportingAssumption DEF FolderInv, Typed
<1>5. c # Nothing
  BY SupportingAssumption
<1>6. Change(events)
  BY <1>1, <1>2, <1>3, <1>4, <1>5 DEF Change, FolderInv, Typed, Kinds
<1> QED BY <1>6

LEMMA RemoveChanges ==
  ASSUME FolderInv, NEW f \in Files, Remove(f)
  PROVE  \E events : Change(events)
<1> DEFINE events == [g \in {f} |-> "delete"]
<1>1. DOMAIN events = {f} /\ events[f] = "delete"
  OBVIOUS
<1>2. /\ changes < MaxChanges /\ changes' = changes + 1 /\ Schedule(events)
      /\ disk' = [disk EXCEPT ![f] = Nothing] /\ UNCHANGED <<docs, removal, missed, retired, late, crossed>>
  BY DEF Remove, Changed
<1> HIDE DEF events
<1>3. /\ thread' = [t \in Threads |-> thread'[t]] /\ timers' = [g \in Files |-> timers'[g]]
      /\ Rearmed(events) /\ thread'["upload"] = thread["upload"]
  BY <1>1, <1>2, ScheduleRearms DEF Kinds
<1>4. disk' \in [Files -> Contents \cup {Nothing}] /\ changes' \in 0..MaxChanges
  BY <1>2, SupportingAssumption DEF FolderInv, Typed
<1>5. Change(events)
  BY <1>1, <1>2, <1>3, <1>4 DEF Change, FolderInv, Typed, Kinds
<1> QED BY <1>5

LEMMA RenameChanges ==
  ASSUME FolderInv, NEW f \in Files, NEW g \in Files, Rename(f, g)
  PROVE  \E events : Change(events)
<1> DEFINE events == [h \in {f, g} |-> IF h = g THEN "upsert" ELSE "delete"]
<1>2. /\ changes < MaxChanges /\ changes' = changes + 1 /\ Schedule(events)
      /\ disk' = [disk EXCEPT ![g] = disk[f], ![f] = Nothing] /\ UNCHANGED <<docs, removal, missed, retired, late, crossed>>
      /\ f # g /\ disk[f] # Nothing
  BY DEF Rename, Changed
<1>1. DOMAIN events = {f, g} /\ events[f] = "delete" /\ events[g] = "upsert"
  BY <1>2
<1> HIDE DEF events
<1>3. /\ thread' = [t \in Threads |-> thread'[t]] /\ timers' = [h \in Files |-> timers'[h]]
      /\ Rearmed(events) /\ thread'["upload"] = thread["upload"]
  BY <1>1, <1>2, ScheduleRearms DEF Kinds
<1>4. disk' \in [Files -> Contents \cup {Nothing}] /\ changes' \in 0..MaxChanges
  BY <1>2, SupportingAssumption DEF FolderInv, Typed
<1>5. disk'[f] = Nothing /\ disk'[g] = disk[f] /\ \A h \in Files \ {f, g} : disk'[h] = disk[h]
  BY <1>2 DEF FolderInv, Typed
<1>7. Change(events)
  BY <1>1, <1>2, <1>3, <1>4, <1>5 DEF Change, FolderInv, Typed, Kinds
<1> QED BY <1>7

LEMMA DeleteFileChanges ==
  ASSUME FolderInv, DeleteFile, disk[removal] # Nothing
  PROVE  \E events : Change(events)
<1> DEFINE events == [g \in {removal} |-> "delete"]
<1>1. DOMAIN events = {removal} /\ events[removal] = "delete"
  OBVIOUS
<1>2. /\ removal # Nothing /\ removal' = Nothing /\ disk' = [disk EXCEPT ![removal] = Nothing]
      /\ Schedule(events) /\ UNCHANGED <<changes, docs, missed, retired, late, crossed>>
  BY DEF DeleteFile
<1> HIDE DEF events
<1>3. removal \in Files
  BY <1>2 DEF FolderInv, Typed
<1>4. /\ thread' = [t \in Threads |-> thread'[t]] /\ timers' = [h \in Files |-> timers'[h]]
      /\ Rearmed(events) /\ thread'["upload"] = thread["upload"]
  BY <1>1, <1>2, <1>3, ScheduleRearms DEF Kinds
<1>5. disk' \in [Files -> Contents \cup {Nothing}] /\ changes' \in 0..MaxChanges
  BY <1>2, <1>3 DEF FolderInv, Typed
<1>7. Change(events)
  BY <1>1, <1>2, <1>3, <1>4, <1>5 DEF Change, FolderInv, Typed, Kinds
<1> QED BY <1>7

LEMMA UploadChanges ==
  ASSUME FolderInv, NEW c \in Contents, NEW typed \in BOOLEAN, Upload(c, typed)
  PROVE  \E events : Change(events)
<1> DEFINE f == Named[c]
           events == [g \in {f} |-> "upsert"]
<1>1. DOMAIN events = {f} /\ events[f] = "upsert" /\ f \in Files
  BY SupportingAssumption
<1>2. PICK new \in {t \in Timers : thread[t].at = "free"} \cup Cancelled(f) :
       /\ thread' = [t \in Threads |->
            CASE t = "upload" -> [Free EXCEPT !.at = "parsed", !.file = f,
                                              !.content = c, !.typed = typed]
              [] t = new -> Armed("upsert", f)
              [] t \in Cancelled(f) \ {new} -> Free
              [] OTHER -> thread[t]]
       /\ timers' = [timers EXCEPT ![f] = new]
  BY DEF Upload
<1>3. /\ thread["upload"].at = "free" /\ changes < MaxChanges /\ changes' = changes + 1
      /\ disk' = [disk EXCEPT ![f] = c] /\ UNCHANGED <<docs, removal, missed, retired, late, crossed>>
  BY DEF Upload
<1> HIDE DEF f, events
<1>4. \A t \in Cancelled(f) : t \in Timers /\ Loose(t, {f})
  BY <1>1, SupportingAssumption DEF Cancelled, Loose, FolderInv, TimersKnown
<1>5. new \in Timers /\ Loose(new, {f}) /\ new \in Threads /\ new # "upload"
  BY <1>2, <1>4, TimersAreThreads DEF Loose
<1>6. thread'[new] = Armed("upsert", f)
  BY <1>2, <1>5
<1>7. \A t \in Timers \ {new} : thread'[t] = IF t \in Cancelled(f) THEN Free ELSE thread[t]
  BY <1>2, <1>5, TimersAreThreads
<1>8. timers' \in [Files -> Timers \cup {Nothing}] /\ timers'[f] = new /\ \A g \in Files \ {f} : timers'[g] = timers[g]
  BY <1>1, <1>2, <1>5 DEF FolderInv, Typed
<1>9. Rearmed(events)
  BY <1>1, <1>4, <1>5, <1>6, <1>7, <1>8 DEF Rearmed
<1>10. disk' \in [Files -> Contents \cup {Nothing}] /\ changes' \in 0..MaxChanges
       /\ disk'[f] = c /\ \A g \in Files \ {f} : disk'[g] = disk[g]
  BY <1>1, <1>3, SupportingAssumption DEF FolderInv, Typed
<1>11. thread'["upload"] = [at |-> "parsed", kind |-> "upsert", file |-> f, left |-> 0,
                            content |-> c, typed |-> typed]
  <2>1. thread'["upload"] = [Free EXCEPT !.at = "parsed", !.file = f, !.content = c, !.typed = typed]
    BY <1>2, <1>4, <1>5, TimersAreThreads
  <2> QED BY <2>1 DEF Free
<1>12. c # Nothing /\ 0 \in 0..Settle
  BY SupportingAssumption
<1>13. Uploads(events)
  BY <1>1, <1>3, <1>10, <1>11, <1>12 DEF Uploads, ThreadState, Kinds
<1>14. thread' = [t \in Threads |-> thread'[t]] /\ timers' = [g \in Files |-> timers'[g]]
  <2>1. thread' = [t \in Threads |-> thread'[t]]
    BY <1>2
  <2>2. timers' = [g \in Files |-> timers'[g]]
    BY <1>8
  <2> QED BY <2>1, <2>2
<1>15. Change(events)
  BY <1>1, <1>3, <1>9, <1>10, <1>12, <1>13, <1>14 DEF Change, Kinds, FolderInv, Typed
<1> QED BY <1>15

-----------------------------------------------------------------------------
(* One thread takes a step: it is not armed afterwards, keeps its file or   *)
(* ends, and shows a document only if its file is there or nothing about it *)
(* changed.                                                                 *)
Shown(t, c) ==
  \/ docs'[c].file \in Files /\ (disk[docs'[c].file] # Nothing \/ c \in late')
  \/ /\ docs[c].active /\ docs'[c].file = docs[c].file /\ ~Waits(t, "delete", docs[c].file)
     /\ (docs[c].file \in missed => docs[c].file \in missed') /\ (c \in late => c \in late')

Advance(t) ==
  /\ UNCHANGED <<disk, changes, removal>>
  /\ thread' = [thread EXCEPT ![t] = thread'[t]] /\ thread'[t] \in ThreadState
  /\ thread[t].at # "free" /\ (thread[t].at = "armed" => thread[t].left = 0)
  /\ thread'[t].at # "armed"
  /\ \/ thread'[t].at # "free" /\ thread'[t].file = thread[t].file /\ timers' = timers
     \/ thread'[t] = Free /\ timers' = IF t \in Timers THEN [timers EXCEPT ![thread[t].file] = Nothing]
                                       ELSE timers
  /\ Storing(t)' => thread'[t].content \in Contents
  /\ docs' \in [Contents -> DocState] /\ missed' \subseteq missed
  /\ retired' \subseteq Contents /\ late' \subseteq Contents /\ crossed' \subseteq Contents
  /\ \A c \in Contents : docs'[c].active => Shown(t, c)

LEMMA AdvanceOthers ==
  ASSUME FolderInv, NEW t \in Threads, Advance(t)
  PROVE  /\ \A u \in Threads \ {t} : thread'[u] = thread[u]
         /\ thread' \in [Threads -> ThreadState]
         /\ \A u \in Timers, f \in Files, kind \in Kinds : Waits(u, kind, f)' <=> u # t /\ Waits(u, kind, f)
<1>1. \A u \in Threads \ {t} : thread'[u] = thread[u]
  BY DEF Advance, FolderInv, Typed
<1>2. thread' \in [Threads -> ThreadState]
  BY DEF Advance, FolderInv, Typed
<1>3. \A u \in Timers : u \in Threads
  BY TimersAreThreads
<1>4. thread'[t].at # "armed"
  BY DEF Advance
<1> QED BY <1>1, <1>2, <1>3, <1>4 DEF Waits

LEMMA AdvanceTyped ==
  ASSUME FolderInv, NEW t \in Threads, Advance(t)
  PROVE  Typed' /\ BusyHasFile' /\ TimersKnown' /\ UploadsAtOnce' /\ DeletesShort' /\ UpsertsLast'
<1>1. thread[t].file \in Files
  BY DEF Advance, FolderInv, BusyHasFile
<1>2. timers' \in [Files -> Timers \cup {Nothing}]
  BY <1>1 DEF Advance, FolderInv, Typed
<1>3. Typed'
  BY <1>2, AdvanceOthers DEF Advance, FolderInv, Typed
<1>4. BusyHasFile'
  BY <1>1, AdvanceOthers, FreeIsState DEF Advance, FolderInv, BusyHasFile
<1>5. TimersKnown'
  <2> SUFFICES ASSUME NEW f \in Files, timers'[f] # Nothing
               PROVE  thread'[timers'[f]].at # "free" /\ thread'[timers'[f]].file = f
    BY DEF TimersKnown
  <2>1. timers'[f] = timers[f] /\ timers[f] \in Timers /\ timers[f] \in Threads
    BY <1>1, TimersAreThreads DEF Advance, FolderInv, Typed
  <2>2. thread[timers[f]].at # "free" /\ thread[timers[f]].file = f
    BY <2>1 DEF FolderInv, TimersKnown
  <2>3. CASE timers[f] # t
    BY <2>1, <2>2, <2>3, AdvanceOthers
  <2>4. CASE timers[f] = t
    BY <1>1, <2>1, <2>2, <2>4 DEF Advance, FolderInv, Typed
  <2> QED BY <2>3, <2>4
<1>6. UploadsAtOnce'
  BY AdvanceOthers, TimersAreThreads DEF Advance, FolderInv, UploadsAtOnce
<1>7. \A u \in Timers : thread'[u].at = "armed" => thread'[u] = thread[u]
  BY AdvanceOthers, TimersAreThreads DEF Advance
<1>8. DeletesShort'
  BY <1>7 DEF FolderInv, DeletesShort, Waits
<1>9. UpsertsLast'
  <2> SUFFICES ASSUME NEW d \in Timers, NEW f \in Files, Waits(d, "delete", f)', disk[f] # Nothing
               PROVE  \E u \in Timers : Waits(u, "upsert", f)' /\ thread'[d].left < thread'[u].left
    BY DEF UpsertsLast, Advance
  <2>1. Waits(d, "delete", f) /\ thread'[d] = thread[d] /\ d \in Threads
    BY <1>7, TimersAreThreads DEF Waits
  <2>2. PICK u \in Timers : Waits(u, "upsert", f) /\ thread[d].left < thread[u].left
    BY <2>1 DEF FolderInv, UpsertsLast
  <2>3. u \in Threads /\ thread[u].left \in Nat /\ thread[d].left \in Nat
    BY <2>1, <2>2, TimersAreThreads, ThreadFields DEF FolderInv
  <2>4. u # t
    BY <2>2, <2>3 DEF Advance, Waits
  <2>5. thread'[u] = thread[u]
    BY <2>3, <2>4, AdvanceOthers
  <2> QED BY <2>1, <2>2, <2>5 DEF Waits
<1> QED BY <1>3, <1>4, <1>5, <1>6, <1>8, <1>9

LEMMA AdvanceStored ==
  ASSUME FolderInv, NEW t \in Threads, Advance(t)
  PROVE  StoresKnown'
<1> SUFFICES ASSUME NEW u \in Threads, Storing(u)' PROVE thread'[u].content \in Contents
  BY DEF StoresKnown
<1>1. CASE u # t
  BY <1>1, AdvanceOthers DEF FolderInv, StoresKnown, Storing
<1>2. CASE u = t
  BY <1>2 DEF Advance
<1> QED BY <1>1, <1>2

LEMMA AdvanceFolder ==
  ASSUME FolderInv, NEW t \in Threads, Advance(t)
  PROVE  FolderInv'
<1> SUFFICES HasFile'
  BY AdvanceTyped, AdvanceStored DEF FolderInv
<1> SUFFICES ASSUME NEW c \in Contents, docs'[c].active, NEW f, f = docs'[c].file
             PROVE  /\ f \in Files
                    /\ disk[f] # Nothing \/ f \in missed' \/ c \in late' \/ \E u \in Timers : Waits(u, "delete", f)'
  BY DEF HasFile, Advance, Waits
<1>1. CASE f \in Files /\ (disk[f] # Nothing \/ c \in late')
  BY <1>1
<1>2. CASE ~(f \in Files /\ (disk[f] # Nothing \/ c \in late'))
  <2>1. /\ docs[c].active /\ f = docs[c].file /\ ~Waits(t, "delete", f)
        /\ (f \in missed => f \in missed') /\ (c \in late => c \in late')
    BY <1>2 DEF Advance, Shown
  <2>2. f \in Files /\ (f \in missed \/ \E u \in Timers : Waits(u, "delete", f))
    BY <1>2, <2>1 DEF FolderInv, HasFile
  <2> QED BY <2>1, <2>2, AdvanceOthers DEF Kinds
<1> QED BY <1>1, <1>2

-----------------------------------------------------------------------------
LEMMA FireDeleteAdvances ==
  ASSUME FolderInv, NEW t \in Timers, FireDelete(t)
  PROVE  Advance(t)
<1>1. t \in Threads /\ thread[t] \in ThreadState /\ thread \in [Threads -> ThreadState]
  BY TimersAreThreads DEF FolderInv, Typed
<1>2. thread[t].at = "armed" /\ thread[t].left = 0 /\ thread' = [thread EXCEPT ![t].at = "finished"]
  BY DEF FireDelete, Due
<1>3. thread'[t] = [thread[t] EXCEPT !.at = "finished"]
  BY <1>1, <1>2
<1>4. /\ thread'[t] \in ThreadState /\ thread'[t].at = "finished" /\ thread'[t].file = thread[t].file
      /\ thread' = [thread EXCEPT ![t] = thread'[t]]
  BY <1>1, <1>2, <1>3 DEF ThreadState
<1>5. docs' = [c \in Contents |-> IF docs[c].file = thread[t].file
                                 THEN [docs[c] EXCEPT !.active = FALSE] ELSE docs[c]]
  BY DEF FireDelete
<1>6. docs' \in [Contents -> DocState]
  <2>1. \A c \in Contents : docs[c] \in DocState
    BY DEF FolderInv, Typed
  <2>2. \A c \in Contents : [docs[c] EXCEPT !.active = FALSE] \in DocState
    BY <2>1 DEF DocState
  <2> QED BY <1>5, <2>1, <2>2
<1>7. \A c \in Contents : docs'[c].active => docs'[c] = docs[c] /\ docs[c].file # thread[t].file
  <2> SUFFICES ASSUME NEW c \in Contents, docs'[c].active
               PROVE  docs'[c] = docs[c] /\ docs[c].file # thread[t].file
    OBVIOUS
  <2>1. docs[c] \in DocState
    BY DEF FolderInv, Typed
  <2>2. [docs[c] EXCEPT !.active = FALSE].active = FALSE
    BY <2>1 DEF DocState
  <2> QED BY <1>5, <2>2
<1>8. missed' = missed \ {thread[t].file} /\ UNCHANGED <<disk, changes, timers, removal, retired, late, crossed>>
  BY DEF FireDelete
<1>9. \A c \in Contents : docs'[c].active => Shown(t, c)
  BY <1>7, <1>8 DEF Shown, Waits
<1> QED BY <1>1, <1>2, <1>4, <1>6, <1>8, <1>9 DEF Advance, Storing, FolderInv, Typed

LEMMA FireUpsertAdvances ==
  ASSUME FolderInv, NEW t \in Timers, FireUpsert(t)
  PROVE  Advance(t)
<1>1. t \in Threads /\ thread[t] \in ThreadState /\ thread \in [Threads -> ThreadState]
  BY TimersAreThreads DEF FolderInv, Typed
<1> DEFINE found == disk[thread[t].file]
<1>2. /\ thread[t].at = "armed" /\ thread[t].left = 0 /\ thread[t].kind = "upsert"
      /\ thread' = [thread EXCEPT ![t].content = found,
                                  ![t].at = IF found = Nothing THEN "finished" ELSE "parsed"]
      /\ UNCHANGED <<disk, changes, timers, docs, removal, missed, retired, late, crossed>>
  BY DEF FireUpsert, Due
<1>3. found \in Contents \cup {Nothing}
  BY <1>1, <1>2 DEF FolderInv, Typed, BusyHasFile
<1> HIDE DEF found
<1>4. thread'[t] = [thread[t] EXCEPT !.content = found, !.at = IF found = Nothing THEN "finished" ELSE "parsed"]
  BY <1>1, <1>2
<1>5. /\ thread'[t] \in ThreadState /\ thread'[t].file = thread[t].file /\ thread'[t].content = found
      /\ thread'[t].at = IF found = Nothing THEN "finished" ELSE "parsed"
  BY <1>1, <1>3, <1>4 DEF ThreadState
<1>6. thread' = [thread EXCEPT ![t] = thread'[t]]
  BY <1>1, <1>2
<1>7. \A c \in Contents : docs'[c].active => Shown(t, c)
  BY <1>2 DEF Shown, Waits
<1>8. Storing(t)' => thread'[t].content \in Contents
  BY <1>3, <1>5 DEF Storing
<1> QED BY <1>1, <1>2, <1>5, <1>6, <1>7, <1>8 DEF Advance, FolderInv, Typed

LEMMA PopAdvances ==
  ASSUME FolderInv, NEW t \in Timers, Pop(t)
  PROVE  Advance(t)
<1>1. t \in Threads /\ thread \in [Threads -> ThreadState]
  BY TimersAreThreads DEF FolderInv, Typed
<1>2. /\ thread[t].at = "finished" /\ thread' = [thread EXCEPT ![t] = Free]
      /\ timers' = [timers EXCEPT ![thread[t].file] = Nothing]
      /\ UNCHANGED <<disk, changes, docs, removal, missed, retired, late, crossed>>
  BY DEF Pop
<1>3. thread'[t] = Free
  BY <1>1, <1>2
<1>4. \A c \in Contents : docs'[c].active => Shown(t, c)
  BY <1>2 DEF Shown, Waits
<1> QED BY <1>1, <1>2, <1>3, <1>4, FreeIsState DEF Advance, Storing, FolderInv, Typed

LEMMA StoreRowAdvances ==
  ASSUME FolderInv, NEW t \in Threads, StoreRow(t)
  PROVE  Advance(t)
<1>1. thread[t] \in ThreadState /\ thread \in [Threads -> ThreadState]
  BY DEF FolderInv, Typed
<1>2. /\ thread[t].at = "parsed" /\ thread' = [thread EXCEPT ![t].at = "clearing"]
      /\ UNCHANGED <<disk, changes, timers, removal>>
  BY DEF StoreRow
<1>3. thread[t].content \in Contents /\ thread[t].file \in Files
  BY <1>2 DEF FolderInv, StoresKnown, Storing, BusyHasFile
<1>9. /\ retired' \subseteq Contents /\ late' \subseteq Contents /\ crossed' \subseteq Contents
      /\ missed' \subseteq missed
      /\ disk[thread[t].file] # Nothing \/ thread[t].content \in late'
      /\ \A f \in Files : f \in missed => f \in missed' \/ (f = thread[t].file /\ disk[f] # Nothing)
      /\ \A c \in Contents \ {thread[t].content} : c \in late => c \in late'
  BY <1>3, SupportingAssumption DEF StoreRow, Noted, FolderInv, Typed
<1> DEFINE new == [row |-> TRUE, active |-> TRUE, file |-> thread[t].file,
                   typed |-> thread[t].typed, tables |-> docs[thread[t].content].tables]
<1>4. docs' = [docs EXCEPT ![thread[t].content] = new] /\ new \in DocState /\ new.file = thread[t].file
  BY <1>1, <1>3 DEF StoreRow, FolderInv, Typed, DocState, ThreadState
<1> HIDE DEF new
<1>5. docs' \in [Contents -> DocState]
  BY <1>4 DEF FolderInv, Typed
<1>6. \A c \in Contents : docs'[c].active => Shown(t, c)
  <2> SUFFICES ASSUME NEW c \in Contents, docs'[c].active PROVE Shown(t, c)
    OBVIOUS
  <2>1. CASE c = thread[t].content
    <3>1. docs'[c].file = thread[t].file
      BY <1>4, <2>1 DEF FolderInv, Typed
    <3> QED BY <1>3, <1>9, <2>1, <3>1 DEF Shown
  <2>2. CASE c # thread[t].content
    <3>1. docs'[c] = docs[c] /\ docs[c].file \in Files
      BY <1>4, <2>2 DEF FolderInv, Typed, HasFile
    <3> QED BY <1>2, <1>9, <2>2, <3>1 DEF Shown, Waits
  <2> QED BY <2>1, <2>2
<1>7. thread'[t] = [thread[t] EXCEPT !.at = "clearing"]
  BY <1>1, <1>2
<1>8. /\ thread'[t] \in ThreadState /\ thread'[t].file = thread[t].file /\ thread'[t].content = thread[t].content
      /\ thread'[t].at = "clearing" /\ thread' = [thread EXCEPT ![t] = thread'[t]]
  BY <1>1, <1>2, <1>7 DEF ThreadState
<1> QED BY <1>1, <1>2, <1>3, <1>5, <1>6, <1>8, <1>9 DEF Advance

LEMMA ClearTablesAdvances ==
  ASSUME FolderInv, NEW t \in Threads, ClearTables(t)
  PROVE  Advance(t)
<1>1. thread[t] \in ThreadState /\ thread \in [Threads -> ThreadState]
  BY DEF FolderInv, Typed
<1>2. /\ thread[t].at = "clearing" /\ thread' = [thread EXCEPT ![t].at = "filling"]
      /\ docs' = [docs EXCEPT ![thread[t].content].tables = 0]
      /\ UNCHANGED <<disk, changes, timers, removal, missed, retired, late, crossed>>
  BY DEF ClearTables
<1>3. thread[t].content \in Contents
  BY <1>2 DEF FolderInv, StoresKnown, Storing
<1>4. /\ docs' \in [Contents -> DocState]
      /\ \A c \in Contents : docs'[c].active = docs[c].active /\ docs'[c].file = docs[c].file
  BY <1>2, <1>3 DEF FolderInv, Typed, DocState
<1>5. \A c \in Contents : docs'[c].active => Shown(t, c)
  BY <1>2, <1>4 DEF Shown, Waits
<1>7. thread'[t] = [thread[t] EXCEPT !.at = "filling"]
  BY <1>1, <1>2
<1>8. /\ thread'[t] \in ThreadState /\ thread'[t].file = thread[t].file /\ thread'[t].content = thread[t].content
      /\ thread'[t].at = "filling" /\ thread' = [thread EXCEPT ![t] = thread'[t]]
  BY <1>1, <1>2, <1>7 DEF ThreadState
<1> QED BY <1>1, <1>2, <1>3, <1>4, <1>5, <1>8 DEF Advance, FolderInv, Typed

LEMMA FillTablesAdvances ==
  ASSUME FolderInv, NEW t \in Threads, FillTables(t)
  PROVE  Advance(t)
<1>1. thread[t] \in ThreadState /\ thread \in [Threads -> ThreadState] /\ (t \in Timers <=> t # "upload")
  BY TimersAreThreads DEF FolderInv, Typed, Threads
<1>2. /\ thread[t].at = "filling" /\ thread' = [thread EXCEPT ![t] = Ended(t)]
      /\ docs' = [docs EXCEPT ![thread[t].content].tables = @ + 1]
      /\ UNCHANGED <<disk, changes, timers, removal, missed, retired, late, crossed>>
  BY DEF FillTables
<1>3. thread[t].content \in Contents
  BY <1>2 DEF FolderInv, StoresKnown, Storing
<1>4. /\ docs' \in [Contents -> DocState]
      /\ \A c \in Contents : docs'[c].active = docs[c].active /\ docs'[c].file = docs[c].file
  BY <1>2, <1>3 DEF FolderInv, Typed, DocState
<1>5. \A c \in Contents : docs'[c].active => Shown(t, c)
  BY <1>2, <1>4 DEF Shown, Waits
<1>7. thread'[t] = IF t = "upload" THEN Free ELSE [thread[t] EXCEPT !.at = "finished"]
  BY <1>1, <1>2 DEF Ended
<1>8. CASE t = "upload"
  BY <1>1, <1>2, <1>4, <1>5, <1>7, <1>8, FreeIsState DEF Advance, Storing, FolderInv, Typed
<1>9. CASE t # "upload"
  <2>1. /\ thread'[t] \in ThreadState /\ thread'[t].file = thread[t].file
        /\ thread'[t].at = "finished" /\ thread' = [thread EXCEPT ![t] = thread'[t]]
    BY <1>1, <1>2, <1>7, <1>9 DEF ThreadState
  <2> QED BY <1>1, <1>2, <1>4, <1>5, <2>1 DEF Advance, Storing, FolderInv, Typed
<1> QED BY <1>8, <1>9

-----------------------------------------------------------------------------
LEMMA TickFolder ==
  ASSUME FolderInv, Tick
  PROVE  /\ FolderInv'
         /\ \A t \in Threads : thread'[t].at = thread[t].at /\ thread'[t].kind = thread[t].kind
                /\ thread'[t].file = thread[t].file /\ thread'[t].content = thread[t].content
<1>1. /\ \A t \in Timers : thread[t].at = "armed" => thread[t].left > 0
      /\ thread' = [t \in Threads |->
            IF thread[t].at = "armed" THEN [thread[t] EXCEPT !.left = @ - 1] ELSE thread[t]]
      /\ UNCHANGED <<disk, changes, timers, docs, removal, missed, retired, late, crossed>>
  BY DEF Tick
<1>2. ASSUME NEW t \in Threads
      PROVE  /\ thread'[t] \in ThreadState /\ thread'[t].at = thread[t].at /\ thread'[t].kind = thread[t].kind
             /\ thread'[t].file = thread[t].file /\ thread'[t].content = thread[t].content
             /\ thread'[t].left = IF thread[t].at = "armed" THEN thread[t].left - 1 ELSE thread[t].left
             /\ thread[t].left \in Nat
  <2>1. thread[t] \in ThreadState /\ (thread[t].at = "armed" => thread[t].left > 0)
    BY <1>1 DEF FolderInv, Typed, UploadsAtOnce, Threads
  <2>2. thread'[t] = IF thread[t].at = "armed" THEN [thread[t] EXCEPT !.left = @ - 1] ELSE thread[t]
    BY <1>1
  <2>3. CASE thread[t].at = "armed"
    <3>1. thread[t].left - 1 \in 0..Settle
      BY <2>1, <2>3, SupportingAssumption DEF ThreadState
    <3> QED BY <2>1, <2>2, <2>3, <3>1, SupportingAssumption DEF ThreadState
  <2>4. CASE thread[t].at # "armed"
    BY <2>1, <2>2, <2>4, SupportingAssumption DEF ThreadState
  <2> QED BY <2>3, <2>4
<1>3. \A t \in Timers, kind \in Kinds, f \in Files : Waits(t, kind, f)' <=> Waits(t, kind, f)
  BY <1>2, TimersAreThreads DEF Waits
<1>4. Typed'
  BY <1>1, <1>2 DEF FolderInv, Typed
<1>5. BusyHasFile' /\ TimersKnown' /\ UploadsAtOnce'
  <2>1. BusyHasFile' /\ UploadsAtOnce'
    BY <1>2, TimersAreThreads DEF FolderInv, BusyHasFile, UploadsAtOnce
  <2>2. \A f \in Files : timers[f] # Nothing => timers[f] \in Threads
    BY TimersAreThreads DEF FolderInv, Typed
  <2> QED BY <1>1, <1>2, <2>1, <2>2 DEF FolderInv, TimersKnown
<1>6. DeletesShort'
  <2> SUFFICES ASSUME NEW t \in Timers, NEW f \in Files, Waits(t, "delete", f)' PROVE thread'[t].left <= 1
    BY DEF DeletesShort
  <2>1. Waits(t, "delete", f)
    BY <1>3 DEF Kinds
  <2>2. thread[t].left <= 1
    BY <2>1 DEF FolderInv, DeletesShort
  <2> QED BY <1>2, <2>1, <2>2, TimersAreThreads DEF Waits
<1>7. UpsertsLast'
  <2> SUFFICES ASSUME NEW t \in Timers, NEW f \in Files, Waits(t, "delete", f)', disk[f] # Nothing
               PROVE  \E u \in Timers : Waits(u, "upsert", f)' /\ thread'[t].left < thread'[u].left
    BY <1>1 DEF UpsertsLast
  <2>1. Waits(t, "delete", f)
    BY <1>3 DEF Kinds
  <2>2. PICK u \in Timers : Waits(u, "upsert", f) /\ thread[t].left < thread[u].left
    BY <2>1 DEF FolderInv, UpsertsLast
  <2>3. thread'[t].left < thread'[u].left
    BY <1>2, <2>1, <2>2, TimersAreThreads DEF Waits
  <2> QED BY <1>3, <2>2, <2>3 DEF Kinds
<1>8. StoresKnown'
  BY <1>1, <1>2 DEF FolderInv, StoresKnown, Storing
<1>9. HasFile'
  <2> SUFFICES ASSUME NEW c \in Contents, docs[c].active, NEW f, f = docs[c].file
               PROVE  f \in Files /\ (disk[f] # Nothing \/ f \in missed \/ c \in late
                                       \/ \E t \in Timers : Waits(t, "delete", f)')
    BY <1>1 DEF HasFile, Waits
  <2> QED BY <1>3 DEF FolderInv, HasFile, Kinds
<1> QED BY <1>2, <1>4, <1>5, <1>6, <1>7, <1>8, <1>9 DEF FolderInv

(* A death frees the threads it takes, and notes their files.               *)
LEMMA RestartThreads ==
  ASSUME FolderInv, NEW died, Restart(died)
  PROVE  /\ \A t \in Threads :
              \/ thread'[t] = thread[t] /\ (t \in Timers => "watcher" \notin died)
              \/ /\ thread'[t] = Free /\ (t \in Timers => "watcher" \in died)
                 /\ thread[t].at \notin {"free", "finished"} => thread[t].file \in missed'
         /\ thread' = [t \in Threads |-> thread'[t]]
         /\ missed \subseteq missed' /\ missed' \subseteq Files
         /\ timers' = IF "watcher" \in died THEN [f \in Files |-> Nothing] ELSE timers
         /\ removal' \in {removal, Nothing} /\ (removal' # removal => removal \in missed')
         /\ UNCHANGED <<disk, docs, retired, late, crossed>> /\ changes' \in 0..MaxChanges
<1> DEFINE Dead == (IF "watcher" \in died THEN Timers ELSE {})
                     \cup (IF "api" \in died THEN {"upload"} ELSE {})
<1>1. /\ changes < MaxChanges /\ changes' = changes + 1
      /\ missed' = missed
           \cup {thread[t].file : t \in {u \in Dead : thread[u].at \notin {"free", "finished"}}}
           \cup (IF "api" \in died THEN {removal} \ {Nothing} ELSE {})
      /\ thread' = [t \in Threads |-> IF t \in Dead THEN Free ELSE thread[t]]
      /\ timers' = IF "watcher" \in died THEN [f \in Files |-> Nothing] ELSE timers
      /\ removal' = IF "api" \in died THEN Nothing ELSE removal
      /\ UNCHANGED <<disk, docs, retired, late, crossed>>
  BY DEF Restart
<1>2. \A t \in Dead : t \in Threads /\ (t \in Timers => "watcher" \in died)
  BY TimersAreThreads
<1>3. \A t \in Timers : "watcher" \in died => t \in Dead
  OBVIOUS
<1> HIDE DEF Dead
<1>4. changes' \in 0..MaxChanges
  BY <1>1, SupportingAssumption DEF FolderInv, Typed
<1>5. \A t \in Dead : thread[t].at # "free" => thread[t].file \in Files
  BY <1>2 DEF FolderInv, BusyHasFile
<1>6. missed' \subseteq Files
  BY <1>1, <1>5 DEF FolderInv, Typed
<1>7. \A t \in Dead : thread[t].at \notin {"free", "finished"} => thread[t].file \in missed'
  BY <1>1
<1>8. removal' \in {removal, Nothing} /\ (removal' # removal => removal \in missed')
  BY <1>1
<1>9. \A t \in Threads : thread'[t] = IF t \in Dead THEN Free ELSE thread[t]
  BY <1>1
<1> QED BY <1>1, <1>2, <1>3, <1>4, <1>6, <1>7, <1>8, <1>9

LEMMA RestartFolder ==
  ASSUME FolderInv, NEW died, Restart(died)
  PROVE  FolderInv'
<1>1. thread' \in [Threads -> ThreadState]
  <2>1. \A t \in Threads : thread'[t] \in ThreadState
    BY RestartThreads, FreeIsState DEF FolderInv, Typed
  <2> QED BY <2>1, RestartThreads
<1>2. timers' \in [Files -> Timers \cup {Nothing}]
  BY RestartThreads DEF FolderInv, Typed
<1>3. Typed'
  BY <1>1, <1>2, RestartThreads DEF FolderInv, Typed
<1>4. BusyHasFile' /\ UploadsAtOnce'
  BY RestartThreads, FreeIsState, TimersAreThreads DEF FolderInv, BusyHasFile, UploadsAtOnce
<1>5. TimersKnown'
  <2> SUFFICES ASSUME NEW f \in Files, timers'[f] # Nothing
               PROVE  thread'[timers'[f]].at # "free" /\ thread'[timers'[f]].file = f
    BY DEF TimersKnown
  <2>1. "watcher" \notin died /\ timers'[f] = timers[f]
    BY RestartThreads
  <2>2. timers[f] \in Timers /\ timers[f] \in Threads
    BY <2>1, TimersAreThreads DEF FolderInv, Typed
  <2>3. thread'[timers[f]] = thread[timers[f]]
    BY <2>1, <2>2, RestartThreads
  <2> QED BY <2>1, <2>3 DEF FolderInv, TimersKnown
<1>6. \A t \in Timers : thread'[t].at = "armed" => "watcher" \notin died /\ thread'[t] = thread[t]
  BY RestartThreads, FreeIsState, TimersAreThreads
<1>7. \A t \in Timers : "watcher" \notin died => thread'[t] = thread[t]
  BY RestartThreads, TimersAreThreads
<1>8. DeletesShort'
  BY <1>6 DEF FolderInv, DeletesShort, Waits
<1>9. UpsertsLast'
  <2> SUFFICES ASSUME NEW t \in Timers, NEW f \in Files, Waits(t, "delete", f)', disk[f] # Nothing
               PROVE  \E u \in Timers : Waits(u, "upsert", f)' /\ thread'[t].left < thread'[u].left
    BY RestartThreads DEF UpsertsLast
  <2>1. "watcher" \notin died /\ thread'[t] = thread[t] /\ Waits(t, "delete", f)
    BY <1>6 DEF Waits
  <2>2. PICK u \in Timers : Waits(u, "upsert", f) /\ thread[t].left < thread[u].left
    BY <2>1 DEF FolderInv, UpsertsLast
  <2>3. thread'[u] = thread[u]
    BY <1>7, <2>1
  <2> QED BY <2>1, <2>2, <2>3 DEF Waits
<1>10. StoresKnown'
  BY RestartThreads, FreeIsState DEF FolderInv, StoresKnown, Storing
<1>11. HasFile'
  <2> SUFFICES ASSUME NEW c \in Contents, docs[c].active, NEW f, f = docs[c].file
               PROVE  /\ f \in Files
                      /\ disk[f] # Nothing \/ f \in missed' \/ c \in late \/ \E t \in Timers : Waits(t, "delete", f)'
    BY RestartThreads DEF HasFile, Waits
  <2>1. \A t \in Timers : Waits(t, "delete", f) => f \in missed' \/ Waits(t, "delete", f)'
    BY RestartThreads, TimersAreThreads DEF Waits
  <2> QED BY <2>1, RestartThreads DEF FolderInv, HasFile
<1> QED BY <1>3, <1>4, <1>5, <1>8, <1>9, <1>10, <1>11 DEF FolderInv

LEMMA DeactivateFolder ==
  ASSUME FolderInv, NEW c \in Contents, Deactivate(c)
  PROVE  FolderInv'
<1>1. /\ changes < MaxChanges /\ changes' = changes + 1
      /\ docs' = [docs EXCEPT ![c].active = FALSE] /\ retired' = retired \cup {c}
      /\ UNCHANGED <<disk, thread, timers, removal, missed, late, crossed>>
  BY DEF Deactivate
<1>2. changes' \in 0..MaxChanges
  BY <1>1, SupportingAssumption DEF FolderInv, Typed
<1>3. docs' \in [Contents -> DocState] /\ \A d \in Contents : docs'[d].active => docs'[d] = docs[d]
  BY <1>1 DEF FolderInv, Typed, DocState
<1>4. Typed'
  BY <1>1, <1>2, <1>3 DEF FolderInv, Typed
<1>5. HasFile'
  BY <1>1, <1>3 DEF FolderInv, HasFile, Waits
<1> QED BY <1>1, <1>4, <1>5 DEF FolderInv, BusyHasFile, TimersKnown, UploadsAtOnce, DeletesShort,
                                UpsertsLast, StoresKnown, Waits, Storing

(* A hard delete ends whoever is in the middle of storing its row.          *)
LEMMA DeleteRowThreads ==
  ASSUME FolderInv, NEW c \in Contents, DeleteRow(c), NEW t \in Threads
  PROVE  /\ ~Rewrites(t, c) => thread'[t] = thread[t]
         /\ Rewrites(t, c) => /\ thread'[t] \in ThreadState /\ thread'[t].at \in {"finished", "free"}
                             /\ (t \in Timers => thread'[t].at = "finished")
                             /\ (thread'[t].at # "free" => thread'[t].file = thread[t].file)
<1>1. thread'[t] = IF Rewrites(t, c) THEN Ended(t) ELSE thread[t]
  BY DEF DeleteRow, Rewrites
<1>2. thread[t] \in ThreadState
  BY DEF FolderInv, Typed
<1>3. [thread[t] EXCEPT !.at = "finished"] \in ThreadState
      /\ [thread[t] EXCEPT !.at = "finished"].at = "finished"
      /\ [thread[t] EXCEPT !.at = "finished"].file = thread[t].file
  BY <1>2 DEF ThreadState
<1> QED BY <1>1, <1>3, FreeIsState, TimersAreThreads DEF Ended

LEMMA DeleteRowFolder ==
  ASSUME FolderInv, NEW c \in Contents, DeleteRow(c)
  PROVE  FolderInv'
<1>1. /\ changes < MaxChanges /\ changes' = changes + 1 /\ removal' = docs[c].file
      /\ docs' = [docs EXCEPT ![c] = NoDoc] /\ retired' = retired \ {c}
      /\ thread' = [t \in Threads |-> thread'[t]]
      /\ UNCHANGED <<disk, timers, missed, late, crossed>>
  BY DEF DeleteRow
<1>2. changes' \in 0..MaxChanges
  BY <1>1, SupportingAssumption DEF FolderInv, Typed
<1>3. NoDoc \in DocState /\ ~NoDoc.active
  BY DEF NoDoc, DocState
<1>4. docs' \in [Contents -> DocState] /\ \A d \in Contents : docs'[d].active => docs'[d] = docs[d]
  BY <1>1, <1>3 DEF FolderInv, Typed
<1>5. docs[c].file \in Files \cup {Nothing}
  BY DEF FolderInv, Typed, DocState
<1>6. thread' \in [Threads -> ThreadState]
  <2>1. \A t \in Threads : thread'[t] \in ThreadState
    BY DeleteRowThreads DEF FolderInv, Typed
  <2> QED BY <1>1, <2>1
<1>7. Typed'
  BY <1>1, <1>2, <1>4, <1>5, <1>6 DEF FolderInv, Typed
<1>8. \A t \in Timers, kind \in Kinds, f \in Files :
        /\ Waits(t, kind, f)' <=> Waits(t, kind, f)
        /\ Waits(t, kind, f) => thread'[t] = thread[t]
  BY DeleteRowThreads, TimersAreThreads DEF Waits, Rewrites, Rewriting
<1>9. BusyHasFile' /\ UploadsAtOnce'
  BY DeleteRowThreads, TimersAreThreads DEF FolderInv, BusyHasFile, UploadsAtOnce, Rewrites, Rewriting
<1>10. TimersKnown'
  <2> SUFFICES ASSUME NEW f \in Files, timers[f] # Nothing
               PROVE  thread'[timers[f]].at # "free" /\ thread'[timers[f]].file = f
    BY <1>1 DEF TimersKnown
  <2>1. timers[f] \in Timers /\ timers[f] \in Threads
    BY TimersAreThreads DEF FolderInv, Typed
  <2>2. thread[timers[f]].at # "free" /\ thread[timers[f]].file = f
    BY DEF FolderInv, TimersKnown
  <2> QED BY <2>1, <2>2, DeleteRowThreads
<1>11. DeletesShort' /\ UpsertsLast'
  <2>1. DeletesShort'
    BY <1>8 DEF FolderInv, DeletesShort, Kinds
  <2>2. UpsertsLast'
    BY <1>1, <1>8 DEF FolderInv, UpsertsLast, Kinds
  <2> QED BY <2>1, <2>2
<1>12. StoresKnown'
  BY DeleteRowThreads DEF FolderInv, StoresKnown, Storing
<1>13. HasFile'
  <2> SUFFICES ASSUME NEW d \in Contents, docs[d].active, docs'[d] = docs[d], NEW f, f = docs[d].file
               PROVE  /\ f \in Files
                      /\ disk[f] # Nothing \/ f \in missed \/ d \in late \/ \E t \in Timers : Waits(t, "delete", f)'
    BY <1>1, <1>4 DEF HasFile, Waits
  <2> QED BY <1>8 DEF FolderInv, HasFile, Kinds
<1> QED BY <1>7, <1>9, <1>10, <1>11, <1>12, <1>13 DEF FolderInv

LEMMA DeleteNothing ==
  ASSUME FolderInv, DeleteFile, disk[removal] = Nothing
  PROVE  /\ FolderInv' /\ removal' = Nothing
         /\ UNCHANGED <<disk, changes, thread, timers, docs, missed, retired, late, crossed>>
<1>1. removal \in Files /\ removal' = Nothing
  BY DEF DeleteFile, FolderInv, Typed
<1>2. disk' = disk
  BY <1>1 DEF DeleteFile, FolderInv, Typed
<1>3. UNCHANGED <<disk, changes, thread, timers, docs, missed, retired, late, crossed>>
  BY <1>2 DEF DeleteFile
<1> QED BY <1>1, <1>3 DEF FolderInv, Typed, BusyHasFile, TimersKnown, UploadsAtOnce, DeletesShort,
                                UpsertsLast, StoresKnown, HasFile, Waits, Storing

LEMMA InitFolder == Init => FolderInv
<1> SUFFICES ASSUME Init PROVE FolderInv
  OBVIOUS
<1>1. \A t \in Threads : thread[t] = Free
  BY DEF Init
<1>2. NoDoc \in DocState /\ ~NoDoc.active
  BY DEF NoDoc, DocState
<1>3. Typed
  BY <1>2, FreeIsState, SupportingAssumption DEF Init, Typed
<1>4. BusyHasFile /\ TimersKnown /\ UploadsAtOnce /\ DeletesShort /\ UpsertsLast /\ StoresKnown
  BY <1>1, FreeIsState, TimersAreThreads
     DEF Init, BusyHasFile, TimersKnown, UploadsAtOnce, DeletesShort, UpsertsLast, StoresKnown,
         Waits, Storing
<1>5. HasFile
  BY <1>2 DEF Init, HasFile
<1> QED BY <1>3, <1>4, <1>5 DEF FolderInv

LEMMA StepFolder ==
  ASSUME FolderInv, [Next]_vars
  PROVE  FolderInv'
<1>1. ASSUME NEW t \in Timers, FireDelete(t) \/ FireUpsert(t) \/ Pop(t) PROVE FolderInv'
  BY <1>1, FireDeleteAdvances, FireUpsertAdvances, PopAdvances, AdvanceFolder, TimersAreThreads
<1>2. ASSUME NEW t \in Threads, StoreRow(t) \/ ClearTables(t) \/ FillTables(t) PROVE FolderInv'
  BY <1>2, StoreRowAdvances, ClearTablesAdvances, FillTablesAdvances, AdvanceFolder
<1>3. ASSUME NEW f \in Files, Remove(f) \/ (\E c \in Contents : Drop(f, c)) \/ (\E g \in Files : Rename(f, g))
      PROVE  FolderInv'
  BY <1>3, RemoveChanges, DropChanges, RenameChanges, ChangeFolder
<1>4. ASSUME NEW c \in Contents, Deactivate(c) \/ DeleteRow(c) \/ \E typed \in BOOLEAN : Upload(c, typed)
      PROVE  FolderInv'
  BY <1>4, DeactivateFolder, DeleteRowFolder, UploadChanges, ChangeFolder
<1>5. CASE DeleteFile
  BY <1>5, DeleteNothing, DeleteFileChanges, ChangeFolder
<1>6. CASE Tick \/ \E died : Restart(died)
  BY <1>6, TickFolder, RestartFolder
<1>7. CASE UNCHANGED vars
  BY <1>7 DEF vars, FolderInv, Typed, BusyHasFile, TimersKnown, UploadsAtOnce, DeletesShort,
              UpsertsLast, StoresKnown, HasFile, Waits, Storing
<1> QED BY <1>1, <1>2, <1>3, <1>4, <1>5, <1>6, <1>7 DEF Next

LEMMA SpecFolder == Spec => []FolderInv
<1>1. Init => FolderInv
  BY InitFolder
<1>2. FolderInv /\ [Next]_vars => FolderInv'
  BY StepFolder
<1> QED BY <1>1, <1>2, PTL DEF Spec

(* The folder, its threads and its rows keep their types, whatever runs     *)
(* side by side: nobody stores a content that no file ever held.            *)
THEOREM SupportingTypes == Spec => []TypeOK
<1>1. FolderInv => TypeOK
  BY DEF FolderInv, Typed, TypeOK, ThreadState, DocState, Kinds
<1> QED BY <1>1, SpecFolder, PTL

(* A delete that still waits for a file which came back is followed by an   *)
(* upsert of that file: whichever timers the dictionary lost to the         *)
(* unlocked pop, the document is withdrawn first and stored last            *)
(* (_schedule).                                                             *)
THEOREM ReturnedFilesAreStoredLast == Spec => []UpsertsLast
<1>1. FolderInv => UpsertsLast
  BY DEF FolderInv
<1> QED BY <1>1, SpecFolder, PTL

(* An offered document has its file, so no draft cites a file that 404s     *)
(* (delete, supporting_file), whatever was removed, moved or overwritten    *)
(* and however many names a content has, except in the middle of the ingest *)
(* that stored the document last.                                           *)
THEOREM OfferedDocumentsHaveFiles == Spec => []OfferedHasFile
<1>1. FolderInv => OfferedHasFile
  BY TimersAreThreads DEF FolderInv, HasFile, OfferedHasFile, Settled, Waits
<1> QED BY <1>1, SpecFolder, PTL
-----------------------------------------------------------------------------
LEMMA AdvancePending ==
  ASSUME FolderInv, NEW t \in Threads, Advance(t), NEW f \in Files, Pending(f),
         \/ thread[t].file # f \/ thread[t].at \notin {"armed", "parsed"} \/ Waits(t, "delete", f)
         \/ thread[t].at = "parsed" /\ thread[t].content # disk[f]
         \/ thread'[t].at = "parsed" /\ thread'[t].file = f /\ thread'[t].content = disk[f]
  PROVE  Pending(f)'
<1>0. disk' = disk
  BY DEF Advance
<1>1. CASE \E u \in Timers : Waits(u, "upsert", f) /\ u # t
  BY <1>1, AdvanceOthers DEF Pending, Kinds
<1>2. CASE \E u \in Threads \ {t} : thread[u].at = "parsed" /\ thread[u].file = f /\ thread[u].content = disk[f]
  BY <1>0, <1>2, AdvanceOthers DEF Pending
<1>3. CASE \/ Waits(t, "upsert", f)
           \/ thread[t].at = "parsed" /\ thread[t].file = f /\ thread[t].content = disk[f]
  BY <1>0, <1>3 DEF Pending, Waits
<1> QED BY <1>1, <1>2, <1>3 DEF Pending

LEMMA AdvanceRewrites ==
  ASSUME FolderInv, NEW t \in Threads, Advance(t), NEW u \in Threads \ {t}, NEW c
  PROVE  (Rewrites(u, c)' <=> Rewrites(u, c)) /\ thread'[u] = thread[u]
BY AdvanceOthers DEF Rewrites, Rewriting

(* What the actions of one thread do to the rows.                           *)
LEMMA FireDeleteRows ==
  ASSUME FolderInv, NEW t \in Timers, FireDelete(t)
  PROVE  \E f \in Files :
           /\ f = thread[t].file /\ t \in Threads /\ Advance(t) /\ Waits(t, "delete", f) /\ thread[t].left = 0
           /\ missed' = missed \ {f} /\ UNCHANGED <<disk, removal, retired, late, crossed>>
           /\ \A c : ~Rewrites(t, c) /\ ~Rewrites(t, c)'
           /\ \A c \in Contents :
                /\ docs[c].file # f => docs'[c] = docs[c]
                /\ docs'[c].active => docs[c].file # f /\ docs'[c] = docs[c]
                /\ docs'[c].tables = docs[c].tables /\ docs'[c].file = docs[c].file
<1>1. t \in Threads /\ thread[t].at = "armed" /\ thread[t].file \in Files
  BY TimersAreThreads DEF FireDelete, Due, FolderInv, BusyHasFile
<1> PICK f \in Files : f = thread[t].file
  BY <1>1
<1>2. thread'[t].at = "finished"
  <2>1. thread' = [thread EXCEPT ![t].at = "finished"]
    BY DEF FireDelete
  <2> QED BY <1>1, <2>1 DEF FolderInv, Typed, ThreadState
<1>3. /\ Advance(t) /\ Waits(t, "delete", f) /\ thread[t].left = 0
      /\ missed' = missed \ {f} /\ UNCHANGED <<disk, removal, retired, late, crossed>>
  BY FireDeleteAdvances DEF FireDelete, Due, Waits
<1>4. docs' = [c \in Contents |-> IF docs[c].file = f THEN [docs[c] EXCEPT !.active = FALSE] ELSE docs[c]]
  BY DEF FireDelete
<1>5. ASSUME NEW c \in Contents
      PROVE  /\ docs[c].file # f => docs'[c] = docs[c]
             /\ docs'[c].active => docs[c].file # f /\ docs'[c] = docs[c]
             /\ docs'[c].tables = docs[c].tables /\ docs'[c].file = docs[c].file
  <2>1. docs[c] \in DocState
    BY DEF FolderInv, Typed
  <2>2. /\ [docs[c] EXCEPT !.active = FALSE].active = FALSE
        /\ [docs[c] EXCEPT !.active = FALSE].tables = docs[c].tables
        /\ [docs[c] EXCEPT !.active = FALSE].file = docs[c].file
    BY <2>1 DEF DocState
  <2> QED BY <1>4, <2>2
<1> QED BY <1>1, <1>2, <1>3, <1>5 DEF Rewrites, Rewriting

LEMMA FireUpsertReads ==
  ASSUME FolderInv, NEW t \in Timers, FireUpsert(t)
  PROVE  /\ t \in Threads /\ Advance(t)
         /\ UNCHANGED <<disk, docs, retired, missed, removal, late, crossed>>
         /\ \A u \in Threads : Rewriting(u)' => Rewriting(u) /\ thread'[u] = thread[u]
         /\ \A u \in Threads : Rewriting(u) => Rewriting(u)'
         /\ \A f \in Files : Pending(f) => Pending(f)' \/ disk[f] = Nothing
<1>1. t \in Threads /\ Advance(t) /\ thread[t].at = "armed"
      /\ UNCHANGED <<disk, docs, retired, missed, removal, late, crossed>>
  BY FireUpsertAdvances, TimersAreThreads DEF FireUpsert, Due
<1>2. /\ thread'[t].file = thread[t].file /\ thread'[t].content = disk[thread[t].file]
      /\ thread'[t].at = IF disk[thread[t].file] = Nothing THEN "finished" ELSE "parsed"
  BY <1>1 DEF FireUpsert, FolderInv, Typed, ThreadState
<1>3. \A u \in Threads : (Rewriting(u)' <=> Rewriting(u)) /\ (Rewriting(u) => thread'[u] = thread[u])
  BY <1>1, <1>2, AdvanceOthers DEF Rewriting
<1>4. \A f \in Files : Pending(f) => Pending(f)' \/ disk[f] = Nothing
  <2> SUFFICES ASSUME NEW f \in Files, Pending(f), disk[f] # Nothing PROVE Pending(f)'
    OBVIOUS
  <2>1. CASE thread[t].file # f
    BY <1>1, <2>1, AdvancePending
  <2>2. CASE thread[t].file = f
    BY <1>1, <1>2, <2>2, AdvancePending
  <2> QED BY <2>1, <2>2
<1> QED BY <1>1, <1>3, <1>4

LEMMA PopEnds ==
  ASSUME FolderInv, NEW t \in Timers, Pop(t)
  PROVE  /\ UNCHANGED <<disk, docs, retired, missed, removal, late, crossed>>
         /\ \A u \in Threads : Rewriting(u)' => Rewriting(u) /\ thread'[u] = thread[u]
         /\ \A u \in Threads : Rewriting(u) => Rewriting(u)'
         /\ \A f \in Files : Pending(f) => Pending(f)'
<1>1. t \in Threads /\ Advance(t) /\ thread[t].at = "finished"
      /\ UNCHANGED <<disk, docs, retired, missed, removal, late, crossed>>
  BY PopAdvances, TimersAreThreads DEF Pop
<1>2. thread'[t] = Free
  BY <1>1 DEF Pop, FolderInv, Typed
<1>3. \A u \in Threads : (Rewriting(u)' <=> Rewriting(u)) /\ (Rewriting(u) => thread'[u] = thread[u])
  BY <1>1, <1>2, AdvanceOthers, FreeIsState DEF Rewriting
<1>4. \A f \in Files : Pending(f) => Pending(f)'
  BY <1>1, AdvancePending
<1> QED BY <1>1, <1>3, <1>4

LEMMA StoreRowWrites ==
  ASSUME FolderInv, NEW t \in Threads, StoreRow(t)
  PROVE  \E c \in Contents, f \in Files :
           /\ c = thread[t].content /\ f = thread[t].file /\ Advance(t) /\ thread[t].at = "parsed"
           /\ thread'[t].at = "clearing" /\ thread'[t].content = c /\ thread'[t].file = f
           /\ docs'[c].row /\ docs'[c].active /\ docs'[c].file = f
           /\ \A d \in Contents \ {c} : docs'[d] = docs[d]
           /\ retired' = retired \ {c} /\ UNCHANGED <<disk, removal>>
           /\ \/ disk[f] = c /\ late' = late \ {c} /\ missed' = missed \ {f}
              \/ disk[f] # c /\ late' = late \cup {c} /\ missed' = missed
           /\ crossed' = IF \E u \in Threads \ {t} : Rewrites(u, c) THEN crossed \cup {c} ELSE crossed \ {c}
<1>1. Advance(t) /\ thread[t].at = "parsed" /\ thread' = [thread EXCEPT ![t].at = "clearing"]
      /\ UNCHANGED <<disk, removal>>
  BY StoreRowAdvances DEF StoreRow
<1>2. PICK c \in Contents, f \in Files : c = thread[t].content /\ f = thread[t].file
  BY <1>1 DEF FolderInv, StoresKnown, BusyHasFile, Storing
<1>3. docs' = [docs EXCEPT ![c] = [row |-> TRUE, active |-> TRUE, file |-> f,
                                   typed |-> thread[t].typed, tables |-> docs[c].tables]]
  BY <1>2 DEF StoreRow
<1>4. thread'[t].at = "clearing" /\ thread'[t].content = c /\ thread'[t].file = f
  BY <1>1, <1>2 DEF FolderInv, Typed, ThreadState
<1>5. docs'[c].row /\ docs'[c].active /\ docs'[c].file = f /\ \A d \in Contents \ {c} : docs'[d] = docs[d]
  BY <1>3 DEF FolderInv, Typed
<1>6. /\ retired' = retired \ {c}
      /\ \/ disk[f] = c /\ late' = late \ {c} /\ missed' = missed \ {f}
         \/ disk[f] # c /\ late' = late \cup {c} /\ missed' = missed
  BY <1>2 DEF StoreRow, Noted
<1>7. crossed' = IF \E u \in Threads \ {t} : Rewrites(u, c) THEN crossed \cup {c} ELSE crossed \ {c}
  BY <1>2 DEF StoreRow, Noted, Rewrites
<1> QED BY <1>1, <1>2, <1>4, <1>5, <1>6, <1>7

LEMMA ClearTablesWrites ==
  ASSUME FolderInv, NEW t \in Threads, ClearTables(t)
  PROVE  \E c \in Contents :
           /\ Advance(t) /\ Rewrites(t, c) /\ Rewrites(t, c)' /\ thread'[t].file = thread[t].file
           /\ docs'[c].tables = 0 /\ \A d \in Contents \ {c} : docs'[d] = docs[d]
           /\ \A d \in Contents : /\ docs'[d].row = docs[d].row /\ docs'[d].active = docs[d].active
                                  /\ docs'[d].file = docs[d].file
           /\ UNCHANGED <<disk, removal, missed, retired, late, crossed>>
<1>1. /\ Advance(t) /\ thread[t].at = "clearing" /\ thread' = [thread EXCEPT ![t].at = "filling"]
      /\ UNCHANGED <<disk, removal, missed, retired, late, crossed>>
  BY ClearTablesAdvances DEF ClearTables
<1>2. PICK c \in Contents : c = thread[t].content
  BY <1>1 DEF FolderInv, StoresKnown, Storing
<1>3. docs' = [docs EXCEPT ![c].tables = 0]
  BY <1>2 DEF ClearTables
<1>4. thread'[t].at = "filling" /\ thread'[t].content = c /\ thread'[t].file = thread[t].file
  BY <1>1, <1>2 DEF FolderInv, Typed, ThreadState
<1>5. /\ docs'[c].tables = 0 /\ \A d \in Contents \ {c} : docs'[d] = docs[d]
      /\ docs'[c].row = docs[c].row /\ docs'[c].active = docs[c].active /\ docs'[c].file = docs[c].file
  BY <1>3 DEF FolderInv, Typed, DocState
<1> QED BY <1>1, <1>2, <1>4, <1>5 DEF Rewrites, Rewriting

LEMMA FillTablesWrites ==
  ASSUME FolderInv, NEW t \in Threads, FillTables(t)
  PROVE  \E c \in Contents :
           /\ Advance(t) /\ Rewrites(t, c) /\ thread[t].at = "filling" /\ \A d : ~Rewrites(t, d)'
           /\ docs'[c].tables = docs[c].tables + 1 /\ \A d \in Contents \ {c} : docs'[d] = docs[d]
           /\ \A d \in Contents : /\ docs'[d].row = docs[d].row /\ docs'[d].active = docs[d].active
                                  /\ docs'[d].file = docs[d].file
           /\ UNCHANGED <<disk, removal, missed, retired, late, crossed>>
<1>1. /\ Advance(t) /\ thread[t].at = "filling" /\ thread' = [thread EXCEPT ![t] = Ended(t)]
      /\ UNCHANGED <<disk, removal, missed, retired, late, crossed>>
  BY FillTablesAdvances DEF FillTables
<1>2. PICK c \in Contents : c = thread[t].content
  BY <1>1 DEF FolderInv, StoresKnown, Storing
<1>3. docs' = [docs EXCEPT ![c].tables = @ + 1]
  BY <1>2 DEF FillTables
<1>4. thread'[t].at \in {"finished", "free"}
  BY <1>1, FreeIsState DEF FolderInv, Typed, ThreadState, Ended
<1>5. /\ docs'[c].row = docs[c].row /\ docs'[c].active = docs[c].active /\ docs'[c].file = docs[c].file
      /\ docs'[c].tables = docs[c].tables + 1 /\ \A d \in Contents \ {c} : docs'[d] = docs[d]
  <2>1. docs[c] \in DocState /\ docs \in [Contents -> DocState]
    BY DEF FolderInv, Typed
  <2>2. docs' = [docs EXCEPT ![c] = [docs[c] EXCEPT !.tables = docs[c].tables + 1]]
    BY <1>3, <2>1
  <2> QED BY <2>1, <2>2 DEF DocState
<1> QED BY <1>1, <1>2, <1>4, <1>5 DEF Rewrites, Rewriting

LEMMA TickStays ==
  ASSUME FolderInv, Tick
  PROVE  /\ UNCHANGED <<disk, docs, retired, missed, removal, late, crossed>>
         /\ \A u \in Threads : Rewriting(u)' <=> Rewriting(u)
         /\ \A f \in Files : Pending(f) => Pending(f)'
<1>1. UNCHANGED <<disk, docs, retired, missed, removal, late, crossed>>
  BY DEF Tick
<1> QED BY <1>1, TickFolder, TimersAreThreads DEF Rewriting, Pending, Waits

LEMMA RestartLoses ==
  ASSUME FolderInv, NEW died, Restart(died)
  PROVE  \A f \in Files : Pending(f) => Pending(f)' \/ f \in missed'
<1> SUFFICES ASSUME NEW f \in Files, Pending(f), f \notin missed' PROVE Pending(f)'
  OBVIOUS
<1>1. disk' = disk
  BY RestartThreads
<1>2. CASE \E u \in Timers : Waits(u, "upsert", f)
  BY <1>2, RestartThreads, TimersAreThreads DEF Pending, Waits
<1>3. CASE \E u \in Threads : thread[u].at = "parsed" /\ thread[u].file = f /\ thread[u].content = disk[f]
  BY <1>1, <1>3, RestartThreads DEF Pending
<1> QED BY <1>2, <1>3 DEF Pending

LEMMA DeleteRowEnds ==
  ASSUME FolderInv, NEW c \in Contents, DeleteRow(c)
  PROVE  /\ \A u \in Threads, d \in Contents : Rewrites(u, d)' <=> Rewrites(u, d) /\ d # c
         /\ \A u \in Threads, d \in Contents : Rewrites(u, d)' => thread'[u] = thread[u]
         /\ \A f \in Files : Pending(f) => Pending(f)'
         /\ docs'[c] = NoDoc /\ ~NoDoc.active /\ \A d \in Contents \ {c} : docs'[d] = docs[d]
         /\ UNCHANGED <<disk, missed, late, crossed>> /\ retired' = retired \ {c}
         /\ removal = Nothing /\ removal' = docs[c].file
<1>1. /\ removal = Nothing /\ removal' = docs[c].file /\ docs' = [docs EXCEPT ![c] = NoDoc]
      /\ retired' = retired \ {c} /\ UNCHANGED <<disk, missed, late, crossed>>
  BY DEF DeleteRow
<1>2. docs'[c] = NoDoc /\ ~NoDoc.active /\ \A d \in Contents \ {c} : docs'[d] = docs[d]
  BY <1>1 DEF FolderInv, Typed, NoDoc
<1>3. \A u \in Threads, d \in Contents : Rewrites(u, d)' <=> Rewrites(u, d) /\ d # c
  BY DeleteRowThreads DEF Rewrites, Rewriting
<1>4. \A u \in Threads, d \in Contents : Rewrites(u, d)' => thread'[u] = thread[u]
  BY DeleteRowThreads DEF Rewrites, Rewriting
<1>5. \A f \in Files : Pending(f) => Pending(f)'
  <2>1. \A u \in Threads : thread[u].at \in {"armed", "parsed"} => thread'[u] = thread[u]
    BY DeleteRowThreads DEF Rewrites, Rewriting
  <2> QED BY <1>1, <2>1, TimersAreThreads DEF Pending, Waits
<1> QED BY <1>1, <1>2, <1>3, <1>4, <1>5

-----------------------------------------------------------------------------
(* The tables, whatever lies in the folder twice.                           *)

(* A step that leaves the documents and who rewrites them alone, or notes   *)
(* the file of whom it stops.                                               *)
LEMMA QuietTables ==
  ASSUME FolderInv, TableInv, UNCHANGED <<disk, docs, crossed>>, missed \subseteq missed',
         \A u \in Threads : Rewriting(u)' => Rewriting(u) /\ thread'[u].file = thread[u].file
                               /\ thread'[u].content = thread[u].content /\ thread'[u].at = thread[u].at,
         \A u \in Threads : Rewriting(u) => Rewriting(u)' \/ thread[u].file \in missed',
         \A f \in Files : Pending(f) => Pending(f)' \/ disk[f] = Nothing \/ f \in missed'
  PROVE  TableInv'
<1>1. \A u \in Threads, c \in Contents : Rewrites(u, c)' => Rewrites(u, c)
  BY DEF Rewrites
<1>2. Single'
  BY <1>1 DEF TableInv, Single
<1>3. Cleared'
  BY <1>1 DEF TableInv, Cleared, Rewrites
<1>4. Whole'
  <2> SUFFICES ASSUME NEW c \in Contents \ crossed, docs[c].active, NEW f \in Files, f = docs[c].file, disk[f] = c
               PROVE  \/ docs[c].tables = 1 \/ f \in missed' \/ Pending(f)'
                      \/ \E u \in Threads : Rewrites(u, c)'
    BY DEF Whole, WillBeWhole, Pending, Waits
  <2>1. WillBeWhole(c) /\ disk[f] # Nothing
    BY SupportingAssumption DEF TableInv, Whole
  <2>2. \A u \in Threads : Rewrites(u, c) => Rewrites(u, c)' \/ f \in missed'
    BY DEF TableInv, Cleared, Rewrites
  <2> QED BY <2>1, <2>2 DEF WillBeWhole
<1> QED BY <1>2, <1>3, <1>4 DEF TableInv

LEMMA FireDeleteTables ==
  ASSUME FolderInv, TableInv, NEW t \in Timers, FireDelete(t)
  PROVE  TableInv'
<1> PICK f \in Files :
           /\ f = thread[t].file /\ t \in Threads /\ Advance(t) /\ Waits(t, "delete", f) /\ thread[t].left = 0
           /\ missed' = missed \ {f} /\ UNCHANGED <<disk, removal, retired, late, crossed>>
           /\ \A c : ~Rewrites(t, c) /\ ~Rewrites(t, c)'
           /\ \A c \in Contents :
                /\ docs[c].file # f => docs'[c] = docs[c]
                /\ docs'[c].active => docs[c].file # f /\ docs'[c] = docs[c]
                /\ docs'[c].tables = docs[c].tables /\ docs'[c].file = docs[c].file
  BY FireDeleteRows
<1>1. \A u \in Threads, c \in Contents :
        (Rewrites(u, c)' <=> Rewrites(u, c)) /\ (Rewrites(u, c) => thread'[u] = thread[u])
  BY AdvanceRewrites
<1>2. Single' /\ Cleared'
  BY <1>1 DEF TableInv, Single, Cleared
<1>3. Whole'
  <2> SUFFICES ASSUME NEW c \in Contents \ crossed, docs'[c].active, NEW g \in Files, g = docs'[c].file, disk[g] = c
               PROVE  \/ docs'[c].tables = 1 \/ g \in missed' \/ Pending(g)'
                      \/ \E u \in Threads : Rewrites(u, c)'
    BY DEF Whole, WillBeWhole, Pending, Waits
  <2>1. docs'[c] = docs[c] /\ g # f
    OBVIOUS
  <2>2. WillBeWhole(c)
    BY <2>1 DEF TableInv, Whole
  <2>3. Pending(g) => Pending(g)'
    BY <2>1, AdvancePending
  <2> QED BY <1>1, <2>1, <2>2, <2>3 DEF WillBeWhole
<1> QED BY <1>2, <1>3 DEF TableInv

LEMMA StoreRowTables ==
  ASSUME FolderInv, TableInv, NEW t \in Threads, StoreRow(t)
  PROVE  TableInv'
<1> PICK c \in Contents, f \in Files :
           /\ c = thread[t].content /\ f = thread[t].file /\ Advance(t) /\ thread[t].at = "parsed"
           /\ thread'[t].at = "clearing" /\ thread'[t].content = c /\ thread'[t].file = f
           /\ docs'[c].row /\ docs'[c].active /\ docs'[c].file = f
           /\ \A d \in Contents \ {c} : docs'[d] = docs[d]
           /\ retired' = retired \ {c} /\ UNCHANGED <<disk, removal>>
           /\ \/ disk[f] = c /\ late' = late \ {c} /\ missed' = missed \ {f}
              \/ disk[f] # c /\ late' = late \cup {c} /\ missed' = missed
           /\ crossed' = IF \E u \in Threads \ {t} : Rewrites(u, c) THEN crossed \cup {c} ELSE crossed \ {c}
  BY StoreRowWrites
<1>1. Rewrites(t, c)' /\ \A d \in Contents : (Rewrites(t, d)' => d = c) /\ ~Rewrites(t, d)
  BY DEF Rewrites, Rewriting
<1>2. \A u \in Threads \ {t}, d \in Contents : (Rewrites(u, d)' <=> Rewrites(u, d)) /\ thread'[u] = thread[u]
  BY AdvanceRewrites
<1>3. \A d \in Contents \ {c} : d \notin crossed' => d \notin crossed
  OBVIOUS
<1>4. c \notin crossed' => \A u \in Threads : Rewrites(u, c)' => u = t
  BY <1>2
<1>5. Single'
  <2> SUFFICES ASSUME NEW d \in Contents \ crossed', NEW u \in Threads, NEW v \in Threads,
                      Rewrites(u, d)', Rewrites(v, d)'
               PROVE  u = v
    BY DEF Single
  <2>1. CASE d = c
    BY <1>4, <2>1
  <2>2. CASE d # c
    BY <1>1, <1>2, <1>3, <2>2 DEF TableInv, Single
  <2> QED BY <2>1, <2>2
<1>6. Cleared'
  <2> SUFFICES ASSUME NEW d \in Contents \ crossed', NEW u \in Threads, Rewrites(u, d)'
               PROVE  docs'[d].file = thread'[u].file /\ (thread'[u].at = "filling" => docs'[d].tables = 0)
    BY DEF Cleared
  <2>1. CASE d = c
    BY <1>4, <2>1
  <2>2. CASE d # c
    BY <1>1, <1>2, <1>3, <2>2 DEF TableInv, Cleared
  <2> QED BY <2>1, <2>2
<1>7. Whole'
  <2> SUFFICES ASSUME NEW d \in Contents \ crossed', docs'[d].active, NEW g \in Files, g = docs'[d].file, disk[g] = d
               PROVE  \/ docs'[d].tables = 1 \/ g \in missed' \/ Pending(g)'
                      \/ \E u \in Threads : Rewrites(u, d)'
    BY DEF Whole, WillBeWhole, Pending, Waits
  <2>1. CASE d = c
    BY <1>1, <2>1
  <2>2. CASE d # c
    <3>1. docs'[d] = docs[d] /\ d \notin crossed
      BY <1>3, <2>2
    <3>2. WillBeWhole(d)
      BY <3>1 DEF TableInv, Whole
    <3>3. g \in missed => g \in missed'
      BY <2>2
    <3>4. Pending(g) => Pending(g)'
      BY <2>2, AdvancePending
    <3>5. \A u \in Threads : Rewrites(u, d) => Rewrites(u, d)'
      BY <1>1, <1>2
    <3> QED BY <3>1, <3>2, <3>3, <3>4, <3>5 DEF WillBeWhole
  <2> QED BY <2>1, <2>2
<1> QED BY <1>5, <1>6, <1>7 DEF TableInv

LEMMA ClearTablesTables ==
  ASSUME FolderInv, TableInv, NEW t \in Threads, ClearTables(t)
  PROVE  TableInv'
<1> PICK c \in Contents :
           /\ Advance(t) /\ Rewrites(t, c) /\ Rewrites(t, c)' /\ thread'[t].file = thread[t].file
           /\ docs'[c].tables = 0 /\ \A d \in Contents \ {c} : docs'[d] = docs[d]
           /\ \A d \in Contents : /\ docs'[d].row = docs[d].row /\ docs'[d].active = docs[d].active
                                  /\ docs'[d].file = docs[d].file
           /\ UNCHANGED <<disk, removal, missed, retired, late, crossed>>
  BY ClearTablesWrites
<1>1. \A u \in Threads, d \in Contents : Rewrites(u, d)' <=> Rewrites(u, d)
  BY AdvanceRewrites DEF Rewrites
<1>2. \A u \in Threads : thread'[u].file = thread[u].file /\ (u # t => thread'[u] = thread[u])
  BY AdvanceRewrites
<1>3. Single'
  BY <1>1 DEF TableInv, Single
<1>4. Cleared'
  <2> SUFFICES ASSUME NEW d \in Contents \ crossed, NEW u \in Threads, Rewrites(u, d)'
               PROVE  docs'[d].file = thread'[u].file /\ (thread'[u].at = "filling" => docs'[d].tables = 0)
    BY DEF Cleared
  <2>1. Rewrites(u, d) /\ docs[d].file = thread[u].file /\ (thread[u].at = "filling" => docs[d].tables = 0)
    BY <1>1 DEF TableInv, Cleared
  <2>2. CASE d = c
    BY <1>2, <2>1, <2>2
  <2>3. CASE d # c
    <3>1. u # t
      BY <2>1, <2>3 DEF Rewrites
    <3> QED BY <1>2, <2>1, <2>3, <3>1
  <2> QED BY <2>2, <2>3
<1>5. Whole'
  <2> SUFFICES ASSUME NEW d \in Contents \ crossed, docs'[d].active, NEW g \in Files, g = docs'[d].file, disk[g] = d
               PROVE  \/ docs'[d].tables = 1 \/ g \in missed \/ Pending(g)'
                      \/ \E u \in Threads : Rewrites(u, d)'
    BY DEF Whole, WillBeWhole, Pending, Waits
  <2>1. CASE d = c
    BY <2>1
  <2>2. CASE d # c
    <3>1. WillBeWhole(d) /\ docs'[d] = docs[d]
      BY <2>2 DEF TableInv, Whole
    <3>2. Pending(g) => Pending(g)'
      BY AdvancePending DEF Rewrites, Rewriting
    <3> QED BY <1>1, <3>1, <3>2 DEF WillBeWhole
  <2> QED BY <2>1, <2>2
<1> QED BY <1>3, <1>4, <1>5 DEF TableInv

LEMMA FillTablesTables ==
  ASSUME FolderInv, TableInv, NEW t \in Threads, FillTables(t)
  PROVE  TableInv'
<1> PICK c \in Contents :
           /\ Advance(t) /\ Rewrites(t, c) /\ thread[t].at = "filling" /\ \A d : ~Rewrites(t, d)'
           /\ docs'[c].tables = docs[c].tables + 1 /\ \A d \in Contents \ {c} : docs'[d] = docs[d]
           /\ \A d \in Contents : /\ docs'[d].row = docs[d].row /\ docs'[d].active = docs[d].active
                                  /\ docs'[d].file = docs[d].file
           /\ UNCHANGED <<disk, removal, missed, retired, late, crossed>>
  BY FillTablesWrites
<1>1. \A u \in Threads, d \in Contents :
        /\ Rewrites(u, d)' => u # t /\ Rewrites(u, d) /\ thread'[u] = thread[u]
        /\ Rewrites(u, d) /\ u # t => Rewrites(u, d)'
  BY AdvanceRewrites
<1>2. Single'
  BY <1>1 DEF TableInv, Single
<1>3. Cleared'
  <2> SUFFICES ASSUME NEW d \in Contents \ crossed, NEW u \in Threads, Rewrites(u, d)'
               PROVE  docs'[d].file = thread'[u].file /\ (thread'[u].at = "filling" => docs'[d].tables = 0)
    BY DEF Cleared
  <2>1. u # t /\ Rewrites(u, d) /\ thread'[u] = thread[u]
    BY <1>1
  <2>2. d # c
    BY <2>1 DEF TableInv, Single
  <2> QED BY <2>1, <2>2 DEF TableInv, Cleared
<1>4. Whole'
  <2> SUFFICES ASSUME NEW d \in Contents \ crossed, docs'[d].active, NEW g \in Files, g = docs'[d].file, disk[g] = d
               PROVE  \/ docs'[d].tables = 1 \/ g \in missed \/ Pending(g)'
                      \/ \E u \in Threads : Rewrites(u, d)'
    BY DEF Whole, WillBeWhole, Pending, Waits
  <2>1. CASE d = c
    <3>1. docs[c].tables = 0
      BY <2>1 DEF TableInv, Cleared
    <3> QED BY <2>1, <3>1
  <2>2. CASE d # c
    <3>1. WillBeWhole(d) /\ docs'[d] = docs[d]
      BY <2>2 DEF TableInv, Whole
    <3>2. Pending(g) => Pending(g)'
      BY AdvancePending
    <3>3. \A u \in Threads : Rewrites(u, d) => u # t
      BY <2>2 DEF Rewrites
    <3> QED BY <1>1, <3>1, <3>2, <3>3 DEF WillBeWhole
  <2> QED BY <2>1, <2>2
<1> QED BY <1>2, <1>3, <1>4 DEF TableInv

LEMMA DeactivateTables ==
  ASSUME FolderInv, TableInv, NEW c \in Contents, Deactivate(c)
  PROVE  TableInv'
<1>1. docs' = [docs EXCEPT ![c].active = FALSE] /\ UNCHANGED <<disk, thread, timers, missed, crossed>>
  BY DEF Deactivate
<1>2. \A d \in Contents : /\ docs'[d].file = docs[d].file /\ docs'[d].tables = docs[d].tables
                          /\ docs'[d].active => docs[d].active
  BY <1>1 DEF FolderInv, Typed, DocState
<1>3. \A u \in Threads, d \in Contents : Rewrites(u, d)' <=> Rewrites(u, d)
  BY <1>1 DEF Rewrites, Rewriting
<1>4. Single' /\ Cleared'
  BY <1>1, <1>2, <1>3 DEF TableInv, Single, Cleared
<1>5. Whole'
  <2> SUFFICES ASSUME NEW d \in Contents \ crossed, docs'[d].active, NEW g \in Files, g = docs'[d].file, disk[g] = d
               PROVE  \/ docs'[d].tables = 1 \/ g \in missed \/ Pending(g)'
                      \/ \E u \in Threads : Rewrites(u, d)'
    BY <1>1 DEF Whole, WillBeWhole, Pending, Waits
  <2>1. Pending(g)' <=> Pending(g)
    BY <1>1 DEF Pending, Waits
  <2> QED BY <1>2, <1>3, <2>1 DEF TableInv, Whole, WillBeWhole
<1> QED BY <1>4, <1>5 DEF TableInv

LEMMA DeleteRowTables ==
  ASSUME FolderInv, TableInv, NEW c \in Contents, DeleteRow(c)
  PROVE  TableInv'
<1>1. Single'
  BY DeleteRowEnds DEF TableInv, Single
<1>2. Cleared'
  BY DeleteRowEnds DEF TableInv, Cleared
<1>3. Whole'
  <2> SUFFICES ASSUME NEW d \in Contents \ crossed, docs'[d].active, NEW g \in Files, g = docs'[d].file, disk[g] = d
               PROVE  \/ docs'[d].tables = 1 \/ g \in missed \/ Pending(g)'
                      \/ \E u \in Threads : Rewrites(u, d)'
    BY DeleteRowEnds DEF Whole, WillBeWhole, Pending, Waits
  <2>1. d # c /\ docs'[d] = docs[d]
    BY DeleteRowEnds
  <2>2. WillBeWhole(d)
    BY <2>1 DEF TableInv, Whole
  <2> QED BY <2>1, <2>2, DeleteRowEnds DEF WillBeWhole
<1> QED BY <1>1, <1>2, <1>3 DEF TableInv

LEMMA StepTables ==
  ASSUME FolderInv, TableInv, [Next]_vars
  PROVE  TableInv'
<1>1. ASSUME NEW t \in Timers, FireDelete(t) PROVE TableInv'
  BY <1>1, FireDeleteTables
<1>2. ASSUME NEW t \in Timers, FireUpsert(t) PROVE TableInv'
  BY <1>2, FireUpsertReads, QuietTables
<1>3. ASSUME NEW t \in Timers, Pop(t) PROVE TableInv'
  BY <1>3, PopEnds, QuietTables
<1>4. ASSUME NEW t \in Threads, StoreRow(t) \/ ClearTables(t) \/ FillTables(t) PROVE TableInv'
  BY <1>4, StoreRowTables, ClearTablesTables, FillTablesTables
<1>5. ASSUME NEW f \in Files, Remove(f) \/ (\E c \in Contents : Drop(f, c)) \/ (\E g \in Files : Rename(f, g))
      PROVE  TableInv'
  BY <1>5, RemoveChanges, DropChanges, RenameChanges, ChangeTables
<1>6. ASSUME NEW c \in Contents, Deactivate(c) \/ DeleteRow(c) \/ \E typed \in BOOLEAN : Upload(c, typed)
      PROVE  TableInv'
  BY <1>6, DeactivateTables, DeleteRowTables, UploadChanges, ChangeTables
<1>7. CASE DeleteFile
  <2>1. CASE disk[removal] = Nothing
    <3>1. UNCHANGED <<disk, changes, thread, timers, docs, missed, retired, late, crossed>>
      BY <1>7, <2>1, DeleteNothing
    <3>2. \A f \in Files : Pending(f) => Pending(f)'
      BY <3>1 DEF Pending, Waits
    <3>3. \A u \in Threads : Rewriting(u)' <=> Rewriting(u)
      BY <3>1 DEF Rewriting
    <3> QED BY <3>1, <3>2, <3>3, QuietTables
  <2>2. CASE disk[removal] # Nothing
    BY <1>7, <2>2, DeleteFileChanges, ChangeTables
  <2> QED BY <2>1, <2>2
<1>8. CASE Tick
  BY <1>8, TickStays, TickFolder, QuietTables
<1>9. ASSUME NEW died, Restart(died) PROVE TableInv'
  <2>1. \A u \in Threads : Rewriting(u)' => Rewriting(u) /\ thread'[u] = thread[u]
    BY <1>9, RestartThreads, FreeIsState DEF Rewriting
  <2>2. \A u \in Threads : Rewriting(u) => Rewriting(u)' \/ thread[u].file \in missed'
    BY <1>9, RestartThreads DEF Rewriting
  <2>3. UNCHANGED <<disk, docs, crossed>> /\ missed \subseteq missed'
    BY <1>9, RestartThreads
  <2> QED BY <1>9, <2>1, <2>2, <2>3, RestartLoses, QuietTables
<1>10. CASE UNCHANGED vars
  <2>1. \A f \in Files : Pending(f) => Pending(f)'
    BY <1>10 DEF vars, Pending, Waits
  <2>2. \A u \in Threads : Rewriting(u)' <=> Rewriting(u)
    BY <1>10 DEF vars, Rewriting
  <2> QED BY <1>10, <2>1, <2>2, QuietTables DEF vars
<1> QED BY <1>1, <1>2, <1>3, <1>4, <1>5, <1>6, <1>7, <1>8, <1>9, <1>10 DEF Next

LEMMA SpecTables == Spec => [](FolderInv /\ TableInv)
<1>1. Init => TableInv
  BY FreeIsState DEF Init, NoDoc, TableInv, Single, Cleared, Whole, Rewrites, Rewriting
<1>2. FolderInv /\ TableInv /\ [Next]_vars => (FolderInv /\ TableInv)'
  BY StepFolder, StepTables
<1> QED BY <1>1, <1>2, InitFolder, PTL DEF Spec

(* Once the timers have run, a document whose file is in place has its      *)
(* tables once, also when upload and watcher store it one after the other,  *)
(* unless the last two stores overlapped or a process died in the middle    *)
(* (store).                                                                 *)
THEOREM DocumentsHaveTheirTables == Spec => []TablesWhole
<1>1. FolderInv /\ TableInv => TablesWhole
  <2> SUFFICES ASSUME FolderInv, TableInv, Settled, NEW c \in Contents \ crossed, docs[c].active,
                      disk[docs[c].file] = c
               PROVE  docs[c].tables = 1 \/ docs[c].file \in missed
    BY DEF TablesWhole
  <2>1. ~Pending(docs[c].file) /\ \A t \in Threads : ~Rewrites(t, c)
    BY TimersAreThreads DEF Settled, Pending, Waits, Rewrites, Rewriting
  <2> QED BY <2>1 DEF FolderInv, HasFile, TableInv, Whole, WillBeWhole
<1> QED BY <1>1, SpecTables, PTL

-----------------------------------------------------------------------------
(* The offers, where a content lies in the folder once.                     *)
LEMMA DistinctStays ==
  ASSUME FolderInv, Distinct, ~Twins,
         \/ \E f \in Files : Remove(f) \/ (\E c \in Contents : Drop(f, c)) \/ (\E g \in Files : Rename(f, g))
         \/ \E c \in Contents, typed \in BOOLEAN : Upload(c, typed)
         \/ DeleteFile
  PROVE  Distinct'
<1>1. ASSUME NEW f \in Files, NEW c, \A g \in Files \ {f} : disk[g] # c, disk' = [disk EXCEPT ![f] = c]
      PROVE  Distinct'
  BY <1>1 DEF Distinct, FolderInv, Typed
<1>2. ASSUME NEW f \in Files, disk' = [disk EXCEPT ![f] = Nothing]
      PROVE  Distinct'
  BY <1>2 DEF Distinct, FolderInv, Typed
<1>3. ASSUME NEW f \in Files, NEW g \in Files, Rename(f, g)
      PROVE  Distinct'
  <2>1. disk' = [disk EXCEPT ![g] = disk[f], ![f] = Nothing] /\ f # g
    BY <1>3 DEF Rename
  <2> QED BY <2>1 DEF Distinct, FolderInv, Typed
<1>4. ASSUME NEW f \in Files, NEW c \in Contents, Drop(f, c)
      PROVE  Distinct'
  BY <1>1, <1>4 DEF Drop, Alone
<1>5. ASSUME NEW f \in Files, Remove(f)
      PROVE  Distinct'
  BY <1>2, <1>5 DEF Remove
<1>6. ASSUME NEW c \in Contents, NEW typed \in BOOLEAN, Upload(c, typed)
      PROVE  Distinct'
  BY <1>1, <1>6, SupportingAssumption DEF Upload, Alone
<1>7. CASE DeleteFile
  BY <1>2, <1>7 DEF DeleteFile, FolderInv, Typed
<1> QED BY <1>3, <1>4, <1>5, <1>6, <1>7

(* A step after which the documents are offered as before.                  *)
LEMMA QuietOffers ==
  ASSUME FolderInv, OfferInv, UNCHANGED <<disk, retired, late>>, missed \subseteq missed',
         \A c \in Contents : docs'[c].row = docs[c].row /\ docs'[c].file = docs[c].file
                               /\ docs'[c].active = docs[c].active,
         \A f \in Files : Pending(f) => Pending(f)' \/ disk[f] = Nothing \/ f \in missed',
         \A f \in Files : removal = f => removal' = f \/ disk[f] = Nothing \/ f \in missed'
  PROVE  OfferInv'
<1>1. Offers'
  <2> SUFFICES ASSUME NEW f \in Files \ missed', disk[f] # Nothing
               PROVE  removal' = f \/ Pending(f)' \/ Offered(f)' \/ disk[f] \in late
    BY DEF Offers
  <2>1. removal = f \/ Pending(f) \/ Offered(f) \/ disk[f] \in late
    BY DEF OfferInv, Offers
  <2>2. Offered(f) => Offered(f)'
    BY DEF Offered, FolderInv, Typed
  <2> QED BY <2>1, <2>2
<1> QED BY <1>1 DEF OfferInv, Distinct

LEMMA FireDeleteOffers ==
  ASSUME FolderInv, OfferInv, NEW t \in Timers, FireDelete(t)
  PROVE  OfferInv'
<1> PICK f \in Files :
           /\ f = thread[t].file /\ t \in Threads /\ Advance(t) /\ Waits(t, "delete", f) /\ thread[t].left = 0
           /\ missed' = missed \ {f} /\ UNCHANGED <<disk, removal, retired, late, crossed>>
           /\ \A c : ~Rewrites(t, c) /\ ~Rewrites(t, c)'
           /\ \A c \in Contents :
                /\ docs[c].file # f => docs'[c] = docs[c]
                /\ docs'[c].active => docs[c].file # f /\ docs'[c] = docs[c]
                /\ docs'[c].tables = docs[c].tables /\ docs'[c].file = docs[c].file
  BY FireDeleteRows
<1>1. Offers'
  <2> SUFFICES ASSUME NEW g \in Files \ missed', disk[g] # Nothing
               PROVE  removal = g \/ Pending(g)' \/ Offered(g)' \/ disk[g] \in late
    BY DEF Offers
  <2>1. CASE g = f
    <3>1. PICK u \in Timers : Waits(u, "upsert", f) /\ thread[t].left < thread[u].left
      BY <2>1 DEF FolderInv, UpsertsLast
    <3>2. Waits(u, "upsert", f)'
      BY <3>1, AdvanceOthers, TimersAreThreads DEF Waits, Kinds
    <3> QED BY <2>1, <3>2 DEF Pending
  <2>2. CASE g # f
    <3>1. removal = g \/ Pending(g) \/ Offered(g) \/ disk[g] \in late
      BY <2>2 DEF OfferInv, Offers
    <3>2. Pending(g) => Pending(g)'
      BY <2>2, AdvancePending
    <3>3. disk[g] \in Contents
      BY DEF FolderInv, Typed
    <3>4. Offered(g) => Offered(g)'
      BY <2>2, <3>3 DEF Offered
    <3> QED BY <3>1, <3>2, <3>4
  <2> QED BY <2>1, <2>2
<1> QED BY <1>1 DEF OfferInv, Distinct

LEMMA StoreRowOffers ==
  ASSUME FolderInv, OfferInv, NEW t \in Threads, StoreRow(t)
  PROVE  OfferInv'
<1> PICK c \in Contents, f \in Files :
           /\ c = thread[t].content /\ f = thread[t].file /\ Advance(t) /\ thread[t].at = "parsed"
           /\ thread'[t].at = "clearing" /\ thread'[t].content = c /\ thread'[t].file = f
           /\ docs'[c].row /\ docs'[c].active /\ docs'[c].file = f
           /\ \A d \in Contents \ {c} : docs'[d] = docs[d]
           /\ retired' = retired \ {c} /\ UNCHANGED <<disk, removal>>
           /\ \/ disk[f] = c /\ late' = late \ {c} /\ missed' = missed \ {f}
              \/ disk[f] # c /\ late' = late \cup {c} /\ missed' = missed
           /\ crossed' = IF \E u \in Threads \ {t} : Rewrites(u, c) THEN crossed \cup {c} ELSE crossed \ {c}
  BY StoreRowWrites
<1>1. Offers'
  <2> SUFFICES ASSUME NEW g \in Files \ missed', disk[g] # Nothing
               PROVE  removal = g \/ Pending(g)' \/ Offered(g)' \/ disk[g] \in late'
    BY DEF Offers
  (* The content is stored: from its file, or late.                         *)
  <2>1. CASE disk[g] = c
    <3>1. g # f => disk[f] # c
      BY <2>1 DEF OfferInv, Distinct
    <3> QED BY <2>1, <3>1 DEF Offered
  (* What lies in the file is another content: whoever waits still waits.   *)
  <2>2. CASE disk[g] # c
    <3>1. disk[g] \in Contents \ {c} /\ g \notin missed
      BY <2>2 DEF FolderInv, Typed
    <3>2. removal = g \/ Pending(g) \/ Offered(g) \/ disk[g] \in late
      BY <3>1 DEF OfferInv, Offers
    <3>3. Pending(g) => Pending(g)'
      BY <2>2, AdvancePending
    <3>4. Offered(g) => Offered(g)'
      BY <3>1 DEF Offered
    <3> QED BY <3>1, <3>2, <3>3, <3>4
  <2> QED BY <2>1, <2>2
<1> QED BY <1>1 DEF OfferInv, Distinct

LEMMA RewriteOffers ==
  ASSUME FolderInv, OfferInv, NEW t \in Threads, ClearTables(t) \/ FillTables(t)
  PROVE  OfferInv'
<1>1. /\ Advance(t) /\ thread[t].at \notin {"armed", "parsed"}
      /\ \A d \in Contents : /\ docs'[d].row = docs[d].row /\ docs'[d].active = docs[d].active
                             /\ docs'[d].file = docs[d].file
      /\ UNCHANGED <<disk, removal, missed, retired, late>>
  BY ClearTablesWrites, FillTablesWrites DEF Rewrites, Rewriting
<1>2. \A f \in Files : Pending(f) => Pending(f)'
  BY <1>1, AdvancePending
<1> QED BY <1>1, <1>2, QuietOffers

LEMMA DeactivateOffers ==
  ASSUME FolderInv, OfferInv, NEW c \in Contents, Deactivate(c)
  PROVE  OfferInv'
<1>1. /\ docs' = [docs EXCEPT ![c].active = FALSE] /\ retired' = retired \cup {c}
      /\ UNCHANGED <<disk, thread, timers, removal, missed, late>>
  BY DEF Deactivate
<1>2. \A d \in Contents : /\ docs'[d].row = docs[d].row /\ docs'[d].file = docs[d].file
                          /\ docs[d].active /\ d \notin retired' => docs'[d].active
  BY <1>1 DEF FolderInv, Typed, DocState
<1>3. \A f \in Files : Pending(f)' <=> Pending(f)
  BY <1>1 DEF Pending, Waits
<1>4. Offers'
  <2> SUFFICES ASSUME NEW f \in Files \ missed, disk[f] # Nothing
               PROVE  removal = f \/ Pending(f)' \/ Offered(f)' \/ disk[f] \in late
    BY <1>1 DEF Offers
  <2>1. disk[f] \in Contents /\ (removal = f \/ Pending(f) \/ Offered(f) \/ disk[f] \in late)
    BY DEF OfferInv, Offers, FolderInv, Typed
  <2>2. Offered(f) => Offered(f)'
    BY <1>1, <1>2, <2>1 DEF Offered
  <2> QED BY <1>3, <2>1, <2>2
<1> QED BY <1>1, <1>4 DEF OfferInv, Distinct

LEMMA DeleteRowOffers ==
  ASSUME FolderInv, OfferInv, NEW c \in Contents, DeleteRow(c)
  PROVE  OfferInv'
<1>1. Offers'
  <2> SUFFICES ASSUME NEW f \in Files \ missed, disk[f] # Nothing
               PROVE  removal' = f \/ Pending(f)' \/ Offered(f)' \/ disk[f] \in late
    BY DeleteRowEnds DEF Offers
  <2>1. disk[f] \in Contents /\ (Pending(f) \/ Offered(f) \/ disk[f] \in late)
    BY DeleteRowEnds, SupportingAssumption DEF OfferInv, Offers, FolderInv, Typed
  <2>2. Offered(f) => Offered(f)' \/ removal' = f
    BY <2>1, DeleteRowEnds DEF Offered
  <2> QED BY <2>1, <2>2, DeleteRowEnds
<1> QED BY <1>1, DeleteRowEnds DEF OfferInv, Distinct

LEMMA StepOffers ==
  ASSUME ~Twins, FolderInv, OfferInv, [Next]_vars
  PROVE  OfferInv'
<1>1. ASSUME NEW t \in Timers, FireDelete(t) PROVE OfferInv'
  BY <1>1, FireDeleteOffers
<1>2. ASSUME NEW t \in Timers, FireUpsert(t) PROVE OfferInv'
  BY <1>2, FireUpsertReads, QuietOffers
<1>3. ASSUME NEW t \in Timers, Pop(t) PROVE OfferInv'
  BY <1>3, PopEnds, QuietOffers
<1>4. ASSUME NEW t \in Threads, StoreRow(t) \/ ClearTables(t) \/ FillTables(t) PROVE OfferInv'
  BY <1>4, StoreRowOffers, RewriteOffers
<1>5. ASSUME NEW f \in Files, Remove(f) \/ (\E c \in Contents : Drop(f, c)) \/ (\E g \in Files : Rename(f, g))
      PROVE  OfferInv'
  <2>1. Distinct'
    BY <1>5, DistinctStays DEF OfferInv
  <2> QED BY <1>5, <2>1, RemoveChanges, DropChanges, RenameChanges, ChangeOffers
<1>6. ASSUME NEW c \in Contents, NEW typed \in BOOLEAN, Upload(c, typed)
      PROVE  OfferInv'
  <2>1. Distinct'
    BY <1>6, DistinctStays DEF OfferInv
  <2> QED BY <1>6, <2>1, UploadChanges, ChangeOffers
<1>7. ASSUME NEW c \in Contents, Deactivate(c) \/ DeleteRow(c) PROVE OfferInv'
  BY <1>7, DeactivateOffers, DeleteRowOffers
<1>8. CASE DeleteFile
  <2>1. CASE disk[removal] = Nothing
    <3>1. UNCHANGED <<disk, changes, thread, timers, docs, missed, retired, late, crossed>> /\ removal' = Nothing
      BY <1>8, <2>1, DeleteNothing
    <3>2. \A f \in Files : Pending(f) => Pending(f)'
      BY <3>1 DEF Pending, Waits
    <3> QED BY <2>1, <3>1, <3>2, QuietOffers
  <2>2. CASE disk[removal] # Nothing
    <3>1. Distinct'
      BY <1>8, DistinctStays DEF OfferInv
    <3> QED BY <1>8, <2>2, <3>1, DeleteFileChanges, ChangeOffers
  <2> QED BY <2>1, <2>2
<1>9. CASE Tick
  BY <1>9, TickStays, QuietOffers
<1>10. ASSUME NEW died, Restart(died) PROVE OfferInv'
  <2>1. UNCHANGED <<disk, docs, retired, late>> /\ missed \subseteq missed'
    BY <1>10, RestartThreads
  <2>2. \A f \in Files : removal = f => removal' = f \/ f \in missed'
    BY <1>10, RestartThreads
  <2> QED BY <1>10, <2>1, <2>2, RestartLoses, QuietOffers
<1>11. CASE UNCHANGED vars
  <2>1. \A f \in Files : Pending(f) => Pending(f)'
    BY <1>11 DEF vars, Pending, Waits
  <2> QED BY <1>11, <2>1, QuietOffers DEF vars
<1> QED BY <1>1, <1>2, <1>3, <1>4, <1>5, <1>6, <1>7, <1>8, <1>9, <1>10, <1>11 DEF Next

(* Once the timers have run, every file of the folder is a document an      *)
(* officer can choose, unless a process died with its event, an admin       *)
(* retired it, or its document was last stored from a file that no longer   *)
(* held it (on_created, on_moved, ingest_path).                             *)
THEOREM DroppedFilesAreOffered ==
  ASSUME ~Twins
  PROVE  Spec => []DroppedIsOffered
<1>1. Init => OfferInv
  BY DEF Init, OfferInv, Distinct, Offers
<1>2. FolderInv /\ OfferInv /\ [Next]_vars => (FolderInv /\ OfferInv)'
  BY StepFolder, StepOffers
<1>3. FolderInv /\ OfferInv => DroppedIsOffered
  <2> SUFFICES ASSUME FolderInv, OfferInv, Settled, NEW f \in Files \ missed, disk[f] # Nothing
               PROVE  docs[disk[f]].active \/ disk[f] \in retired \cup late
    BY DEF DroppedIsOffered
  <2>1. removal # f /\ ~Pending(f)
    BY TimersAreThreads, SupportingAssumption DEF Settled, Pending, Waits
  <2> QED BY <2>1 DEF OfferInv, Offers, Offered
<1> QED BY <1>1, <1>2, <1>3, InitFolder, PTL DEF Spec
=============================================================================
