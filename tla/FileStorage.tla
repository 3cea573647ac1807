----------------------------- MODULE FileStorage -----------------------------
(***************************************************************************)
(* FileStorageService (service/file_storage/main.py): contents in a        *)
(* directory, metadata in the store, and two indices over the metadata, by *)
(* creation time and, per purpose, again by creation time.                 *)
(*                                                                         *)
(* The store is the map with expiries of module TtlStore, which LmdbStore  *)
(* implements.  Every store call and every file operation is a step, as    *)
(* requests and cleanup loops of several workers share store and           *)
(* directory.  A file is the rank of its index key <created_at>:<id>.      *)
(*                                                                         *)
(* Who takes part and what goes wrong is chosen in Init and never changes. *)
(***************************************************************************)
EXTENDS Integers, FiniteSets, Sequences

CONSTANTS
    Files,
    Writers,     \* requests to upload or delete, each in a worker of its own
    Listers,     \* requests to list, likewise
    Queries,     \* what they ask for: purpose or All, newest first or not, cursor
    Cleaners,    \* the cleanup loops of the workers
    PurposeOf,   \* purpose of each file
    Limit,       \* files per page
    Batch,       \* index entries read per scan
    Casts        \* records [files, handlers, cleaners, faults]; faults are "write", an upload breaks
                 \* off, "crash", a worker dies, and "expire", retention ends

All == "all"     \* no purpose filter

None == 0        \* no file, no cursor

Handlers == Writers \cup Listers

Purposes == {PurposeOf[f] : f \in Files}

ASSUME FileStorageAssumption ==
    /\ Files \subseteq Nat \ {0}
    /\ PurposeOf \in [Files -> STRING]
    /\ All \notin Purposes
    /\ Queries \subseteq (Purposes \cup {All}) \X BOOLEAN \X (Files \cup {None})
    /\ Limit \in Nat \ {0} /\ Batch \in Nat \ {0}
    /\ Casts \subseteq [files : SUBSET Files, handlers : SUBSET Handlers, cleaners : SUBSET Cleaners,
                         faults : SUBSET {"write", "crash", "expire"}]

VARIABLES
    cast,        \* one of Casts
    content,     \* the files in the directory
    meta,        \* the files with metadata
    byTime,      \* the created_at index
    byPurpose,   \* the purpose indices; which one a file is in is its purpose's
    req,         \* what each handler is doing
    clean,       \* what each cleanup loop is doing
    uploaded,    \* the files whose upload was answered (history)
    unwanted,    \* the files somebody began to delete (history)
    born         \* the ids in use; they are random and never reused (history)

vars == <<cast, content, meta, byTime, byPurpose, req, clean, uploaded, unwanted, born>>

Request ==
    [pc    : {"idle", "write", "meta", "time", "purpose", "look", "delTime", "delPurpose",
              "delMeta", "unlink", "ensure", "keys", "fill", "fillMeta", "fillTime",
              "fillPurpose", "resolve", "scan", "read", "answered"},
     file  : Files \cup {None},
     todo  : SUBSET Files,                 \* what _ensure_indices has yet to index
     want  : Purposes \cup {All},
     desc  : BOOLEAN,
     after : Files \cup {None},
     scan  : Files \cup {None},            \* scan_after
     page  : Seq(Files), more : BOOLEAN,   \* what list_page returned, less what was read
     got   : Seq(Files),
     there : SUBSET Files]                 \* the files listable since the request began (history)

NoRequest ==
    [pc |-> "idle", file |-> None, todo |-> {}, want |-> All, desc |-> FALSE, after |-> None,
     scan |-> None, page |-> <<>>, more |-> FALSE, got |-> <<>>, there |-> {}]

Cleaner == [pc : {"wait", "check", "unlink"}, todo : SUBSET Files, file : Files \cup {None}]

Waiting == [pc |-> "wait", todo |-> {}, file |-> None]

TypeOK ==
    /\ cast \in Casts
    /\ content \subseteq Files /\ meta \subseteq Files
    /\ byTime \subseteq Files /\ byPurpose \subseteq Files
    /\ req \in [Handlers -> Request]
    /\ \A h \in Handlers : /\ req[h].pc = "read" <=> req[h].page # <<>>
                           /\ Len(req[h].got) <= Limit
    /\ clean \in [Cleaners -> Cleaner]
    /\ uploaded \subseteq Files /\ unwanted \subseteq Files /\ born \subseteq Files

Init ==
    /\ cast \in Casts
    /\ content = {} /\ meta = {} /\ byTime = {} /\ byPurpose = {}
    /\ req = [h \in Handlers |-> NoRequest]
    /\ clean = [c \in Cleaners |-> Waiting]
    /\ uploaded = {} /\ unwanted = {} /\ born = {}

\* The files a listing of purpose want would find, given metadata and indices.
Listable(want, m, t, p) ==
    m \cap (IF want = All THEN t ELSE {f \in p : PurposeOf[f] = want})

\* What can be listed after this step can only have been there during the whole of
\* a listing if it was before.
StillThere(q) == [q EXCEPT !.there = @ \cap Listable(q.want, meta', byTime', byPurpose')]

\* Handler h goes on with request record r.
Proceed(h, r) == req' = [g \in Handlers |-> StillThere(IF g = h THEN r ELSE req[g])]

Goto(h, pc) == Proceed(h, [req[h] EXCEPT !.pc = pc])

Done(h) == Proceed(h, NoRequest)

\* A step of something other than a handler.
Bystanders == req' = [g \in Handlers |-> StillThere(req[g])]

-----------------------------------------------------------------------------
(* Uploads. *)

\* The file is there as soon as it is opened for writing.
Upload(h, f) ==
    /\ req[h].pc = "idle"
    /\ f \in cast.files \ born
    /\ born' = born \cup {f}
    /\ content' = content \cup {f}
    /\ UNCHANGED <<meta, byTime, byPurpose, clean, uploaded, unwanted>>
    /\ Proceed(h, [NoRequest EXCEPT !.pc = "write", !.file = f])

Written(h) ==
    /\ req[h].pc = "write"
    /\ UNCHANGED <<content, meta, byTime, byPurpose, clean, uploaded, unwanted, born>>
    /\ Goto(h, "meta")

\* Too large, or the stream breaks off: what was written is unlinked.
WriteFails(h) ==
    /\ "write" \in cast.faults
    /\ req[h].pc = "write"
    /\ content' = content \ {req[h].file}
    /\ UNCHANGED <<meta, byTime, byPurpose, clean, uploaded, unwanted, born>>
    /\ Done(h)

\* _store_metadata: three store calls, for an upload or for a backfill.
StoreMeta(h) ==
    /\ req[h].pc \in {"meta", "fillMeta"}
    /\ meta' = meta \cup {req[h].file}
    /\ UNCHANGED <<content, byTime, byPurpose, clean, uploaded, unwanted, born>>
    /\ Goto(h, IF req[h].pc = "meta" THEN "time" ELSE "fillTime")

StoreTime(h) ==
    /\ req[h].pc \in {"time", "fillTime"}
    /\ byTime' = byTime \cup {req[h].file}
    /\ UNCHANGED <<content, meta, byPurpose, clean, uploaded, unwanted, born>>
    /\ Goto(h, IF req[h].pc = "time" THEN "purpose" ELSE "fillPurpose")

\* Mutant: the purpose index is forgotten.
StoreNoPurpose(h) ==
    /\ req[h].pc \in {"purpose", "fillPurpose"}
    /\ UNCHANGED <<content, meta, byTime, byPurpose, clean, unwanted, born>>
    /\ IF req[h].pc = "purpose"
         THEN uploaded' = uploaded \cup {req[h].file} /\ Done(h)
         ELSE Proceed(h, [req[h] EXCEPT !.pc = "fill", !.file = None]) /\ UNCHANGED uploaded

StorePurpose(h) ==
    /\ req[h].pc \in {"purpose", "fillPurpose"}
    /\ byPurpose' = byPurpose \cup {req[h].file}
    /\ UNCHANGED <<content, meta, byTime, clean, unwanted, born>>
    /\ IF req[h].pc = "purpose"
         THEN uploaded' = uploaded \cup {req[h].file} /\ Done(h)
         ELSE Proceed(h, [req[h] EXCEPT !.pc = "fill", !.file = None]) /\ UNCHANGED uploaded

-----------------------------------------------------------------------------
(* Deletions. *)

\* delete: the metadata says under which keys the file is indexed.
Delete(h, f) ==
    /\ req[h].pc = "idle"
    /\ f \in uploaded
    /\ unwanted' = unwanted \cup {f}
    /\ UNCHANGED <<content, meta, byTime, byPurpose, clean, uploaded, born>>
    /\ Proceed(h, [NoRequest EXCEPT !.file = f,
                                    !.pc = IF f \in meta THEN "delTime" ELSE "delMeta"])

DeleteTime(h) ==
    /\ req[h].pc = "delTime"
    /\ byTime' = byTime \ {req[h].file}
    /\ UNCHANGED <<content, meta, byPurpose, clean, uploaded, unwanted, born>>
    /\ Goto(h, "delPurpose")

DeletePurpose(h) ==
    /\ req[h].pc = "delPurpose"
    /\ byPurpose' = byPurpose \ {req[h].file}
    /\ UNCHANGED <<content, meta, byTime, clean, uploaded, unwanted, born>>
    /\ Goto(h, "delMeta")

DeleteMeta(h) ==
    /\ req[h].pc = "delMeta"
    /\ meta' = meta \ {req[h].file}
    /\ UNCHANGED <<content, byTime, byPurpose, clean, uploaded, unwanted, born>>
    /\ Goto(h, "unlink")

Unlink(h) ==
    /\ req[h].pc = "unlink"
    /\ content' = content \ {req[h].file}
    /\ UNCHANGED <<meta, byTime, byPurpose, clean, uploaded, unwanted, born>>
    /\ Done(h)

-----------------------------------------------------------------------------
(* Listings. *)

\* Whether x comes before y in a listing, newest first if desc.
Before(x, y, desc) == IF desc THEN x > y ELSE x < y

List(h, want, desc, after) ==
    /\ req[h].pc = "idle"
    /\ UNCHANGED <<content, meta, byTime, byPurpose, clean, uploaded, unwanted, born>>
    /\ Proceed(h, [NoRequest EXCEPT !.pc = "ensure", !.want = want, !.desc = desc,
                      !.after = after, !.there = Listable(want, meta, byTime, byPurpose)])

\* _ensure_indices: nothing to do if the created_at index has any entry, ...
Ensure(h) ==
    /\ req[h].pc = "ensure"
    /\ UNCHANGED <<content, meta, byTime, byPurpose, clean, uploaded, unwanted, born>>
    /\ Goto(h, IF byTime = {} THEN "keys" ELSE "resolve")

\* ... else all files with metadata are stored and indexed anew, ...
ListKeys(h) ==
    /\ req[h].pc = "keys"
    /\ UNCHANGED <<content, meta, byTime, byPurpose, clean, uploaded, unwanted, born>>
    /\ Proceed(h, [req[h] EXCEPT !.pc = "fill", !.todo = meta])

\* ... one after another, if they are still there.
Fill(h, f) ==
    /\ req[h].pc = "fill"
    /\ f \in req[h].todo
    /\ UNCHANGED <<content, meta, byTime, byPurpose, clean, uploaded, unwanted, born>>
    /\ Proceed(h, IF f \in meta
                    THEN [req[h] EXCEPT !.pc = "fillMeta", !.file = f, !.todo = @ \ {f}]
                    ELSE [req[h] EXCEPT !.todo = @ \ {f}])

Filled(h) ==
    /\ req[h].pc = "fill" /\ req[h].todo = {}
    /\ UNCHANGED <<content, meta, byTime, byPurpose, clean, uploaded, unwanted, born>>
    /\ Goto(h, "resolve")

\* _resolve_after_index_key: a cursor that is gone, or of another purpose, ends the
\* listing with nothing.
Resolve(h) ==
    LET r == req[h]
        known == r.after \in meta /\ r.want \in {All, PurposeOf[r.after]}
    IN  /\ r.pc = "resolve"
        /\ UNCHANGED <<content, meta, byTime, byPurpose, clean, uploaded, unwanted, born>>
        /\ Proceed(h, [r EXCEPT !.scan = r.after,
                                !.pc = IF r.after = None \/ known THEN "scan" ELSE "answered"])

\* Mutant: the scan goes on from the cursor itself.
FromCursor(r) ==
    {f \in IF r.want = All THEN byTime ELSE {g \in byPurpose : PurposeOf[g] = r.want} :
        r.scan = None \/ f = r.scan \/ Before(r.scan, f, r.desc)}

\* The index entries past the cursor.
PastCursor(r) ==
    {f \in IF r.want = All THEN byTime ELSE {g \in byPurpose : PurposeOf[g] = r.want} :
        r.scan = None \/ Before(r.scan, f, r.desc)}

\* The first n of a set of files, in the order of the listing.
FirstOf(S, n, desc) ==
    LET rank(f) == Cardinality({g \in S : Before(g, f, desc)})
        size == IF Cardinality(S) < n THEN Cardinality(S) ELSE n
    IN  [i \in 1..size |-> CHOOSE f \in S : rank(f) = i - 1]

\* store.list_page: the next batch of the index.
Scan(h) ==
    LET r == req[h]
        past == PastCursor(r)
    IN  /\ r.pc = "scan"
        /\ UNCHANGED <<content, meta, byTime, byPurpose, clean, uploaded, unwanted, born>>
        /\ Proceed(h, IF past = {} THEN [r EXCEPT !.pc = "answered", !.more = FALSE]
                      ELSE [r EXCEPT !.pc = "read", !.more = Cardinality(past) > Batch,
                                     !.page = FirstOf(past, Batch, r.desc)])

\* get_metadata of the batch's next file, which counts if it is there.  One file too
\* many says that there are more; the end of the batch asks for the next, if any.
Read(h) ==
    LET r == req[h]
        f == Head(r.page)
        rest == Tail(r.page)
        got == IF f \in meta THEN Append(r.got, f) ELSE r.got
    IN  /\ r.pc = "read"
        /\ UNCHANGED <<content, meta, byTime, byPurpose, clean, uploaded, unwanted, born>>
        /\ Proceed(h,
             IF Len(got) > Limit
               THEN [r EXCEPT !.pc = "answered", !.got = SubSeq(got, 1, Limit), !.more = TRUE,
                              !.page = <<>>]
               ELSE [r EXCEPT !.got = got, !.page = rest, !.scan = f,
                              !.pc = IF rest # <<>> THEN "read"
                                     ELSE IF r.more THEN "scan" ELSE "answered"])

\* The answer is sent.
Answered(h) ==
    /\ req[h].pc = "answered"
    /\ UNCHANGED <<content, meta, byTime, byPurpose, clean, uploaded, unwanted, born>>
    /\ Done(h)

-----------------------------------------------------------------------------
(* The cleanup loops, expiry and crashes. *)

\* _cleanup_expired: the directory is listed once, ...
ListDir(c) ==
    /\ clean[c].pc = "wait"
    /\ content # {}
    /\ clean' = [clean EXCEPT ![c] = [Waiting EXCEPT !.pc = "check", !.todo = content]]
    /\ UNCHANGED <<content, meta, byTime, byPurpose, uploaded, unwanted, born>>
    /\ Bystanders

\* Mutant: the loop ends at the first file that has metadata.
CheckUntilStored(c, f) ==
    /\ clean[c].pc = "check"
    /\ f \in clean[c].todo
    /\ clean' = [clean EXCEPT ![c] =
                   IF f \notin meta THEN [pc |-> "unlink", file |-> f, todo |-> @.todo \ {f}]
                   ELSE Waiting]
    /\ UNCHANGED <<content, meta, byTime, byPurpose, uploaded, unwanted, born>>
    /\ Bystanders

\* ... each of its files is looked up, ...
Check(c, f) ==
    /\ clean[c].pc = "check"
    /\ f \in clean[c].todo
    /\ clean' = [clean EXCEPT ![c] =
                   IF f \notin meta THEN [pc |-> "unlink", file |-> f, todo |-> @.todo \ {f}]
                   ELSE [pc |-> "check", file |-> None, todo |-> @.todo \ {f}]]
    /\ UNCHANGED <<content, meta, byTime, byPurpose, uploaded, unwanted, born>>
    /\ Bystanders

\* ... and unlinked if it has no metadata.
Remove(c) ==
    /\ clean[c].pc = "unlink"
    /\ content' = content \ {clean[c].file}
    /\ clean' = [clean EXCEPT ![c].pc = "check", ![c].file = None]
    /\ UNCHANGED <<meta, byTime, byPurpose, uploaded, unwanted, born>>
    /\ Bystanders

EndCleanup(c) ==
    /\ clean[c].pc = "check" /\ clean[c].todo = {}
    /\ clean' = [clean EXCEPT ![c] = Waiting]
    /\ UNCHANGED <<content, meta, byTime, byPurpose, uploaded, unwanted, born>>
    /\ Bystanders

\* Entries of a file expire in the order in which they were written; retention is
\* days, no request takes that long.
Expire(f) ==
    /\ "expire" \in cast.faults
    /\ \A h \in Handlers : req[h].file # f
    /\ \/ /\ f \in meta
          /\ meta' = meta \ {f}
          /\ UNCHANGED <<byTime, byPurpose>>
       \/ /\ f \notin meta /\ f \in byTime
          /\ byTime' = byTime \ {f}
          /\ UNCHANGED <<meta, byPurpose>>
       \/ /\ f \notin meta \cup byTime /\ f \in byPurpose
          /\ byPurpose' = byPurpose \ {f}
          /\ UNCHANGED <<meta, byTime>>
    /\ Bystanders
    /\ UNCHANGED <<content, clean, uploaded, unwanted, born>>

\* A worker dies amid a request.
Crash(h) ==
    /\ "crash" \in cast.faults
    /\ req[h].pc # "idle"
    /\ UNCHANGED <<content, meta, byTime, byPurpose, clean, uploaded, unwanted, born>>
    /\ Done(h)

HandlerStep(h) ==
    /\ UNCHANGED cast
    /\ \/ Written(h) \/ StoreMeta(h) \/ StoreTime(h) \/ StorePurpose(h)
       \/ DeleteTime(h) \/ DeletePurpose(h) \/ DeleteMeta(h) \/ Unlink(h)
       \/ Ensure(h) \/ ListKeys(h) \/ Filled(h) \/ Resolve(h) \/ Scan(h) \/ Read(h) \/ Answered(h)
       \/ \E f \in Files : Fill(h, f)

CleanerStep(c) ==
    /\ c \in cast.cleaners /\ UNCHANGED cast
    /\ ListDir(c) \/ Remove(c) \/ EndCleanup(c) \/ \E f \in Files : Check(c, f)

Next ==
    /\ UNCHANGED cast
    /\ \/ \E h \in Handlers : HandlerStep(h) \/ WriteFails(h) \/ Crash(h)
       \/ \E h \in Writers \cap cast.handlers, f \in Files : Upload(h, f) \/ Delete(h, f)
       \/ \E h \in Listers \cap cast.handlers, q \in Queries : List(h, q[1], q[2], q[3])
       \/ \E c \in Cleaners : CleanerStep(c)
       \/ \E f \in Files : Expire(f)

Spec == Init /\ [][Next]_vars

\* The cleanup loops run again and again, past each file in turn; requests may hang.
Fairness == \A c \in Cleaners : WF_vars(CleanerStep(c))

FairSpec == Spec /\ Fairness

-----------------------------------------------------------------------------
(* Properties. *)

\* An uploaded file whose metadata is there is in both indices until somebody
\* deletes it: neither a crash nor the backfill of a listing takes it out.
ListableUntilDeleted ==
    (uploaded \ unwanted) \cap meta \subseteq byTime \cap byPurpose

\* A page holds, in order and past the cursor, at least the files that could be
\* listed all along, up to where it ends; it says whether there are more.  Uploads,
\* deletions, expiry and dangling index entries in between do not matter as long as
\* the cursor itself stays.
PageIsRight ==
    \A h \in Handlers :
        LET r == req[h]
            due == {f \in r.there : r.after = None \/ Before(r.after, f, r.desc)}
            listed == {r.got[i] : i \in 1..Len(r.got)}
        IN  r.pc = "answered" /\ r.after \in r.there \cup {None} =>
              /\ \A i \in 1..Len(r.got) :
                    Before(IF i = 1 THEN r.after ELSE r.got[i - 1], r.got[i], r.desc)
                      \/ (i = 1 /\ r.after = None)
              /\ IF r.more
                   THEN /\ Len(r.got) = Limit
                        /\ \A f \in due : f \in listed \/ Before(r.got[Limit], f, r.desc)
                   ELSE due \subseteq listed

\* An uploaded file has its content as long as it has metadata and nobody deletes it.
StoredHasContent == (uploaded \ unwanted) \cap meta \subseteq content

\* What is left of an upload or a deletion that was cut short is removed where a
\* cleanup loop runs.
OrphansGo ==
    \A f \in Files :
        f \in content \ meta /\ cast.cleaners # {} ~> f \notin content \/ f \in meta
=============================================================================
