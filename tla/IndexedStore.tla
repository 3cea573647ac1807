----------------------------- MODULE IndexedStore -----------------------------
(***************************************************************************)
(* The stored chat completions: each is an object, an entry of an index    *)
(* ordered by the time of creation, and its messages, written by separate  *)
(* calls of the store.  Batches keep object and index entry the same way.  *)
(* API processes store, update, delete and list them at the same time;     *)
(* every call of the store is a step of its own.                           *)
(*                                                                         *)
(* A completion is the number of its place in the index, that is by second *)
(* of creation and then by id.  An object is 0 when absent, else one of    *)
(* two values of its metadata.                                             *)
(***************************************************************************)
EXTENDS Integers, Sequences, FiniteSets

CONSTANTS
  Completions,  \* 1..n
  Legacy,       \* those stored before there was an index
  Changed,      \* bound: those that are updated or deleted, or whose time ends
  Procs,        \* API processes
  Listers,      \* bound: those that list
  Queries,      \* the listings made: [after, reverse, filter], 0 for none
  Limit,        \* bound: completions on a page of a listing
  Batch,        \* entries read from the index at once, at least fifty in the code
  Faults        \* "crash", "expire": what may happen

ASSUME IndexedStoreAssumption ==
  /\ Completions \subseteq Nat \ {0} /\ IsFiniteSet(Completions) /\ Legacy \subseteq Completions
  /\ Queries \subseteq [after : Completions \cup {0}, reverse : BOOLEAN, filter : 0..2]
  /\ Limit \in Nat \ {0} /\ Batch \in Nat \ {0} /\ Listers \subseteq Procs

Pieces == {"object", "index", "messages"}

VARIABLES
  object,    \* chat_completions: completion -> 0, 1 or 2
  index,     \* chat_completions_idx
  messages,  \* chat_completions_messages
  renewed,   \* pieces written again since the others were
  created,   \* completions ever stored
  proc,      \* what a process is doing
  torn,      \* history: <<completion, piece>> an operation was cut off before or
             \* while it wrote, until it is written
  deleted,   \* history: completions a delete has begun for
  steady     \* history: completions untouched since a process began to list

store == <<object, index, messages, renewed>>
history == <<created, torn, deleted>>
vars == <<store, history, proc, steady>>

Idle == [op |-> "idle", at |-> "none", c |-> 0, query |-> [after |-> 0, reverse |-> FALSE, filter |-> 0],
         keys |-> {}, scan |-> 0, page |-> <<>>, more |-> FALSE, found |-> <<>>]

Has(c, piece) ==
  CASE piece = "object" -> object[c] # 0 [] piece = "index" -> c \in index [] OTHER -> c \in messages
Existing(c) == { piece \in Pieces : Has(c, piece) }
Renew(c, piece) ==
  renewed' = [renewed EXCEPT ![c] = IF Existing(c) \subseteq @ \cup {piece} THEN {} ELSE @ \cup {piece}]
Do(p, record) == proc' = [proc EXCEPT ![p] = record]
Go(p, at) == Do(p, [proc[p] EXCEPT !.at = at])
Finish(p) == Do(p, Idle)
Touched(c) == steady' = [p \in Procs |-> steady[p] \ {c}]

-----------------------------------------------------------------------------
(* Writing. *)

\* A completion is stored: the object first.
Store(p, c) ==
  /\ proc[p] = Idle /\ c \notin created
  /\ created' = created \cup {c}
  /\ object' = [object EXCEPT ![c] = 1]
  /\ Do(p, [Idle EXCEPT !.op = "store", !.at = "index", !.c = c])
  /\ UNCHANGED <<index, messages, renewed, torn, deleted, steady>>

\* Its metadata is changed: the object is read, then written, then the rest.
\* Bound: no update begins once it has its second value.
Update(p, c) ==
  /\ proc[p] = Idle /\ c \in Changed /\ object[c] = 1
  /\ Do(p, [Idle EXCEPT !.op = "update", !.at = "object", !.c = c])
  /\ UNCHANGED <<store, history, steady>>

PutObject(p) ==
  LET c == proc[p].c IN
  /\ proc[p].op = "update" /\ proc[p].at = "object"
  /\ object' = [object EXCEPT ![c] = 2]
  /\ Renew(c, "object") /\ Touched(c) /\ Go(p, "index")
  /\ UNCHANGED <<index, messages, history>>

PutIndex(p) ==
  LET c == proc[p].c IN
  /\ proc[p].op \in {"store", "update"} /\ proc[p].at = "index"
  /\ index' = index \cup {c}
  /\ Renew(c, "index") /\ Touched(c) /\ torn' = torn \ {<<c, "index">>}
  /\ Go(p, IF proc[p].op = "store" THEN "put" ELSE "messages")
  /\ UNCHANGED <<object, messages, created, deleted>>

\* An update reads the messages, and writes them again when there are any.
GetMessages(p) ==
  /\ proc[p].op = "update" /\ proc[p].at = "messages"
  /\ IF proc[p].c \in messages THEN Go(p, "put") ELSE Finish(p)
  /\ UNCHANGED <<store, history, steady>>

PutMessages(p) ==
  LET c == proc[p].c IN
  /\ proc[p].op \in {"store", "update"} /\ proc[p].at = "put"
  /\ messages' = messages \cup {c}
  /\ Renew(c, "messages") /\ Finish(p)
  /\ UNCHANGED <<object, index, history, steady>>

\* Mutant: the object is deleted before its index entry.
ObjectFirst == <<"object", "index", "messages">>
DropOrder == <<"index", "object", "messages">>

\* A delete reads the object to know the entry of the index.
\* Bound: a completion is deleted once.
Delete(p, c) ==
  /\ proc[p] = Idle /\ c \in Changed \cap (created \ deleted)
  /\ deleted' = deleted \cup {c}
  /\ Do(p, [Idle EXCEPT !.op = "delete", !.c = c,
                        !.at = IF object[c] # 0 THEN DropOrder[1] ELSE DropOrder[2]])
  /\ UNCHANGED <<store, created, torn, steady>>

Drop(p) ==
  LET c == proc[p].c
      i == CHOOSE i \in 1..3 : DropOrder[i] = proc[p].at IN
  /\ proc[p].op = "delete"
  /\ object' = IF proc[p].at = "object" THEN [object EXCEPT ![c] = 0] ELSE object
  /\ index' = IF proc[p].at = "index" THEN index \ {c} ELSE index
  /\ messages' = IF proc[p].at = "messages" THEN messages \ {c} ELSE messages
  /\ IF i = 3 THEN Finish(p) ELSE Go(p, DropOrder[i + 1])
  /\ Touched(c)
  /\ UNCHANGED <<renewed, history>>

-----------------------------------------------------------------------------
(* Listing. *)

\* The index is looked at first; when it has no entry it may have to be made.
List(p, q) ==
  /\ proc[p] = Idle
  /\ Do(p, [Idle EXCEPT !.op = "list", !.query = q, !.scan = q.after,
                        !.at = IF index = {} THEN "keys" ELSE "cursor"])
  /\ steady' = [steady EXCEPT ![p] = { c \in index : object[c] # 0 }]
  /\ UNCHANGED <<store, history>>

Keys(p) ==
  /\ proc[p].op = "list" /\ proc[p].at = "keys"
  /\ Do(p, [proc[p] EXCEPT !.keys = { c \in Completions : object[c] # 0 }, !.at = "backfill"])
  /\ UNCHANGED <<store, history, steady>>

Backfill(p) ==
  LET keys == proc[p].keys
      c == CHOOSE c \in keys : \A d \in keys : c <= d IN
  /\ proc[p].op = "list" /\ proc[p].at = "backfill"
  /\ IF keys = {} THEN Go(p, "cursor")
     ELSE Do(p, [proc[p] EXCEPT !.keys = keys \ {c}, !.c = c,
                                !.at = IF object[c] # 0 THEN "fill" ELSE "backfill"])
  /\ UNCHANGED <<store, history, steady>>

Fill(p) ==
  LET c == proc[p].c IN
  /\ proc[p].op = "list" /\ proc[p].at = "fill"
  /\ index' = index \cup {c}
  /\ Renew(c, "index") /\ Touched(c) /\ torn' = torn \ {<<c, "index">>}
  /\ Go(p, "backfill")
  /\ UNCHANGED <<object, messages, created, deleted>>

\* A cursor whose object is gone gives an empty page and no more.
Cursor(p) ==
  LET after == proc[p].query.after IN
  /\ proc[p].op = "list" /\ proc[p].at = "cursor"
  /\ Go(p, IF after # 0 /\ object[after] = 0 THEN "lost" ELSE "page")
  /\ UNCHANGED <<store, history, steady>>

Beyond(from, reverse, c) == from = 0 \/ (IF reverse THEN c < from ELSE c > from)

\* The first entries of the index beyond a place, at most Batch of them.
Entries(from, reverse) ==
  LET beyond == { c \in index : Beyond(from, reverse, c) }
      rank(c) == Cardinality({ d \in beyond : d = c \/ Beyond(d, reverse, c) })
      n == IF Cardinality(beyond) < Batch THEN Cardinality(beyond) ELSE Batch IN
  [i \in 1..n |-> CHOOSE c \in beyond : rank(c) = i]

Page(p) ==
  LET l == proc[p]
      page == Entries(l.scan, l.query.reverse) IN
  /\ l.op = "list" /\ l.at = "page"
  /\ IF page = <<>> THEN Go(p, "done")
     ELSE Do(p, [l EXCEPT !.page = page, !.scan = page[Len(page)], !.at = "get",
                          !.more = { c \in index : Beyond(page[Len(page)], l.query.reverse, c) } # {}])
  /\ UNCHANGED <<store, history, steady>>

Matches(c, q) == object[c] # 0 /\ (q.filter = 0 \/ object[c] = q.filter)

Enough(found) == Len(found) > Limit

\* Mutant: an entry without an object ends the page.
StopAtGap(p) ==
  LET l == proc[p]
      found == IF Matches(l.page[1], l.query) THEN Append(l.found, l.page[1]) ELSE l.found IN
  /\ l.op = "list" /\ l.at = "get"
  /\ Do(p, [l EXCEPT !.found = found, !.page = Tail(l.page), !.at =
       IF Enough(found) \/ object[l.page[1]] = 0 THEN "done" ELSE IF Len(l.page) > 1 THEN "get"
       ELSE IF l.more THEN "page" ELSE "done"])
  /\ UNCHANGED <<store, history, steady>>

\* The object of the next entry is read and kept when it matches; the scan goes
\* on until there is one more than asked for or the index ends.
Get(p) ==
  LET l == proc[p]
      found == IF Matches(l.page[1], l.query) THEN Append(l.found, l.page[1]) ELSE l.found IN
  /\ l.op = "list" /\ l.at = "get"
  /\ Do(p, [l EXCEPT !.found = found, !.page = Tail(l.page), !.at =
       IF Enough(found) THEN "done" ELSE IF Len(l.page) > 1 THEN "get"
       ELSE IF l.more THEN "page" ELSE "done"])
  /\ UNCHANGED <<store, history, steady>>

Return(p) ==
  /\ proc[p].op = "list" /\ proc[p].at \in {"done", "lost"}
  /\ Finish(p) /\ steady' = [steady EXCEPT ![p] = {}]
  /\ UNCHANGED <<store, history>>

-----------------------------------------------------------------------------
(* Time and crashes. *)

\* All pieces are kept for the same time since they were written: object, index
\* entry and messages end in this order, those written again after the others.
Age(c, piece) ==
  (CASE piece = "object" -> 1 [] piece = "index" -> 2 [] OTHER -> 3) +
  (IF piece \in renewed[c] THEN 3 ELSE 0)

Updated(c) == \E p \in Procs : proc[p].op = "update" /\ proc[p].c = c

Expire(c, piece) ==
  /\ "expire" \in Faults /\ c \in Changed /\ Has(c, piece)
  /\ \A other \in Existing(c) : Age(c, piece) <= Age(c, other)
  /\ object' = IF piece = "object" THEN [object EXCEPT ![c] = 0] ELSE object
  /\ index' = IF piece = "index" THEN index \ {c} ELSE index
  /\ messages' = IF piece = "messages" THEN messages \ {c} ELSE messages
  /\ torn' = IF piece = "messages" /\ Updated(c) THEN torn \cup {<<c, "messages">>} ELSE torn
  /\ renewed' = [renewed EXCEPT ![c] = IF Existing(c) = {piece} THEN {} ELSE @]
  /\ Touched(c)
  /\ UNCHANGED <<created, deleted, proc>>

Crash(p) ==
  /\ "crash" \in Faults /\ proc[p] # Idle
  /\ torn' = IF proc[p].op = "list" THEN torn ELSE torn \cup { <<proc[p].c, piece>> : piece \in {"index", "messages"} }
  /\ Finish(p) /\ steady' = [steady EXCEPT ![p] = {}]
  /\ UNCHANGED <<store, created, deleted>>

-----------------------------------------------------------------------------
Init ==
  /\ object = [c \in Completions |-> IF c \in Legacy THEN 1 ELSE 0]
  /\ index = {} /\ messages = Legacy /\ renewed = [c \in Completions |-> {}]
  /\ created = Legacy /\ torn = { <<c, "index">> : c \in Legacy } /\ deleted = {}
  /\ proc = [p \in Procs |-> Idle] /\ steady = [p \in Procs |-> {}]

Next ==
  \/ \E p \in Procs, c \in Completions : Store(p, c) \/ Update(p, c) \/ Delete(p, c)
  \/ \E p \in Listers, q \in Queries : List(p, q)
  \/ \E p \in Procs :
       \/ PutObject(p) \/ PutIndex(p) \/ GetMessages(p) \/ PutMessages(p) \/ Drop(p)
       \/ Keys(p) \/ Backfill(p) \/ Fill(p) \/ Cursor(p) \/ Page(p) \/ Get(p) \/ Return(p)
       \/ Crash(p)
  \/ \E c \in Completions, piece \in Pieces : Expire(c, piece)

Spec == Init /\ [][Next]_vars

-----------------------------------------------------------------------------
Busy(c) == \E p \in Procs : proc[p].op \in {"store", "update", "delete"} /\ proc[p].c = c
Result(p) == IF Enough(proc[p].found) THEN SubSeq(proc[p].found, 1, Limit) ELSE proc[p].found

\* The pieces belong to completions that were stored, and a listing keeps at
\* most one completion more than it returns.
TypeOK ==
  /\ object \in [Completions -> 0..2] /\ index \subseteq created /\ messages \subseteq created
  /\ created \subseteq Completions /\ torn \subseteq created \X Pieces /\ deleted \subseteq created
  /\ renewed \in [Completions -> SUBSET Pieces]
  /\ \A p \in Procs :
       /\ proc[p].op \in {"idle", "store", "update", "delete", "list"}
       /\ Len(proc[p].found) <= Limit + 1 /\ Len(proc[p].page) <= Batch

\* When nobody writes a completion it is in the index if it is stored, after any
\* race of updates, deletes, listings that make the index and the end of its
\* time, unless a crash cut an operation on it off and its entry, or that of one
\* from before there was an index, was not written since.
StoredIsListed ==
  \A c \in Completions : ~Busy(c) /\ object[c] # 0 /\ <<c, "index">> \notin torn => c \in index

\* It then also has its messages, unless a delete was begun or they ended while
\* an update was under way.
MessagesKept ==
  \A c \in Completions \ deleted :
    ~Busy(c) /\ object[c] # 0 /\ <<c, "messages">> \notin torn => c \in messages

\* What is stored of a completion is all of it.
StoredIsWhole == StoredIsListed /\ MessagesKept

\* A listing has no completion twice, in the order asked for, all beyond its cursor.
ListedInOrder ==
  \A p \in Procs : LET f == proc[p].found  q == proc[p].query IN
    /\ \A i, j \in DOMAIN f : i < j => Beyond(f[i], q.reverse, f[j]) /\ f[i] # f[j]
    /\ \A i \in DOMAIN f : f[i] # q.after

\* A listing that has ended returns every matching completion nobody touched
\* since it began, up to the last it returns, or all when it says there are no
\* more; one whose cursor is gone returns nothing.
ListedAll ==
  \A p \in Procs : proc[p].op = "list" /\ proc[p].at = "done" =>
    LET q == proc[p].query
        returned == { Result(p)[i] : i \in DOMAIN Result(p) } IN
    \A c \in steady[p] :
      Matches(c, q) /\ c # q.after /\ Beyond(q.after, q.reverse, c) =>
        \/ c \in returned
        \/ /\ Enough(proc[p].found)
           /\ \A d \in returned : Beyond(d, q.reverse, c)

\* A page of a listing is what was asked for.
ListedRight == TypeOK /\ ListedInOrder /\ ListedAll

=============================================================================
