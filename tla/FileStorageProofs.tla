-------------------------- MODULE FileStorageProofs --------------------------
(***************************************************************************)
(* Proofs about file storage, for any files, purposes, requests, cleanup   *)
(* loops, page size and scan batch: an uploaded file stays in both indices *)
(* until somebody deletes it, and a page of a listing is right whatever    *)
(* changes while it is put together.                                       *)
(***************************************************************************)
EXTENDS FileStorage, FiniteSetTheorems, SequenceTheorems, TLAPS

(* The first files of an index. *)

InOrder(s, desc) == \A i, j \in 1..Len(s) : i < j => Before(s[i], s[j], desc)
Among(f, s) == \E i \in 1..Len(s) : f = s[i]

\* Files are ranked by how many come before them: FirstOf yields a sequence of the set, in
\* order, of at most n, and leaves out only files behind its last, when there are more than n.
LEMMA FirstOfIsFirst ==
    ASSUME NEW S \in SUBSET Nat, IsFiniteSet(S), S # {}, NEW n \in Nat \ {0}, NEW desc \in BOOLEAN
    PROVE  LET s == FirstOf(S, n, desc) IN
           /\ s \in Seq(S) /\ s # <<>> /\ InOrder(s, desc)
           /\ \A f \in S : Among(f, s) \/ (Cardinality(S) > n /\ Before(s[Len(s)], f, desc))
  <1> DEFINE below == [f \in S |-> {g \in S : Before(g, f, desc)}]
             rank == [f \in S |-> Cardinality(below[f])]
             size == IF Cardinality(S) < n THEN Cardinality(S) ELSE n
             s == FirstOf(S, n, desc)
             Ranks == 0..(Cardinality(S) - 1)
  <1>1. Cardinality(S) \in Nat /\ Cardinality(S) # 0
    BY FS_CardinalityType, FS_EmptySet
  <1> HIDE DEF below
  <1>2. /\ \A f \in S : below[f] \in SUBSET S /\ IsFiniteSet(below[f])
        /\ rank \in [S -> Nat] /\ \A f \in S : rank[f] = Cardinality(below[f])
    <2>1. \A f \in S : below[f] \in SUBSET S
      BY DEF below
    <2>2. \A f \in S : IsFiniteSet(below[f])
      BY <2>1, FS_Subset
    <2> QED  BY <2>1, <2>2, FS_CardinalityType
  <1>3. \A f, g \in S : f \in below[g] <=> Before(f, g, desc)
    BY DEF below
  <1> HIDE DEF rank
  <1>4. \A f, g \in S : /\ ~Before(f, f, desc) /\ (f = g \/ Before(f, g, desc) \/ Before(g, f, desc))
                       /\ \A h \in S : Before(f, g, desc) /\ Before(g, h, desc) => Before(f, h, desc)
    BY DEF Before
  <1>5. ASSUME NEW f \in S, NEW g \in S, Before(f, g, desc) PROVE rank[f] < rank[g]
    <2>1. \A h \in S : h \in below[f] => h \in below[g]
      BY <1>3, <1>4, <1>5
    <2>2. below[f] \in SUBSET below[g] /\ f \in below[g] /\ f \notin below[f]
      BY <1>2, <1>3, <1>4, <1>5, <2>1
    <2>3. rank[f] <= rank[g] /\ (rank[f] = rank[g] => below[f] = below[g])
      BY <1>2, <2>2, FS_Subset
    <2> QED  BY <1>2, <2>2, <2>3
  <1>6. \A f \in S : rank[f] \in Ranks
    <2> TAKE f \in S
    <2>1. below[f] \in SUBSET S /\ f \notin below[f]
      BY <1>2, <1>3, <1>4
    <2>2. Cardinality(below[f]) <= Cardinality(S) /\ Cardinality(below[f]) # Cardinality(S)
      BY <2>1, FS_Subset
    <2> QED  BY <1>1, <1>2, <2>2
  <1>7. \A k \in Ranks : \E f \in S : rank[f] = k
    <2>1. rank \in [S -> Ranks]
      BY <1>2, <1>6
    <2>2. rank \in Injection(S, Ranks)
      BY <2>1, <1>2, <1>5, <1>4 DEF Injection, IsInjective
    <2>3. IsFiniteSet(Ranks) /\ Cardinality(Ranks) = Cardinality(S)
      BY <1>1, FS_Interval, SMTT(40)
    <2> HIDE DEF Ranks
    <2>4. rank \in Surjection(S, Ranks)
      BY <2>2, <2>3, FS_Injection
    <2> QED  BY <2>4 DEF Surjection
  <1>8. size \in Nat \ {0} /\ size <= Cardinality(S)
    BY <1>1
  <1>9. s = [i \in 1..size |-> CHOOSE f \in S : Cardinality({g \in S : Before(g, f, desc)}) = i - 1]
    BY DEF FirstOf
  <1>10. \A f \in S : rank[f] = Cardinality({g \in S : Before(g, f, desc)})
    BY <1>2 DEF below
  <1> HIDE DEF s, size
  <1>11. \A i \in 1..size : s[i] \in S /\ rank[s[i]] = i - 1
    <2> TAKE i \in 1..size
    <2>1. \E f \in S : rank[f] = i - 1
      BY <1>1, <1>7, <1>8
    <2>2. \E f \in S : Cardinality({g \in S : Before(g, f, desc)}) = i - 1
      BY <1>10, <2>1
    <2>3. s[i] \in S /\ Cardinality({g \in S : Before(g, s[i], desc)}) = i - 1
      BY <1>9, <2>2
    <2> QED  BY <1>10, <2>3
  <1>12. s \in Seq(S) /\ Len(s) = size /\ s # <<>>
    <2>1. s \in [1..size -> S]
      BY <1>9, <1>11, Zenon
    <2>2. s \in Seq(S) /\ Len(s) = size
      BY <1>8, <2>1
    <2> QED  BY <1>8, <2>2
  <1>13. InOrder(s, desc)
    <2> SUFFICES ASSUME NEW i \in 1..size, NEW j \in 1..size, i < j PROVE Before(s[i], s[j], desc)
      BY <1>12 DEF InOrder
    <2>1. rank[s[i]] < rank[s[j]]
      BY <1>8, <1>11
    <2>2. PICK f \in S, g \in S : f = s[i] /\ g = s[j] /\ rank[f] < rank[g]
      BY <1>11, <2>1
    <2>3. ~Before(g, f, desc) /\ f # g
      <3>1. ~(rank[g] < rank[f]) /\ rank[f] # rank[g]
        BY <1>2, <2>2
      <3> QED  BY <1>5, <3>1
    <2> QED  BY <1>4, <2>2, <2>3
  <1>14. ASSUME NEW f \in S PROVE Among(f, s) \/ (Cardinality(S) > n /\ Before(s[Len(s)], f, desc))
    <2>1. rank[f] \in Nat
      BY <1>2
    <2>2. CASE rank[f] + 1 <= size
      <3>1. rank[f] + 1 \in 1..size /\ rank[s[rank[f] + 1]] = rank[f]
        BY <1>8, <1>11, <2>1, <2>2
      <3>2. s[rank[f] + 1] = f
        <4>1. PICK g \in S : g = s[rank[f] + 1] /\ rank[g] = rank[f]
          BY <1>11, <3>1
        <4>2. ~Before(f, g, desc) /\ ~Before(g, f, desc)
          <5>1. ~(rank[f] < rank[g]) /\ ~(rank[g] < rank[f])
            BY <1>2, <4>1
          <5> QED  BY <1>5, <5>1
        <4> QED  BY <1>4, <4>1, <4>2
      <3> QED  BY <1>12, <3>1, <3>2 DEF Among
    <2>3. CASE rank[f] + 1 > size
      <3>1. rank[s[size]] < rank[f]
        BY <1>8, <1>11, <2>1, <2>3
      <3>2. s[size] \in S /\ Before(s[size], f, desc)
        <4>1. PICK g \in S : g = s[size] /\ rank[g] < rank[f]
          <5>1. size \in 1..size
            BY <1>8
          <5> QED  BY <1>11, <3>1, <5>1
        <4>2. ~Before(f, g, desc) /\ f # g
          <5>1. ~(rank[f] < rank[g]) /\ rank[f] # rank[g]
            BY <1>2, <4>1
          <5> QED  BY <1>5, <5>1
        <4> QED  BY <1>4, <4>1, <4>2
      <3>3. Cardinality(S) > n
        BY <1>1, <1>6, <1>8, <2>3 DEF size
      <3> QED  BY <1>12, <3>2, <3>3
    <2> QED  BY <1>8, <2>1, <2>2, <2>3
  <1> QED  BY <1>12, <1>13, <1>14 DEF s

-----------------------------------------------------------------------------
(* Requests. *)

Uploading == {"write", "meta", "time", "purpose"}
Deleting == {"delTime", "delPurpose", "delMeta", "unlink"}
Refilling == {"fillMeta", "fillTime", "fillPurpose"}

\* A file is uploaded by one request, and deleted only after that; what is filled in again
\* is there unless somebody deletes it.
FilesOfRequests ==
  /\ uploaded \subseteq born /\ unwanted \subseteq uploaded
  /\ \A h \in Handlers :
       /\ req[h].pc \in Uploading \cup Deleting \cup Refilling => req[h].file \in Files
       /\ req[h].pc \in Uploading => req[h].file \in born \ uploaded
       /\ req[h].pc = "purpose" => req[h].file \in byTime
       /\ req[h].pc \in Deleting => req[h].file \in unwanted
       /\ req[h].pc = "fillMeta" => req[h].file \in meta \cup unwanted
  /\ \A g, h \in Handlers :
       req[g].pc \in Uploading /\ req[h].pc \in Uploading /\ req[g].file = req[h].file => g = h

Due(r) == { f \in r.there : r.after = None \/ Before(r.after, f, r.desc) }
Past(r, f) == r.scan = None \/ Before(r.scan, f, r.desc)

\* What a listing has is in order, past its cursor and no further than it has read.
GotOk(r) ==
  /\ InOrder(r.got, r.desc)
  /\ \A i \in 1..Len(r.got) :
       /\ r.after = None \/ Before(r.after, r.got[i], r.desc)
       /\ r.scan # None /\ (r.got[i] = r.scan \/ Before(r.got[i], r.scan, r.desc))
  /\ r.after # None => r.scan # None /\ (r.scan = r.after \/ Before(r.after, r.scan, r.desc))

\* The batch it reads is in order and past what was read; no file that is due is left out.
PageOk(r) ==
  /\ InOrder(r.page, r.desc)
  /\ \A i \in 1..Len(r.page) : Past(r, r.page[i])
  /\ \A f \in Due(r) : \/ Among(f, r.got) \/ Among(f, r.page)
                       \/ (r.more /\ Before(r.page[Len(r.page)], f, r.desc))

AnswerOk(r) ==
  r.after \in r.there \cup {None} =>
    /\ InOrder(r.got, r.desc)
    /\ \A i \in 1..Len(r.got) : r.after = None \/ Before(r.after, r.got[i], r.desc)
    /\ IF r.more THEN /\ Len(r.got) = Limit
                      /\ \A f \in Due(r) : Among(f, r.got) \/ Before(r.got[Limit], f, r.desc)
                 ELSE \A f \in Due(r) : Among(f, r.got)

\* A listing, apart from what has been there all along.
ListingOk(r) ==
  /\ r.pc \notin {"scan", "read", "answered"} => r.got = <<>> /\ r.page = <<>> /\ ~r.more
  /\ r.pc = "scan" => GotOk(r) /\ \A f \in Due(r) : Among(f, r.got) \/ Past(r, f)
  /\ r.pc = "read" => GotOk(r) /\ PageOk(r)
  /\ r.pc = "answered" => AnswerOk(r)

\* What has been there all along is still listable.
ThereOk(r) == r.there \subseteq Listable(r.want, meta, byTime, byPurpose)

Listings == \A h \in Handlers : ListingOk(req[h]) /\ ThereOk(req[h])

FiniteIndices == IsFiniteSet(byTime) /\ IsFiniteSet(byPurpose)

\* The facts each step keeps.
IInv == TypeOK /\ FilesOfRequests /\ ListableUntilDeleted /\ Listings /\ FiniteIndices

\* Nothing but what has been there all along differs.
Fewer(q, r) ==
  /\ q.pc = r.pc /\ q.file = r.file /\ q.todo = r.todo /\ q.want = r.want /\ q.desc = r.desc
  /\ q.after = r.after /\ q.scan = r.scan /\ q.page = r.page /\ q.more = r.more /\ q.got = r.got
  /\ q.there \subseteq r.there

LEMMA FewerIsOk ==
    ASSUME NEW q, NEW r, Fewer(q, r), ListingOk(r)
    PROVE  ListingOk(q)
  <1>1. \A f \in Due(q) : f \in Due(r)
    BY DEF Fewer, Due
  <1>2. (GotOk(r) => GotOk(q)) /\ (PageOk(r) => PageOk(q))
    BY <1>1 DEF Fewer, GotOk, PageOk, Past
  <1>3. AnswerOk(r) => AnswerOk(q)
    BY <1>1 DEF Fewer, AnswerOk
  <1> QED  BY <1>1, <1>2, <1>3 DEF Fewer, ListingOk, Past

LEMMA StillThereIsFewer ==
    ASSUME NEW r \in Request
    PROVE  /\ StillThere(r) \in Request /\ Fewer(StillThere(r), r)
           /\ StillThere(r).there \subseteq Listable(r.want, meta', byTime', byPurpose')
  BY DEF StillThere, Request, Fewer

\* The types of a request and how they depend on each other.
RequestOk(r) == r \in Request /\ (r.pc = "read" <=> r.page # <<>>) /\ Len(r.got) <= Limit

\* A step of one request leaves every listing right if it leaves that one right.
LEMMA Proceeds ==
    ASSUME IInv, NEW h \in Handlers, NEW r, RequestOk(r), ListingOk(r), Proceed(h, r)
    PROVE  /\ req' \in [Handlers -> Request] /\ \A g \in Handlers : RequestOk(req'[g])
           /\ Listings'
           /\ Fewer(req'[h], r) /\ \A g \in Handlers : g # h => Fewer(req'[g], req[g])
  <1> DEFINE old(g) == IF g = h THEN r ELSE req[g]
  <1>1. \A g \in Handlers : RequestOk(old(g)) /\ ListingOk(old(g))
    BY DEF IInv, TypeOK, Listings, RequestOk
  <1>2. \A g \in Handlers : req'[g] = StillThere(old(g))
    BY DEF Proceed
  <1> HIDE DEF old
  <1>3. ASSUME NEW g \in Handlers
        PROVE  /\ RequestOk(req'[g]) /\ ListingOk(req'[g]) /\ Fewer(req'[g], old(g))
               /\ req'[g].there \subseteq Listable(req'[g].want, meta', byTime', byPurpose')
    <2>1. StillThere(old(g)) \in Request /\ Fewer(StillThere(old(g)), old(g))
      BY <1>1, StillThereIsFewer DEF RequestOk
    <2>2. StillThere(old(g)).there \subseteq Listable(old(g).want, meta', byTime', byPurpose')
      BY <1>1, StillThereIsFewer DEF RequestOk
    <2>3. ListingOk(StillThere(old(g)))
      BY <1>1, <2>1, FewerIsOk
    <2> QED  BY <1>1, <1>2, <2>1, <2>2, <2>3 DEF RequestOk, Fewer
  <1>4. req' \in [Handlers -> Request]
    <2>1. DOMAIN req' = Handlers /\ req' = [g \in Handlers |-> req'[g]]
      BY DEF Proceed
    <2> QED  BY <2>1, <1>3 DEF RequestOk
  <1>5. Listings'
    <2>1. \A g \in Handlers : ListingOk(req'[g])
      BY <1>3
    <2> QED  BY <1>3, <2>1 DEF Listings, ListingOk, ThereOk, GotOk, PageOk, AnswerOk
  <1> QED  BY <1>3, <1>4, <1>5 DEF old

\* A step of something else leaves every listing right.
LEMMA BystandersProceed ==
    ASSUME IInv, Bystanders
    PROVE  /\ req' \in [Handlers -> Request] /\ \A g \in Handlers : RequestOk(req'[g])
           /\ Listings' /\ \A g \in Handlers : Fewer(req'[g], req[g])
  <1>1. ASSUME NEW g \in Handlers
        PROVE  /\ RequestOk(req'[g]) /\ ListingOk(req'[g]) /\ Fewer(req'[g], req[g])
               /\ req'[g].there \subseteq Listable(req'[g].want, meta', byTime', byPurpose')
    <2>1. RequestOk(req[g]) /\ ListingOk(req[g])
      BY DEF IInv, TypeOK, Listings, RequestOk
    <2>2. StillThere(req[g]) \in Request /\ Fewer(StillThere(req[g]), req[g])
      BY <2>1, StillThereIsFewer DEF RequestOk
    <2>3. StillThere(req[g]).there \subseteq Listable(req[g].want, meta', byTime', byPurpose')
      BY <2>1, StillThereIsFewer DEF RequestOk
    <2>4. ListingOk(StillThere(req[g]))
      BY <2>1, <2>2, FewerIsOk
    <2> QED  BY <2>1, <2>2, <2>3, <2>4 DEF RequestOk, Fewer, Bystanders
  <1>2. req' \in [Handlers -> Request]
    <2>1. DOMAIN req' = Handlers /\ req' = [g \in Handlers |-> req'[g]]
      BY DEF Bystanders
    <2> QED  BY <2>1, <1>1 DEF RequestOk
  <1>3. Listings'
    <2>1. \A g \in Handlers : ListingOk(req'[g])
      BY <1>1
    <2> QED  BY <1>1, <2>1 DEF Listings, ListingOk, ThereOk, GotOk, PageOk, AnswerOk
  <1> QED  BY <1>1, <1>2, <1>3

LEMMA QuietIsOk ==
    ASSUME NEW r \in Request, r.pc \notin {"scan", "read", "answered"}, r.got = <<>>, r.page = <<>>, ~r.more
    PROVE  RequestOk(r) /\ ListingOk(r)
  BY FileStorageAssumption DEF RequestOk, ListingOk

LEMMA NoRequestIsOk == NoRequest \in Request /\ RequestOk(NoRequest) /\ ListingOk(NoRequest)
  <1>1. NoRequest \in Request
    BY DEF NoRequest, Request
  <1> QED  BY <1>1, QuietIsOk DEF NoRequest

\* A request that does not list goes from one step to the next.
LEMMA GoesOn ==
    ASSUME IInv, NEW h \in Handlers, NEW pc,
           req[h].pc \notin {"scan", "read", "answered"},
           pc \in {"meta", "time", "purpose", "delPurpose", "delMeta", "unlink", "keys", "fillTime", "fillPurpose", "resolve"}
    PROVE  LET r == [req[h] EXCEPT !.pc = pc] IN
           r \in Request /\ RequestOk(r) /\ ListingOk(r) /\ r.pc = pc /\ r.file = req[h].file
  <1> DEFINE r == [req[h] EXCEPT !.pc = pc]
  <1>1. req[h] \in Request /\ ListingOk(req[h])
    BY DEF IInv, TypeOK, Listings
  <1>2. r \in Request /\ r.pc = pc /\ r.file = req[h].file /\ r.got = req[h].got /\ r.page = req[h].page
        /\ r.more = req[h].more
    BY <1>1, SMTT(40) DEF Request
  <1> HIDE DEF r
  <1>3. RequestOk(r) /\ ListingOk(r)
    BY <1>1, <1>2, QuietIsOk DEF ListingOk
  <1> QED  BY <1>2, <1>3 DEF r

-----------------------------------------------------------------------------
(* Each step keeps the facts. *)

\* Steps that change one request, and nothing stored.
LEMMA RequestSteps ==
    ASSUME IInv, NEW h \in Handlers, NEW r, RequestOk(r), ListingOk(r), Proceed(h, r),
           UNCHANGED <<cast, meta, byTime, byPurpose, clean, uploaded, unwanted, born>>, content' \subseteq content,
           r.pc \in Uploading => req[h].pc \in Uploading /\ r.pc # "purpose" /\ r.file = req[h].file,
           r.pc \notin Deleting \cup {"fillTime", "fillPurpose"},
           r.pc = "fillMeta" => r.file \in meta
    PROVE  IInv'
  <1>1. /\ req' \in [Handlers -> Request] /\ \A g \in Handlers : RequestOk(req'[g])
        /\ Listings'
        /\ Fewer(req'[h], r) /\ \A g \in Handlers : g # h => Fewer(req'[g], req[g])
    BY Proceeds
  <1>2. TypeOK'
    BY <1>1 DEF IInv, TypeOK, RequestOk
  <1>3. FilesOfRequests'
    <2>1. r.pc = "fillMeta" => r.file \in Files
      BY DEF IInv, TypeOK
    <2>2. \A g \in Handlers : /\ g # h => req'[g].pc = req[g].pc /\ req'[g].file = req[g].file
                              /\ req'[h].pc = r.pc /\ req'[h].file = r.file
      BY <1>1 DEF Fewer
    <2> QED  BY <2>1, <2>2 DEF IInv, FilesOfRequests, Uploading, Deleting, Refilling
  <1>4. ListableUntilDeleted' /\ FiniteIndices'
    BY DEF IInv, ListableUntilDeleted, FiniteIndices
  <1> QED  BY <1>1, <1>2, <1>3, <1>4 DEF IInv

LEMMA SimpleSteps ==
    ASSUME IInv, NEW h \in Handlers, UNCHANGED cast,
           \/ Written(h) \/ WriteFails(h) \/ Unlink(h) \/ Ensure(h) \/ ListKeys(h) \/ Filled(h)
           \/ Answered(h) \/ Crash(h) \/ \E f \in Files : Fill(h, f)
    PROVE  IInv'
  <1>1. ASSUME Done(h), UNCHANGED <<meta, byTime, byPurpose, clean, uploaded, unwanted, born>>, content' \subseteq content
        PROVE  IInv'
    <2>1. NoRequest.pc = "idle"
      BY DEF NoRequest
    <2> QED  BY <1>1, <2>1, NoRequestIsOk, RequestSteps DEF Done, Uploading, Deleting
  <1>2. CASE WriteFails(h) \/ Unlink(h) \/ Answered(h) \/ Crash(h)
    BY <1>1, <1>2 DEF WriteFails, Unlink, Answered, Crash
  <1>3. CASE Written(h)
    <2> DEFINE r == [req[h] EXCEPT !.pc = "meta"]
    <2>1. RequestOk(r) /\ ListingOk(r) /\ r.pc = "meta" /\ r.file = req[h].file
      BY <1>3, GoesOn DEF Written
    <2>2. /\ Proceed(h, r) /\ req[h].pc = "write" /\ content' = content
          /\ UNCHANGED <<meta, byTime, byPurpose, clean, uploaded, unwanted, born>>
      BY <1>3 DEF Written, Goto
    <2> HIDE DEF r
    <2> QED  BY <2>1, <2>2, RequestSteps DEF Uploading, Deleting
  <1>4. CASE Ensure(h)
    <2> DEFINE pc == IF byTime = {} THEN "keys" ELSE "resolve"
               r == [req[h] EXCEPT !.pc = pc]
    <2>1. RequestOk(r) /\ ListingOk(r) /\ r.pc \in {"keys", "resolve"}
      BY <1>4, GoesOn DEF Ensure
    <2>2. Proceed(h, r) /\ UNCHANGED <<content, meta, byTime, byPurpose, clean, uploaded, unwanted, born>>
      BY <1>4 DEF Ensure, Goto
    <2> HIDE DEF r
    <2> QED  BY <2>1, <2>2, RequestSteps DEF Uploading, Deleting
  <1>5. CASE Filled(h)
    <2> DEFINE r == [req[h] EXCEPT !.pc = "resolve"]
    <2>1. RequestOk(r) /\ ListingOk(r) /\ r.pc = "resolve"
      BY <1>5, GoesOn DEF Filled
    <2>2. Proceed(h, r) /\ UNCHANGED <<content, meta, byTime, byPurpose, clean, uploaded, unwanted, born>>
      BY <1>5 DEF Filled, Goto
    <2> HIDE DEF r
    <2> QED  BY <2>1, <2>2, RequestSteps DEF Uploading, Deleting
  <1>6. CASE ListKeys(h)
    <2> DEFINE r == [req[h] EXCEPT !.pc = "fill", !.todo = meta]
    <2>1. req[h] \in Request /\ ListingOk(req[h]) /\ req[h].pc = "keys" /\ meta \subseteq Files
      BY <1>6 DEF ListKeys, IInv, TypeOK, Listings
    <2>2. r \in Request /\ r.pc = "fill" /\ r.got = req[h].got /\ r.page = req[h].page /\ r.more = req[h].more
      BY <2>1 DEF Request
    <2>3. Proceed(h, r) /\ UNCHANGED <<content, meta, byTime, byPurpose, clean, uploaded, unwanted, born>>
      BY <1>6 DEF ListKeys
    <2> HIDE DEF r
    <2>4. RequestOk(r) /\ ListingOk(r)
      BY <2>1, <2>2, QuietIsOk DEF ListingOk
    <2> QED  BY <2>2, <2>3, <2>4, RequestSteps DEF Uploading, Deleting
  <1>7. CASE \E f \in Files : Fill(h, f)
    <2>1. PICK f \in Files : Fill(h, f)
      BY <1>7
    <2> DEFINE r == IF f \in meta THEN [req[h] EXCEPT !.pc = "fillMeta", !.file = f, !.todo = @ \ {f}]
                                  ELSE [req[h] EXCEPT !.todo = @ \ {f}]
    <2>2. req[h] \in Request /\ ListingOk(req[h]) /\ req[h].pc = "fill"
      BY <2>1 DEF Fill, IInv, TypeOK, Listings
    <2>3. /\ r \in Request /\ r.pc = (IF f \in meta THEN "fillMeta" ELSE "fill") /\ (f \in meta => r.file = f)
          /\ r.got = req[h].got /\ r.page = req[h].page /\ r.more = req[h].more
      BY <2>2 DEF Request
    <2>4. Proceed(h, r) /\ UNCHANGED <<content, meta, byTime, byPurpose, clean, uploaded, unwanted, born>>
      BY <2>1 DEF Fill
    <2> HIDE DEF r
    <2>5. RequestOk(r) /\ ListingOk(r)
      BY <2>2, <2>3, QuietIsOk DEF ListingOk
    <2> QED  BY <2>3, <2>4, <2>5, RequestSteps DEF Uploading, Deleting
  <1> QED  BY <1>2, <1>3, <1>4, <1>5, <1>6, <1>7

LEMMA IndicesStayFinite ==
    ASSUME FiniteIndices, NEW f,
           byTime' \in {byTime, byTime \cup {f}, byTime \ {f}},
           byPurpose' \in {byPurpose, byPurpose \cup {f}, byPurpose \ {f}}
    PROVE  FiniteIndices'
  BY FS_AddElement, FS_RemoveElement DEF FiniteIndices

LEMMA UploadKeeps ==
    ASSUME IInv, NEW h \in Handlers, NEW f \in Files, UNCHANGED cast, Upload(h, f)
    PROVE  IInv'
  <1> DEFINE r == [NoRequest EXCEPT !.pc = "write", !.file = f]
  <1>1. r \in Request /\ r.pc = "write" /\ r.file = f /\ r.got = <<>> /\ r.page = <<>> /\ ~r.more
    BY NoRequestIsOk DEF Request, NoRequest
  <1>2. Proceed(h, r)
    BY DEF Upload
  <1> HIDE DEF r
  <1>3. /\ req' \in [Handlers -> Request] /\ \A g \in Handlers : RequestOk(req'[g])
        /\ Listings'
        /\ Fewer(req'[h], r) /\ \A g \in Handlers : g # h => Fewer(req'[g], req[g])
    <2>1. RequestOk(r) /\ ListingOk(r)
      BY <1>1, QuietIsOk
    <2> QED  BY <1>2, <2>1, Proceeds
  <1>4. TypeOK'
    BY <1>3 DEF Upload, IInv, TypeOK, RequestOk
  <1>5. FilesOfRequests'
    <2>1. \A g \in Handlers : /\ g # h => req'[g].pc = req[g].pc /\ req'[g].file = req[g].file
                              /\ req'[h].pc = "write" /\ req'[h].file = f
      BY <1>1, <1>3 DEF Fewer
    <2>2. f \notin born /\ born' = born \cup {f} /\ UNCHANGED <<meta, byTime, byPurpose, uploaded, unwanted>>
      BY DEF Upload
    <2> QED  BY <2>1, <2>2 DEF IInv, FilesOfRequests, Uploading, Deleting, Refilling
  <1>6. ListableUntilDeleted' /\ FiniteIndices'
    BY DEF Upload, IInv, ListableUntilDeleted, FiniteIndices
  <1> QED  BY <1>3, <1>4, <1>5, <1>6 DEF IInv

LEMMA StoreKeeps ==
    ASSUME IInv, NEW h \in Handlers, UNCHANGED cast, StoreMeta(h) \/ StoreTime(h) \/ StorePurpose(h)
    PROVE  IInv'
  <1> DEFINE f == req[h].file
  <1>1. req[h].pc \in {"meta", "time", "purpose", "fillMeta", "fillTime", "fillPurpose"} /\ f \in Files
    BY DEF StoreMeta, StoreTime, StorePurpose, IInv, FilesOfRequests, Uploading, Refilling
  <1>2. PICK r : /\ RequestOk(r) /\ ListingOk(r) /\ Proceed(h, r)
                 /\ \/ StoreMeta(h) /\ r.pc = (IF req[h].pc = "meta" THEN "time" ELSE "fillTime") /\ r.file = f
                    \/ StoreTime(h) /\ r.pc = (IF req[h].pc = "time" THEN "purpose" ELSE "fillPurpose") /\ r.file = f
                    \/ StorePurpose(h) /\ r.pc = (IF req[h].pc = "purpose" THEN "idle" ELSE "fill")
    <2>1. CASE StoreMeta(h)
      <3> DEFINE q == [req[h] EXCEPT !.pc = IF req[h].pc = "meta" THEN "time" ELSE "fillTime"]
      <3>1. RequestOk(q) /\ ListingOk(q) /\ q.pc = (IF req[h].pc = "meta" THEN "time" ELSE "fillTime") /\ q.file = f
        BY <2>1, GoesOn DEF StoreMeta
      <3>2. Proceed(h, q)
        BY <2>1 DEF StoreMeta, Goto
      <3> HIDE DEF q
      <3> QED  BY <2>1, <3>1, <3>2
    <2>2. CASE StoreTime(h)
      <3> DEFINE q == [req[h] EXCEPT !.pc = IF req[h].pc = "time" THEN "purpose" ELSE "fillPurpose"]
      <3>1. RequestOk(q) /\ ListingOk(q) /\ q.pc = (IF req[h].pc = "time" THEN "purpose" ELSE "fillPurpose") /\ q.file = f
        BY <2>2, GoesOn DEF StoreTime
      <3>2. Proceed(h, q)
        BY <2>2 DEF StoreTime, Goto
      <3> HIDE DEF q
      <3> QED  BY <2>2, <3>1, <3>2
    <2>3. CASE StorePurpose(h) /\ req[h].pc = "purpose"
      BY <2>3, NoRequestIsOk DEF StorePurpose, Done, NoRequest
    <2>4. CASE StorePurpose(h) /\ req[h].pc # "purpose"
      <3> DEFINE q == [req[h] EXCEPT !.pc = "fill", !.file = None]
      <3>1. req[h] \in Request /\ ListingOk(req[h]) /\ req[h].pc = "fillPurpose" /\ Proceed(h, q)
        BY <2>4 DEF StorePurpose, IInv, TypeOK, Listings
      <3>2. q \in Request /\ q.pc = "fill" /\ q.got = req[h].got /\ q.page = req[h].page /\ q.more = req[h].more
        BY <3>1 DEF Request
      <3> HIDE DEF q
      <3>3. RequestOk(q) /\ ListingOk(q)
        BY <3>1, <3>2, QuietIsOk DEF ListingOk
      <3> QED  BY <2>4, <3>1, <3>2, <3>3
    <2> QED  BY <2>1, <2>2, <2>3, <2>4
  <1>3. /\ req' \in [Handlers -> Request] /\ \A g \in Handlers : RequestOk(req'[g])
        /\ Listings'
        /\ Fewer(req'[h], r) /\ \A g \in Handlers : g # h => Fewer(req'[g], req[g])
    BY <1>2, Proceeds
  <1>4. /\ UNCHANGED <<content, clean, unwanted, born>>
        /\ meta' = (IF StoreMeta(h) THEN meta \cup {f} ELSE meta)
        /\ byTime' = (IF StoreTime(h) THEN byTime \cup {f} ELSE byTime)
        /\ byPurpose' = (IF StorePurpose(h) THEN byPurpose \cup {f} ELSE byPurpose)
        /\ uploaded' = (IF req[h].pc = "purpose" THEN uploaded \cup {f} ELSE uploaded)
    BY DEF StoreMeta, StoreTime, StorePurpose
  <1>5. TypeOK'
    BY <1>1, <1>3, <1>4 DEF IInv, TypeOK, RequestOk
  <1>6. FilesOfRequests'
    <2>1. \A g \in Handlers : /\ g # h => req'[g].pc = req[g].pc /\ req'[g].file = req[g].file
                              /\ req'[h].pc = r.pc /\ req'[h].file = r.file
      BY <1>3 DEF Fewer
    <2>2. r.pc \in Uploading => req[h].pc \in Uploading /\ r.file = f /\ uploaded' = uploaded
      BY <1>2, <1>4 DEF Uploading, StoreMeta, StoreTime
    <2>3. r.pc = "purpose" => f \in byTime'
      BY <1>2, <1>4
    <2>4. r.pc \notin Deleting /\ r.pc # "fillMeta" /\ (r.pc \in Refilling => r.file = f)
      BY <1>2 DEF Deleting, Refilling
    <2>5. \A g \in Handlers : g # h /\ req[g].pc \in Uploading => req[g].file \notin uploaded'
      BY <1>4 DEF IInv, FilesOfRequests, Uploading
    <2>6. uploaded' \subseteq born /\ unwanted \subseteq uploaded' /\ byTime \subseteq byTime' /\ meta \subseteq meta'
      BY <1>4 DEF IInv, FilesOfRequests, Uploading
    <2>7. /\ \A g \in Handlers : req'[g].pc \in Uploading \cup Deleting \cup Refilling => req'[g].file \in Files
          /\ \A g \in Handlers : req'[g].pc \in Uploading => req'[g].file \in born' \ uploaded'
      BY <1>1, <1>4, <2>1, <2>2, <2>4, <2>5 DEF IInv, FilesOfRequests
    <2>8. \A g \in Handlers :
            /\ req'[g].pc = "purpose" => req'[g].file \in byTime'
            /\ req'[g].pc \in Deleting => req'[g].file \in unwanted'
            /\ req'[g].pc = "fillMeta" => req'[g].file \in meta' \cup unwanted'
      BY <1>4, <2>1, <2>2, <2>3, <2>4, <2>6 DEF IInv, FilesOfRequests, Uploading
    <2>9. \A i, j \in Handlers :
            req'[i].pc \in Uploading /\ req'[j].pc \in Uploading /\ req'[i].file = req'[j].file => i = j
      BY <2>1, <2>2 DEF IInv, FilesOfRequests
    <2> QED  BY <1>4, <2>6, <2>7, <2>8, <2>9 DEF FilesOfRequests
  <1>7. ListableUntilDeleted'
    <2>1. StoreMeta(h) => f \notin uploaded \/ f \in meta \/ f \in unwanted
      BY DEF StoreMeta, IInv, FilesOfRequests, Uploading
    <2>2. req[h].pc = "purpose" => f \in byTime /\ StorePurpose(h)
      BY DEF IInv, FilesOfRequests, StoreMeta, StoreTime
    <2> QED  BY <1>1, <1>4, <2>1, <2>2 DEF IInv, ListableUntilDeleted, StoreMeta
  <1>8. FiniteIndices'
    BY <1>4, IndicesStayFinite DEF IInv
  <1> QED  BY <1>3, <1>5, <1>6, <1>7, <1>8 DEF IInv

LEMMA DeleteKeeps ==
    ASSUME IInv, NEW h \in Handlers, UNCHANGED cast,
           \/ \E f \in Files : Delete(h, f)
           \/ DeleteTime(h) \/ DeletePurpose(h) \/ DeleteMeta(h)
    PROVE  IInv'
  <1> DEFINE Deletes(r, f) ==
               /\ RequestOk(r) /\ ListingOk(r) /\ Proceed(h, r) /\ r.pc \in Deleting /\ r.file = f
               /\ f \in uploaded /\ unwanted' = unwanted \cup {f}
               /\ UNCHANGED <<content, clean, uploaded, born>>
               /\ meta' \in {meta, meta \ {f}} /\ byTime' \in {byTime, byTime \ {f}}
               /\ byPurpose' \in {byPurpose, byPurpose \ {f}}
  <1>1. PICK f \in Files : \E r : Deletes(r, f)
    <2>1. ASSUME NEW r, RequestOk(r), ListingOk(r), Proceed(h, r), r.pc \in Deleting, r.file = req[h].file,
                 req[h].pc \in Deleting,
                 UNCHANGED <<content, clean, uploaded, unwanted, born>>,
                 meta' \in {meta, meta \ {req[h].file}}, byTime' \in {byTime, byTime \ {req[h].file}},
                 byPurpose' \in {byPurpose, byPurpose \ {req[h].file}}
          PROVE  \E f \in Files : \E q : Deletes(q, f)
      <3>1. /\ req[h].file \in Files /\ req[h].file \in uploaded
            /\ unwanted' = unwanted \cup {req[h].file}
        BY <2>1 DEF IInv, FilesOfRequests
      <3>2. Deletes(r, req[h].file)
        BY <2>1, <3>1
      <3> QED  BY <3>1, <3>2
    <2>2. CASE \E f \in Files : Delete(h, f)
      <3>1. PICK f \in Files : Delete(h, f)
        BY <2>2
      <3> DEFINE pc == IF f \in meta THEN "delTime" ELSE "delMeta"
                 r == [NoRequest EXCEPT !.file = f, !.pc = pc]
      <3>2. r \in Request /\ r.pc = pc /\ r.file = f /\ r.got = <<>> /\ r.page = <<>> /\ ~r.more
        BY NoRequestIsOk, ZenonT(60) DEF Request, NoRequest
      <3>3. /\ Proceed(h, r) /\ f \in uploaded /\ unwanted' = unwanted \cup {f}
            /\ UNCHANGED <<content, meta, byTime, byPurpose, clean, uploaded, born>>
        BY <3>1 DEF Delete
      <3> HIDE DEF r
      <3>4. RequestOk(r) /\ ListingOk(r) /\ r.pc \in Deleting
        BY <3>2, QuietIsOk DEF Deleting
      <3>5. Deletes(r, f)
        BY <3>2, <3>3, <3>4
      <3> QED  BY <3>5
    <2>3. CASE DeleteTime(h)
      <3> DEFINE r == [req[h] EXCEPT !.pc = "delPurpose"]
      <3>1. RequestOk(r) /\ ListingOk(r) /\ r.pc \in Deleting /\ r.file = req[h].file
        BY <2>3, GoesOn DEF DeleteTime, Deleting
      <3>2. Proceed(h, r) /\ req[h].pc \in Deleting
        BY <2>3 DEF DeleteTime, Goto, Deleting
      <3>3. /\ UNCHANGED <<content, clean, uploaded, unwanted, born>>
            /\ meta' \in {meta, meta \ {req[h].file}} /\ byTime' \in {byTime, byTime \ {req[h].file}}
            /\ byPurpose' \in {byPurpose, byPurpose \ {req[h].file}}
        BY <2>3 DEF DeleteTime
      <3> HIDE DEF r
      <3> QED  BY <2>1, <3>1, <3>2, <3>3
    <2>4. CASE DeletePurpose(h)
      <3> DEFINE r == [req[h] EXCEPT !.pc = "delMeta"]
      <3>1. RequestOk(r) /\ ListingOk(r) /\ r.pc \in Deleting /\ r.file = req[h].file
        BY <2>4, GoesOn DEF DeletePurpose, Deleting
      <3>2. Proceed(h, r) /\ req[h].pc \in Deleting
        BY <2>4 DEF DeletePurpose, Goto, Deleting
      <3>3. /\ UNCHANGED <<content, clean, uploaded, unwanted, born>>
            /\ meta' \in {meta, meta \ {req[h].file}} /\ byTime' \in {byTime, byTime \ {req[h].file}}
            /\ byPurpose' \in {byPurpose, byPurpose \ {req[h].file}}
        BY <2>4 DEF DeletePurpose
      <3> HIDE DEF r
      <3> QED  BY <2>1, <3>1, <3>2, <3>3
    <2>5. CASE DeleteMeta(h)
      <3> DEFINE r == [req[h] EXCEPT !.pc = "unlink"]
      <3>1. RequestOk(r) /\ ListingOk(r) /\ r.pc \in Deleting /\ r.file = req[h].file
        BY <2>5, GoesOn DEF DeleteMeta, Deleting
      <3>2. Proceed(h, r) /\ req[h].pc \in Deleting
        BY <2>5 DEF DeleteMeta, Goto, Deleting
      <3>3. /\ UNCHANGED <<content, clean, uploaded, unwanted, born>>
            /\ meta' \in {meta, meta \ {req[h].file}} /\ byTime' \in {byTime, byTime \ {req[h].file}}
            /\ byPurpose' \in {byPurpose, byPurpose \ {req[h].file}}
        BY <2>5 DEF DeleteMeta
      <3> HIDE DEF r
      <3> QED  BY <2>1, <3>1, <3>2, <3>3
    <2> QED  BY <2>2, <2>3, <2>4, <2>5
  <1>2. PICK r : Deletes(r, f)
    BY <1>1
  <1>3. /\ req' \in [Handlers -> Request] /\ \A g \in Handlers : RequestOk(req'[g])
        /\ Listings'
        /\ Fewer(req'[h], r) /\ \A g \in Handlers : g # h => Fewer(req'[g], req[g])
    BY <1>2, Proceeds
  <1>4. TypeOK'
    BY <1>2, <1>3 DEF IInv, TypeOK, RequestOk
  <1>5. FilesOfRequests'
    <2>1. \A g \in Handlers : /\ g # h => req'[g].pc = req[g].pc /\ req'[g].file = req[g].file
                              /\ req'[h].pc = r.pc /\ req'[h].file = f
      BY <1>2, <1>3 DEF Fewer
    <2>2. \A g \in Handlers : req[g].pc \in Uploading => req[g].file # f
      BY <1>2 DEF IInv, FilesOfRequests
    <2>3. r.pc \notin Uploading \cup Refilling
      BY <1>2 DEF Uploading, Deleting, Refilling
    <2>4. uploaded' \subseteq born' /\ unwanted' \subseteq uploaded'
      BY <1>2 DEF IInv, FilesOfRequests
    <2>5. ASSUME NEW g \in Handlers
          PROVE  /\ req'[g].pc \in Uploading \cup Deleting \cup Refilling => req'[g].file \in Files
                 /\ req'[g].pc \in Uploading => req'[g].file \in born' \ uploaded'
                 /\ req'[g].pc = "purpose" => req'[g].file \in byTime'
                 /\ req'[g].pc \in Deleting => req'[g].file \in unwanted'
                 /\ req'[g].pc = "fillMeta" => req'[g].file \in meta' \cup unwanted'
      <3>1. CASE g = h
        BY <1>2, <2>1, <2>3, <3>1 DEF Uploading, Refilling
      <3>2. CASE g # h
        <4>1. req[g].pc = "purpose" => req[g].file \in byTime /\ req[g].file # f
          BY <2>2 DEF IInv, FilesOfRequests, Uploading
        <4> QED  BY <1>2, <2>1, <3>2, <4>1 DEF IInv, FilesOfRequests
      <3> QED  BY <3>1, <3>2
    <2>6. \A i, j \in Handlers :
            req'[i].pc \in Uploading /\ req'[j].pc \in Uploading /\ req'[i].file = req'[j].file => i = j
      BY <2>1, <2>3 DEF IInv, FilesOfRequests
    <2> QED  BY <2>4, <2>5, <2>6 DEF FilesOfRequests
  <1>6. ListableUntilDeleted' /\ FiniteIndices'
    <2>1. ListableUntilDeleted'
      BY <1>2 DEF IInv, ListableUntilDeleted
    <2>2. FiniteIndices
      BY DEF IInv
    <2>3. /\ byTime' \in {byTime, byTime \cup {f}, byTime \ {f}}
          /\ byPurpose' \in {byPurpose, byPurpose \cup {f}, byPurpose \ {f}}
      BY <1>2
    <2> QED  BY <2>1, <2>2, <2>3, IndicesStayFinite
  <1> QED  BY <1>3, <1>4, <1>5, <1>6 DEF IInv

LEMMA BeforeIsOrder ==
    ASSUME NEW x \in Nat, NEW y \in Nat, NEW z \in Nat, NEW desc \in BOOLEAN
    PROVE  /\ ~Before(x, x, desc)
           /\ x = y \/ Before(x, y, desc) \/ Before(y, x, desc)
           /\ Before(x, y, desc) /\ Before(y, z, desc) => Before(x, z, desc)
  BY DEF Before

LEMMA ListKeeps ==
    ASSUME IInv, NEW h \in Handlers, NEW q \in Queries, UNCHANGED cast, List(h, q[1], q[2], q[3])
    PROVE  IInv'
  <1> DEFINE t == Listable(q[1], meta, byTime, byPurpose)
             r == [NoRequest EXCEPT !.pc = "ensure", !.want = q[1], !.desc = q[2], !.after = q[3], !.there = t]
  <1>1. t \subseteq Files
    BY DEF IInv, TypeOK, Listable
  <1>2. Proceed(h, r) /\ UNCHANGED <<content, meta, byTime, byPurpose, clean, uploaded, unwanted, born>>
    BY DEF List
  <1> HIDE DEF t
  <1>3. q[1] \in Purposes \cup {All} /\ q[2] \in BOOLEAN /\ q[3] \in Files \cup {None}
    BY FileStorageAssumption
  <1>4. r \in Request /\ r.pc = "ensure" /\ r.got = <<>> /\ r.page = <<>> /\ ~r.more
    BY <1>1, <1>3, NoRequestIsOk, ZenonT(60) DEF Request, NoRequest
  <1> HIDE DEF r
  <1> QED  BY <1>2, <1>4, QuietIsOk, RequestSteps DEF Uploading, Deleting

LEMMA ResolveKeeps ==
    ASSUME IInv, NEW h \in Handlers, UNCHANGED cast, Resolve(h)
    PROVE  IInv'
  <1> DEFINE r == req[h]
             known == r.after \in meta /\ r.want \in {All, PurposeOf[r.after]}
             pc == IF r.after = None \/ known THEN "scan" ELSE "answered"
             q == [r EXCEPT !.scan = r.after, !.pc = pc]
  <1>1. r \in Request /\ r.got = <<>> /\ r.page = <<>> /\ ~r.more /\ ThereOk(r)
    BY DEF Resolve, IInv, TypeOK, Listings, ListingOk
  <1>2. /\ q \in Request /\ q.pc = pc /\ q.scan = r.after /\ q.after = r.after /\ q.got = <<>> /\ q.page = <<>>
        /\ ~q.more /\ q.there = r.there /\ q.want = r.want /\ q.desc = r.desc
    BY <1>1, ZenonT(60) DEF Request
  <1>3. Proceed(h, q) /\ UNCHANGED <<content, meta, byTime, byPurpose, clean, uploaded, unwanted, born>>
    BY DEF Resolve
  <1> HIDE DEF q
  <1>4. RequestOk(q)
    BY <1>2, FileStorageAssumption DEF RequestOk
  <1>5. ListingOk(q)
    <2>1. CASE pc = "scan"
      <3>1. GotOk(q)
        BY <1>2 DEF GotOk, InOrder
      <3>2. \A f \in Due(q) : Past(q, f)
        BY <1>2 DEF Due, Past
      <3> QED  BY <1>2, <2>1, <3>1, <3>2 DEF ListingOk
    <2>2. CASE pc = "answered"
      <3>1. r.after \notin r.there \cup {None}
        <4>1. ~known /\ r.after # None
          BY <2>2
        <4>2. r.after \in r.there => known
          BY <1>1 DEF ThereOk, Listable
        <4> QED  BY <4>1, <4>2
      <3> QED  BY <1>2, <2>2, <3>1 DEF ListingOk, AnswerOk
    <2> QED  BY <2>1, <2>2
  <1> QED  BY <1>2, <1>3, <1>4, <1>5, RequestSteps DEF Uploading, Deleting

LEMMA ScanKeeps ==
    ASSUME IInv, NEW h \in Handlers, UNCHANGED cast, Scan(h)
    PROVE  IInv'
  <1> DEFINE r == req[h]
             past == PastCursor(r)
             first == FirstOf(past, Batch, r.desc)
  <1>1. r \in Request /\ RequestOk(r) /\ ListingOk(r) /\ ThereOk(r) /\ r.pc = "scan"
    BY DEF Scan, IInv, TypeOK, Listings, RequestOk
  <1>2. GotOk(r) /\ \A f \in Due(r) : Among(f, r.got) \/ Past(r, f)
    BY <1>1 DEF ListingOk
  <1>3. UNCHANGED <<content, meta, byTime, byPurpose, clean, uploaded, unwanted, born>>
    BY DEF Scan
  <1>4. past \subseteq Files /\ past \subseteq Nat /\ IsFiniteSet(past)
    <2>1. past \in SUBSET byTime \/ past \in SUBSET byPurpose
      BY DEF PastCursor
    <2>2. IsFiniteSet(past)
      <3> HIDE DEF past
      <3> QED  BY <2>1, FS_Subset DEF IInv, FiniteIndices
    <2> QED  BY <2>1, <2>2, FileStorageAssumption DEF IInv, TypeOK
  <1>5. \A f \in past : Past(r, f)
    BY DEF PastCursor, Past
  <1>6. \A f \in Due(r) : Among(f, r.got) \/ f \in past
    <2>1. \A f \in r.there : f \in IF r.want = All THEN byTime ELSE {g \in byPurpose : PurposeOf[g] = r.want}
      BY <1>1 DEF ThereOk, Listable
    <2> QED  BY <1>2, <2>1 DEF Due, PastCursor, Past
  <1>7. CASE past = {}
    <2> DEFINE q == [r EXCEPT !.pc = "answered", !.more = FALSE]
    <2>1. Proceed(h, q)
      BY <1>7 DEF Scan
    <2>2. /\ q \in Request /\ q.pc = "answered" /\ ~q.more /\ q.got = r.got /\ q.there = r.there /\ q.after = r.after
          /\ q.desc = r.desc /\ q.page = r.page
      BY <1>1 DEF Request
    <2> HIDE DEF q
    <2>3. RequestOk(q)
      BY <1>1, <2>2 DEF RequestOk
    <2>4. ListingOk(q)
      <3>1. AnswerOk(q)
        BY <1>2, <1>6, <1>7, <2>2 DEF AnswerOk, GotOk, Due
      <3> QED  BY <2>2, <3>1 DEF ListingOk
    <2> QED  BY <1>3, <2>1, <2>2, <2>3, <2>4, RequestSteps DEF Uploading, Deleting
  <1>8. CASE past # {}
    <2> DEFINE more == Cardinality(past) > Batch
               q == [r EXCEPT !.pc = "read", !.more = more, !.page = first]
    <2>1. Proceed(h, q)
      BY <1>8 DEF Scan
    <2>2. /\ first \in Seq(past) /\ first # <<>> /\ InOrder(first, r.desc)
          /\ \A f \in past : Among(f, first) \/ (more /\ Before(first[Len(first)], f, r.desc))
      <3> HIDE DEF past
      <3>1. r.desc \in BOOLEAN /\ Batch \in Nat \ {0}
        BY <1>1, FileStorageAssumption DEF Request
      <3> QED  BY <1>4, <1>8, <3>1, FirstOfIsFirst
    <2> HIDE DEF first, past, more
    <2>3. first \in Seq(Files) /\ more \in BOOLEAN /\ \A i \in 1..Len(first) : first[i] \in past
      <3>1. first \in Seq(Files)
        BY <1>4, <2>2, SeqMonotonic
      <3>2. \A i \in 1..Len(first) : first[i] \in past
        BY <2>2, ElementOfSeq
      <3> QED  BY <3>1, <3>2 DEF more
    <2>4. /\ q \in Request /\ q.pc = "read" /\ q.more = more /\ q.got = r.got /\ q.there = r.there /\ q.after = r.after
          /\ q.desc = r.desc /\ q.page = first /\ q.scan = r.scan
      BY <1>1, <2>3 DEF Request
    <2> HIDE DEF q
    <2>5. RequestOk(q)
      BY <1>1, <2>2, <2>4 DEF RequestOk
    <2>6. ListingOk(q)
      <3>1. GotOk(q)
        BY <1>2, <2>4 DEF GotOk
      <3>2. PageOk(q)
        BY <1>5, <1>6, <2>2, <2>3, <2>4 DEF PageOk, Past, Due
      <3> QED  BY <2>4, <3>1, <3>2 DEF ListingOk
    <2> QED  BY <1>3, <2>1, <2>4, <2>5, <2>6, RequestSteps DEF Uploading, Deleting
  <1> QED  BY <1>7, <1>8

\* The next file of the batch: the page that is put together stays in order and complete.
LEMMA ReadKeeps ==
    ASSUME IInv, NEW h \in Handlers, UNCHANGED cast, Read(h)
    PROVE  IInv'
  <1> DEFINE r == req[h]
             f == Head(r.page)
             rest == Tail(r.page)
             got == IF f \in meta THEN Append(r.got, f) ELSE r.got
  <1>1. r \in Request /\ RequestOk(r) /\ ListingOk(r) /\ ThereOk(r) /\ r.pc = "read"
    BY DEF Read, IInv, TypeOK, Listings, RequestOk
  <1> HIDE DEF r
  <1>2. /\ GotOk(r) /\ PageOk(r) /\ Len(r.got) <= Limit /\ r.page # <<>> /\ r.page \in Seq(Files)
        /\ r.got \in Seq(Files) /\ r.desc \in BOOLEAN /\ r.after \in Nat /\ r.scan \in Nat
        /\ Files \subseteq Nat /\ Limit \in Nat \ {0} /\ r.there \subseteq meta /\ r.there \subseteq Nat
    <2>1. GotOk(r) /\ PageOk(r) /\ Len(r.got) <= Limit /\ r.page # <<>>
      BY <1>1 DEF ListingOk, RequestOk
    <2>2. /\ r.page \in Seq(Files) /\ r.got \in Seq(Files) /\ r.desc \in BOOLEAN /\ r.after \in Files \cup {None}
          /\ r.scan \in Files \cup {None} /\ r.there \subseteq Files
      BY <1>1 DEF Request
    <2>3. r.there \subseteq meta
      BY <1>1 DEF ThereOk, Listable
    <2>4. Files \subseteq Nat /\ Limit \in Nat \ {0} /\ None \in Nat
      BY FileStorageAssumption DEF None
    <2> QED  BY <2>1, <2>2, <2>3, <2>4
  <1>3. UNCHANGED <<content, meta, byTime, byPurpose, clean, uploaded, unwanted, born>>
    BY DEF Read
  <1>4. Len(r.page) \in Nat \ {0} /\ Len(rest) = Len(r.page) - 1 /\ f \in Files /\ rest \in Seq(Files)
    BY <1>2, HeadTailProperties, EmptySeq
  <1>5. f = r.page[1] /\ \A i \in 1..Len(rest) : rest[i] = r.page[i + 1]
    BY <1>2, HeadTailProperties
  <1>6. /\ got \in Seq(Files) /\ Len(got) \in Nat /\ Len(r.got) \in Nat
         /\ Len(got) = (IF f \in meta THEN Len(r.got) + 1 ELSE Len(r.got))
    BY <1>2, <1>4, AppendProperties, LenProperties
  <1>7. /\ \A i \in 1..Len(r.got) : got[i] = r.got[i]
        /\ f \in meta => got[Len(got)] = f
    <2>1. CASE f \in meta
      <3>1. got = Append(r.got, f)
        BY <2>1
      <3> QED  BY <1>2, <1>4, <1>6, <2>1, <3>1, AppendProperties
    <2>2. CASE f \notin meta
      BY <2>2
    <2> QED  BY <2>1, <2>2
  <1> HIDE DEF f, rest
  <1>8. \A i \in 1..Len(rest) : rest[i] \in Files /\ Before(f, rest[i], r.desc)
    BY <1>2, <1>5, <1>4, SMTT(40) DEF PageOk, InOrder
  <1>9. Past(r, f) /\ (r.after = None \/ Before(r.after, f, r.desc))
    <2>1. Past(r, f)
      BY <1>2, <1>5, <1>4 DEF PageOk
    <2>2. CASE r.after # None
      <3>1. r.scan # None /\ (r.scan = r.after \/ Before(r.after, r.scan, r.desc))
        BY <1>2, <2>2 DEF GotOk
      <3> QED  BY <1>2, <1>5, <1>4, <2>1, <3>1, BeforeIsOrder DEF Past
    <2> QED  BY <2>1, <2>2
  <1>10. \A i \in 1..Len(r.got) : r.got[i] \in Nat /\ Before(r.got[i], f, r.desc)
    <2> TAKE i \in 1..Len(r.got)
    <2>1. r.got[i] \in Nat /\ r.scan # None /\ (r.got[i] = r.scan \/ Before(r.got[i], r.scan, r.desc))
      BY <1>2, ElementOfSeq DEF GotOk
    <2>2. Before(r.scan, f, r.desc)
      BY <1>9, <2>1 DEF Past
    <2>3. f \in Nat /\ r.scan \in Nat /\ r.desc \in BOOLEAN
      BY <1>2, <1>4
    <2>4. Before(r.got[i], r.scan, r.desc) => Before(r.got[i], f, r.desc)
      <3>1. r.got[i] \in Nat
        BY <2>1
      <3> QED  BY <2>2, <2>3, <3>1, BeforeIsOrder
    <2> QED  BY <2>1, <2>2, <2>4
  <1>11. /\ InOrder(got, r.desc)
        /\ \A i \in 1..Len(got) : /\ r.after = None \/ Before(r.after, got[i], r.desc)
                                  /\ got[i] \in Nat /\ (got[i] = f \/ Before(got[i], f, r.desc))
    <2>1. \A i \in 1..Len(got) : i \in 1..Len(r.got) \/ (i = Len(r.got) + 1 /\ i = Len(got) /\ f \in meta)
      BY <1>7, <1>6
    <2>2. \A i \in 1..Len(r.got) : r.after = None \/ Before(r.after, r.got[i], r.desc)
      BY <1>2 DEF GotOk
    <2>3. InOrder(got, r.desc)
      <3> SUFFICES ASSUME NEW i \in 1..Len(got), NEW j \in 1..Len(got), i < j PROVE Before(got[i], got[j], r.desc)
        BY DEF InOrder
      <3>1. i \in 1..Len(r.got)
        BY <1>7, <1>6, <2>1
      <3>2. CASE j \in 1..Len(r.got)
        BY <1>2, <1>7, <1>6, <3>1, <3>2 DEF GotOk, InOrder
      <3>3. CASE j = Len(got) /\ f \in meta
        BY <1>7, <1>6, <1>10, <3>1, <3>3
      <3> QED  BY <2>1, <3>2, <3>3
    <2> QED  BY <1>2, <1>5, <1>4, <1>7, <1>6, <1>9, <1>10, <2>1, <2>2, <2>3
  <1>12. \A x \in Due(r) : /\ x \in Nat
                           /\ \/ Among(x, got) \/ Among(x, rest)
                              \/ (r.more /\ Before(r.page[Len(r.page)], x, r.desc))
    <2> TAKE x \in Due(r)
    <2>1. x \in Nat /\ x \in meta
      BY <1>2 DEF Due
    <2>2. CASE Among(x, r.got)
      <3>1. PICK i \in 1..Len(r.got) : x = r.got[i]
        BY <2>2 DEF Among
      <3>2. i \in 1..Len(got) /\ x = got[i]
        BY <1>7, <1>6, <3>1
      <3> QED  BY <2>1, <3>2 DEF Among
    <2>3. CASE Among(x, r.page)
      <3>1. PICK i \in 1..Len(r.page) : x = r.page[i]
        BY <2>3 DEF Among
      <3>2. CASE i = 1
        <4>1. x = f /\ x = got[Len(got)] /\ Len(got) \in 1..Len(got)
          BY <1>5, <1>4, <1>7, <1>6, <2>1, <3>1, <3>2
        <4> QED  BY <2>1, <4>1 DEF Among
      <3>3. CASE i # 1
        <4>1. i - 1 \in 1..Len(rest) /\ rest[i - 1] = r.page[(i - 1) + 1] /\ (i - 1) + 1 = i
          BY <1>5, <1>4, <3>1, <3>3
        <4>2. x = rest[i - 1]
          BY <3>1, <4>1
        <4> QED  BY <2>1, <4>1, <4>2 DEF Among
      <3> QED  BY <3>2, <3>3
    <2> QED  BY <1>2, <2>1, <2>2, <2>3 DEF PageOk
  <1>13. f = r.page[Len(r.page)] \/ (Before(f, r.page[Len(r.page)], r.desc) /\ r.page[Len(r.page)] \in Nat)
    <2>1. CASE Len(r.page) = 1
      BY <1>5, <1>4, <2>1
    <2>2. CASE Len(r.page) # 1
      <3>1. 1 < Len(r.page) /\ 1 \in 1..Len(r.page) /\ Len(r.page) \in 1..Len(r.page)
        <4> DEFINE n == Len(r.page)
        <4>1. n \in Nat \ {0} /\ n # 1
          BY <1>4, <2>2
        <4> HIDE DEF n
        <4>2. 1 < n /\ 1 \in 1..n /\ n \in 1..n
          BY <4>1
        <4> QED  BY <4>2 DEF n
      <3>2. Before(r.page[1], r.page[Len(r.page)], r.desc)
        BY <1>2, <3>1 DEF PageOk, InOrder
      <3>3. r.page[Len(r.page)] \in Nat
        BY <1>2, <3>1, ElementOfSeq
      <3> QED  BY <1>5, <1>4, <3>2, <3>3
    <2> QED  BY <2>1, <2>2
  <1> HIDE DEF got
  <1>14. CASE Len(got) > Limit
    <2> DEFINE sub == SubSeq(got, 1, Limit)
               q == [r EXCEPT !.pc = "answered", !.got = sub, !.more = TRUE, !.page = <<>>]
    <2>1. Proceed(h, q)
      BY <1>14 DEF Read, r, got, f, rest
    <2>2. Len(got) = Limit + 1 /\ f \in meta /\ got[Limit + 1] = f
      <3>1. Len(r.got) <= Limit /\ Limit \in Nat
        BY <1>2
      <3>2. Len(got) = Limit + 1 /\ f \in meta
        BY <1>14, <1>6, <3>1
      <3> QED  BY <1>7, <3>2
    <2>3. sub \in Seq(Files) /\ Len(sub) = Limit /\ \A i \in 1..Limit : sub[i] = got[i]
      BY <1>2, <1>7, <1>6, <2>2
    <2> HIDE DEF sub
    <2>4. <<>> \in Seq(Files)
      BY EmptySeq
    <2>5. /\ q \in Request /\ q.pc = "answered" /\ q.more /\ q.got = sub /\ q.page = <<>>
          /\ q.there = r.there /\ q.after = r.after /\ q.desc = r.desc
      BY <1>1, <2>3, <2>4 DEF Request
    <2> HIDE DEF q
    <2>6. RequestOk(q)
      BY <1>2, <2>3, <2>5 DEF RequestOk
    <2>7. \A x \in Due(r) : Among(x, sub) \/ Before(sub[Limit], x, r.desc)
      <3> TAKE x \in Due(r)
      <3>1. sub[Limit] = got[Limit] /\ Before(got[Limit], f, r.desc) /\ got[Limit] \in Nat
        BY <1>2, <1>11, <2>2, <2>3 DEF InOrder
      <3>2. CASE Among(x, got)
        <4>1. PICK i \in 1..Len(got) : x = got[i]
          BY <3>2 DEF Among
        <4>2. CASE i = Limit + 1
          BY <2>2, <3>1, <4>1, <4>2
        <4>3. CASE i # Limit + 1
          <5>1. i \in 1..Limit /\ x = sub[i] /\ Len(sub) = Limit
            BY <1>2, <2>2, <2>3, <4>1, <4>3
          <5> QED  BY <5>1 DEF Among
        <4> QED  BY <4>2, <4>3
      <3>3. CASE Among(x, rest)
        <4>1. Before(f, x, r.desc) /\ x \in Nat
          BY <1>8, <1>12, <3>3 DEF Among
        <4> QED  BY <1>2, <1>5, <1>4, <3>1, <4>1, BeforeIsOrder
      <3>4. CASE Before(r.page[Len(r.page)], x, r.desc)
        <4>1. Before(f, x, r.desc) /\ x \in Nat
          BY <1>2, <1>5, <1>4, <1>12, <1>13, <3>4, BeforeIsOrder
        <4> QED  BY <1>2, <1>5, <1>4, <3>1, <4>1, BeforeIsOrder
      <3> QED  BY <1>12, <3>2, <3>3, <3>4
    <2>8. ListingOk(q)
      <3>1. Due(q) = Due(r)
        BY <2>5 DEF Due
      <3>2. InOrder(sub, r.desc) /\ \A i \in 1..Len(sub) : r.after = None \/ Before(r.after, sub[i], r.desc)
        BY <1>2, <1>11, <2>2, <2>3 DEF InOrder
      <3>3. AnswerOk(q)
        BY <2>3, <2>5, <2>7, <3>1, <3>2 DEF AnswerOk
      <3> QED  BY <2>5, <3>3 DEF ListingOk
    <2> QED  BY <1>3, <2>1, <2>5, <2>6, <2>8, RequestSteps DEF Uploading, Deleting
  <1>15. CASE ~(Len(got) > Limit)
    <2> DEFINE place == IF rest # <<>> THEN "read" ELSE IF r.more THEN "scan" ELSE "answered"
               q == [r EXCEPT !.got = got, !.page = rest, !.scan = f, !.pc = place]
    <2>1. Proceed(h, q)
      BY <1>15 DEF Read, r, got, f, rest
    <2>2. /\ q \in Request /\ q.pc = place /\ q.more = r.more /\ q.got = got /\ q.page = rest /\ q.scan = f
          /\ q.there = r.there /\ q.after = r.after /\ q.desc = r.desc
      BY <1>1, <1>5, <1>4, <1>7, <1>6, ZenonT(60) DEF Request
    <2> HIDE DEF q
    <2>3. (place = "read" <=> rest # <<>>) /\ (place = "scan" => r.more) /\ (place = "answered" => ~r.more)
      OBVIOUS
    <2>4. place \in {"read", "scan", "answered"}
      OBVIOUS
    <2> HIDE DEF place
    <2>5. RequestOk(q)
      <3>1. Len(got) <= Limit
        BY <1>2, <1>15, <1>6
      <3> QED  BY <2>2, <2>3, <3>1 DEF RequestOk
    <2>6. Due(q) = Due(r)
      BY <2>2 DEF Due
    <2>7. GotOk(q)
      <3>1. f # None
        BY <1>5, <1>4, FileStorageAssumption DEF None
      <3> QED  BY <1>9, <1>11, <2>2, <3>1 DEF GotOk
    <2>8. rest = <<>> => Len(rest) = 0 /\ f = r.page[Len(r.page)]
      BY <1>5, <1>4
    <2>9. ASSUME place = "read" PROVE ListingOk(q)
      <3>1. rest # <<>> /\ Len(rest) \in Nat \ {0} /\ rest[Len(rest)] = r.page[Len(r.page)]
        <4>1. rest # <<>> /\ Len(rest) \in Nat \ {0}
          BY <1>4, <2>9, <2>3, EmptySeq
        <4>2. rest[Len(rest)] = r.page[Len(rest) + 1] /\ Len(rest) + 1 = Len(r.page)
          BY <1>5, <1>4, <4>1
        <4> QED  BY <4>1, <4>2
      <3>2. InOrder(rest, r.desc)
        BY <1>2, <1>5, <1>4 DEF PageOk, InOrder
      <3>3. PageOk(q)
        BY <1>8, <1>12, <2>2, <2>6, <3>1, <3>2 DEF PageOk, Past
      <3> QED  BY <2>2, <2>7, <2>9, <3>3 DEF ListingOk
    <2>10. ASSUME place = "scan" PROVE ListingOk(q)
      <3>1. \A x \in Due(q) : Among(x, q.got) \/ Past(q, x)
        BY <1>12, <2>2, <2>6, <2>8, <2>10, <2>3 DEF Among, Past
      <3> QED  BY <2>2, <2>7, <2>10, <3>1 DEF ListingOk
    <2>11. ASSUME place = "answered" PROVE ListingOk(q)
      <3>1. ~q.more /\ \A x \in Due(q) : Among(x, q.got)
        BY <1>12, <2>2, <2>6, <2>8, <2>11, <2>3 DEF Among
      <3>2. AnswerOk(q)
        BY <1>11, <2>2, <3>1 DEF AnswerOk
      <3> QED  BY <2>2, <2>11, <3>2 DEF ListingOk
    <2>12. ListingOk(q)
      BY <2>9, <2>10, <2>11, <2>4
    <2> QED  BY <1>3, <2>1, <2>2, <2>5, <2>12, <2>4, RequestSteps DEF Uploading, Deleting
  <1> QED  BY <1>14, <1>15

LEMMA CleanerKeeps ==
    ASSUME IInv, NEW c \in Cleaners, CleanerStep(c)
    PROVE  IInv'
  <1>1. /\ Bystanders /\ content' \subseteq content
        /\ UNCHANGED <<cast, meta, byTime, byPurpose, uploaded, unwanted, born>>
    BY DEF CleanerStep, ListDir, Remove, EndCleanup, Check
  <1>2. clean' \in [Cleaners -> Cleaner]
    <2>1. clean \in [Cleaners -> Cleaner] /\ content \subseteq Files
      BY DEF IInv, TypeOK
    <2>2. ASSUME NEW w \in Cleaner, clean' = [clean EXCEPT ![c] = w] PROVE clean' \in [Cleaners -> Cleaner]
      BY <2>1, <2>2
    <2>3. CASE ListDir(c)
      <3>1. [Waiting EXCEPT !.pc = "check", !.todo = content] \in Cleaner
        BY <2>1 DEF Waiting, Cleaner
      <3> QED  BY <2>2, <2>3, <3>1 DEF ListDir
    <2>4. CASE Remove(c)
      BY <2>1, <2>4, ZenonT(60) DEF Remove, Cleaner
    <2>5. CASE EndCleanup(c)
      <3>1. Waiting \in Cleaner
        BY DEF Waiting, Cleaner
      <3> QED  BY <2>2, <2>5, <3>1 DEF EndCleanup
    <2>6. CASE \E f \in Files : Check(c, f)
      <3>1. PICK f \in Files : Check(c, f)
        BY <2>6
      <3> DEFINE w == IF f \notin meta THEN [pc |-> "unlink", file |-> f, todo |-> clean[c].todo \ {f}]
                      ELSE [pc |-> "check", file |-> None, todo |-> clean[c].todo \ {f}]
      <3>2. w \in Cleaner
        BY <2>1 DEF Cleaner
      <3>3. clean' = [clean EXCEPT ![c] = w]
        BY <2>1, <3>1 DEF Check
      <3> HIDE DEF w
      <3> QED  BY <2>2, <3>2, <3>3
    <2> QED  BY <2>3, <2>4, <2>5, <2>6 DEF CleanerStep
  <1>3. /\ req' \in [Handlers -> Request] /\ \A g \in Handlers : RequestOk(req'[g])
        /\ Listings' /\ \A g \in Handlers : Fewer(req'[g], req[g])
    BY <1>1, BystandersProceed
  <1>4. TypeOK'
    BY <1>1, <1>2, <1>3 DEF IInv, TypeOK, RequestOk
  <1>5. FilesOfRequests'
    BY <1>1, <1>3 DEF IInv, FilesOfRequests, Fewer
  <1>6. ListableUntilDeleted' /\ FiniteIndices'
    BY <1>1 DEF IInv, ListableUntilDeleted, FiniteIndices
  <1> QED  BY <1>3, <1>4, <1>5, <1>6 DEF IInv

LEMMA ExpireKeeps ==
    ASSUME IInv, NEW f \in Files, UNCHANGED cast, Expire(f)
    PROVE  IInv'
  <1>1. /\ Bystanders /\ UNCHANGED <<content, clean, uploaded, unwanted, born>>
        /\ meta' \in {meta, meta \ {f}} /\ byTime' \in {byTime, byTime \ {f}} /\ byPurpose' \in {byPurpose, byPurpose \ {f}}
        /\ meta' = meta => f \notin meta
        /\ \A h \in Handlers : req[h].file # f
    BY DEF Expire
  <1>2. /\ req' \in [Handlers -> Request] /\ \A g \in Handlers : RequestOk(req'[g])
        /\ Listings' /\ \A g \in Handlers : Fewer(req'[g], req[g])
    BY <1>1, BystandersProceed
  <1>3. TypeOK'
    BY <1>1, <1>2 DEF IInv, TypeOK, RequestOk
  <1>4. FilesOfRequests'
    BY <1>1, <1>2 DEF IInv, FilesOfRequests, Fewer
  <1>5. ListableUntilDeleted'
    BY DEF Expire, IInv, ListableUntilDeleted
  <1>6. FiniteIndices'
    <2>1. FiniteIndices /\ byTime' \in {byTime, byTime \cup {f}, byTime \ {f}}
          /\ byPurpose' \in {byPurpose, byPurpose \cup {f}, byPurpose \ {f}}
      BY <1>1 DEF IInv
    <2> QED  BY <2>1, IndicesStayFinite
  <1> QED  BY <1>2, <1>3, <1>4, <1>5, <1>6 DEF IInv

LEMMA InitIInv == Init => IInv
  <1> SUFFICES ASSUME Init PROVE IInv
    OBVIOUS
  <1>1. \A h \in Handlers : RequestOk(req[h]) /\ ListingOk(req[h]) /\ req[h].pc = "idle" /\ req[h].there = {}
    BY NoRequestIsOk DEF Init, NoRequest
  <1>2. Waiting \in Cleaner
    BY DEF Waiting, Cleaner
  <1>3. TypeOK
    BY <1>1, <1>2, NoRequestIsOk DEF Init, TypeOK, RequestOk
  <1>4. FilesOfRequests /\ ListableUntilDeleted
    BY <1>1 DEF Init, FilesOfRequests, ListableUntilDeleted, Uploading, Deleting, Refilling
  <1>5. Listings
    BY <1>1 DEF Listings, ThereOk
  <1>6. FiniteIndices
    BY FS_EmptySet DEF Init, FiniteIndices
  <1> QED  BY <1>3, <1>4, <1>5, <1>6 DEF IInv

LEMMA NextIInv == IInv /\ [Next]_vars => IInv'
  <1> SUFFICES ASSUME IInv, [Next]_vars PROVE IInv'
    OBVIOUS
  <1>1. CASE UNCHANGED vars
    <2>1. TypeOK' /\ FilesOfRequests' /\ ListableUntilDeleted' /\ FiniteIndices'
      BY <1>1 DEF vars, IInv, TypeOK, FilesOfRequests, ListableUntilDeleted, FiniteIndices
    <2>2. Listings'
      BY <1>1 DEF vars, IInv, Listings, ThereOk, Listable
    <2> QED  BY <2>1, <2>2 DEF IInv
  <1>2. ASSUME NEW h \in Handlers, UNCHANGED cast, HandlerStep(h) \/ WriteFails(h) \/ Crash(h) PROVE IInv'
    BY <1>2, SimpleSteps, StoreKeeps, DeleteKeeps, ResolveKeeps, ScanKeeps, ReadKeeps DEF HandlerStep
  <1>3. ASSUME NEW h \in Writers \cap cast.handlers, NEW f \in Files, UNCHANGED cast, Upload(h, f) \/ Delete(h, f)
        PROVE  IInv'
    BY <1>3, UploadKeeps, DeleteKeeps DEF Handlers
  <1>4. ASSUME NEW h \in Listers \cap cast.handlers, NEW q \in Queries, UNCHANGED cast, List(h, q[1], q[2], q[3])
        PROVE  IInv'
    BY <1>4, ListKeeps DEF Handlers
  <1> QED  BY <1>1, <1>2, <1>3, <1>4, CleanerKeeps, ExpireKeeps DEF Next

LEMMA Invariance == Spec => []IInv
  BY InitIInv, NextIInv, PTL DEF Spec

-----------------------------------------------------------------------------
\* Contents, metadata, indices, requests and cleanup loops are always of their types.
THEOREM Typing == Spec => []TypeOK
  <1>1. IInv => TypeOK
    BY DEF IInv
  <1> QED  BY <1>1, Invariance, PTL

\* However uploads, deletions, backfills, expiry and crashes interleave, a file whose upload
\* was answered is in both indices as long as it has metadata and nobody deletes it.
THEOREM Listability == Spec => []ListableUntilDeleted
  <1>1. IInv => ListableUntilDeleted
    BY DEF IInv
  <1> QED  BY <1>1, Invariance, PTL

\* For every page size and scan batch, a listing answers with a page in order and past its
\* cursor that leaves out no file listable all along, and says truly whether there is more.
THEOREM RightPage == Spec => []PageIsRight
  <1>1. ASSUME IInv, NEW h \in Handlers, req[h].pc = "answered", req[h].after \in req[h].there \cup {None}
        PROVE  LET r == req[h]
                   due == {f \in r.there : r.after = None \/ Before(r.after, f, r.desc)}
                   listed == {r.got[i] : i \in 1..Len(r.got)}
               IN  /\ \A i \in 1..Len(r.got) :
                         Before(IF i = 1 THEN r.after ELSE r.got[i - 1], r.got[i], r.desc)
                           \/ (i = 1 /\ r.after = None)
                   /\ IF r.more
                        THEN /\ Len(r.got) = Limit
                             /\ \A f \in due : f \in listed \/ Before(r.got[Limit], f, r.desc)
                        ELSE due \subseteq listed
    <2> DEFINE r == req[h]
    <2>1. AnswerOk(r) /\ r.after \in r.there \cup {None} /\ Len(r.got) \in Nat
      BY <1>1, LenProperties DEF IInv, TypeOK, Request, Listings, ListingOk
    <2> HIDE DEF r
    <2>2. \A i \in 1..Len(r.got) :
            Before(IF i = 1 THEN r.after ELSE r.got[i - 1], r.got[i], r.desc) \/ (i = 1 /\ r.after = None)
      <3> SUFFICES ASSUME NEW i \in 1..Len(r.got), i # 1 \/ r.after # None
                   PROVE  Before(IF i = 1 THEN r.after ELSE r.got[i - 1], r.got[i], r.desc)
        OBVIOUS
      <3>1. CASE i = 1
        BY <2>1, <3>1 DEF AnswerOk
      <3>2. CASE i # 1
        <4>1. i - 1 \in 1..Len(r.got) /\ i - 1 < i
          BY <2>1, <3>2
        <4> QED  BY <2>1, <3>2, <4>1 DEF AnswerOk, InOrder
      <3> QED  BY <3>1, <3>2
    <2>3. \A f : f \in {r.got[i] : i \in 1..Len(r.got)} <=> Among(f, r.got)
      BY DEF Among
    <2>4. IF r.more THEN /\ Len(r.got) = Limit
                        /\ \A f \in Due(r) : Among(f, r.got) \/ Before(r.got[Limit], f, r.desc)
                   ELSE \A f \in Due(r) : Among(f, r.got)
      BY <2>1 DEF AnswerOk
    <2>5. Due(r) = {f \in r.there : r.after = None \/ Before(r.after, f, r.desc)}
      BY DEF Due
    <2> QED  BY <2>2, <2>3, <2>4, <2>5 DEF r
  <1>2. IInv => PageIsRight
    BY <1>1 DEF PageIsRight
  <1> QED  BY <1>2, Invariance, PTL

=============================================================================
