----------------------------- MODULE RequestProofs -----------------------------
(***************************************************************************)
(* Theorems about the requests that generate.                              *)
(*                                                                         *)
(* ToolLoop, for all offers, variants, budgets and bounds of a request     *)
(* served with the tools of MCP servers: it keeps its limits, every call   *)
(* is answered, and what the client is told is what happened.              *)
(*                                                                         *)
(* ChatStream, for every number of choices and every length of text: the   *)
(* chunks of a stream end as the protocol says, carry the whole text of a  *)
(* choice in order, and tell a call where there is one.                    *)
(*                                                                         *)
(* Conversation, for all turns, contexts and kinds of request: a turn is   *)
(* asked with what was said in the turns it continues, calls go with their *)
(* results, and a truncation drops no more than it must.                   *)
(***************************************************************************)
EXTENDS ToolLoop, ChatStream, Conversation, FiniteSetTheorems, SequenceTheorems, WellFoundedInduction, TLAPS

-----------------------------------------------------------------------------
(* Sequences. *)

\* Among yields the elements of a sequence that are in a set, in their order: places
\* are ranked by how many come before them.
LEMMA AmongSelects ==
  ASSUME NEW X, NEW s \in Seq(X), NEW S
  PROVE  LET t == Among(s, S) IN
         /\ t \in Seq(X) /\ Len(t) <= Len(s)
         /\ Elems(t) = {c \in Elems(s) : c \in S}
         /\ \E pick \in [1..Len(t) -> 1..Len(s)] :
              /\ \A k \in 1..Len(t) : t[k] = s[pick[k]]
              /\ \A k, l \in 1..Len(t) : k < l => pick[k] < pick[l]
  <1> DEFINE places == {i \in DOMAIN s : s[i] \in S}
             below == [i \in places |-> {j \in places : j < i}]
             rank == [i \in places |-> Cardinality(below[i])]
             size == Cardinality(places)
             Ranks == 0..(size - 1)
             pick == [k \in 1..size |-> CHOOSE i \in places : Cardinality({j \in places : j < i}) = k - 1]
             t == Among(s, S)
  <1>1. /\ Len(s) \in Nat /\ DOMAIN s = 1..Len(s) /\ places \in SUBSET (1..Len(s))
        /\ \A i \in places : i \in Nat
    BY LenProperties
  <1>2. IsFiniteSet(places) /\ size \in Nat /\ size <= Len(s)
    <2>1. IsFiniteSet(1..Len(s)) /\ Cardinality(1..Len(s)) = Len(s)
      <3>1. 1 \in Int /\ Len(s) \in Int
        BY <1>1
      <3>2. /\ IsFiniteSet(1..Len(s))
            /\ Cardinality(1..Len(s)) = IF 1 > Len(s) THEN 0 ELSE Len(s) - 1 + 1
        BY <3>1, FS_Interval, Zenon
      <3> QED  BY <1>1, <3>2
    <2>2. IsFiniteSet(places) /\ Cardinality(places) <= Len(s)
      BY <1>1, <2>1, FS_Subset
    <2> QED  BY <2>2, FS_CardinalityType
  <1>3. t = [k \in 1..size |-> s[CHOOSE i \in places : Cardinality({j \in places : j < i}) = k - 1]]
    BY DEF Among
  <1>4. \A i \in 1..Len(s) : i \in places <=> s[i] \in S
    BY <1>1
  <1> HIDE DEF places
  <1>5. /\ \A i \in places : below[i] \in SUBSET places /\ IsFiniteSet(below[i])
        /\ rank \in [places -> Nat] /\ \A i \in places : rank[i] = Cardinality(below[i])
    <2>1. \A i \in places : below[i] \in SUBSET places
      OBVIOUS
    <2>2. \A i \in places : IsFiniteSet(below[i])
      BY <1>2, <2>1, FS_Subset
    <2> QED  BY <2>1, <2>2, FS_CardinalityType
  <1>6. \A i, j \in places : j \in below[i] <=> j < i
    OBVIOUS
  <1>7. \A k \in 1..size : pick[k] = CHOOSE i \in places : Cardinality({j \in places : j < i}) = k - 1
    OBVIOUS
  <1>8. \A i \in places : rank[i] = Cardinality({j \in places : j < i})
    OBVIOUS
  <1>20. t = [k \in 1..size |-> s[pick[k]]]
    BY <1>3, <1>7
  <1> HIDE DEF below, rank, size, pick, t
  <1>9. ASSUME NEW i \in places, NEW j \in places, i < j PROVE rank[i] < rank[j]
    <2>1. below[i] \in SUBSET below[j] /\ i \in below[j] /\ i \notin below[i]
      BY <1>1, <1>5, <1>6, <1>9
    <2>2. rank[i] <= rank[j] /\ (rank[i] = rank[j] => below[i] = below[j])
      BY <1>5, <2>1, FS_Subset
    <2> QED  BY <1>5, <2>1, <2>2
  <1>10. \A i \in places : rank[i] \in Ranks
    <2> TAKE i \in places
    <2>1. below[i] \in SUBSET places /\ i \notin below[i]
      BY <1>1, <1>5, <1>6
    <2>2. Cardinality(below[i]) <= size /\ Cardinality(below[i]) # size
      BY <1>2, <2>1, FS_Subset DEF size
    <2> QED  BY <1>2, <1>5, <2>2
  <1>11. \A k \in Ranks : \E i \in places : rank[i] = k
    <2>1. rank \in [places -> Ranks]
      BY <1>5, <1>10
    <2>2. rank \in Injection(places, Ranks)
      BY <1>1, <1>5, <1>9, <2>1 DEF Injection, IsInjective
    <2>3. IsFiniteSet(Ranks) /\ Cardinality(Ranks) = Cardinality(places)
      <3>1. 0 \in Int /\ size - 1 \in Int
        BY <1>2
      <3>2. /\ IsFiniteSet(0..(size - 1))
            /\ Cardinality(0..(size - 1)) = IF 0 > size - 1 THEN 0 ELSE (size - 1) - 0 + 1
        BY <3>1, FS_Interval, Zenon
      <3> QED  BY <1>2, <3>2 DEF size
    <2> HIDE DEF Ranks
    <2>4. rank \in Surjection(places, Ranks)
      BY <1>2, <2>2, <2>3, FS_Injection
    <2> QED  BY <2>4 DEF Surjection
  <1>12. \A k \in 1..size : pick[k] \in places /\ rank[pick[k]] = k - 1
    <2> TAKE k \in 1..size
    <2>1. \E i \in places : rank[i] = k - 1
      BY <1>2, <1>11
    <2>2. \E i \in places : Cardinality({j \in places : j < i}) = k - 1
      BY <1>8, <2>1
    <2>3. pick[k] \in places /\ Cardinality({j \in places : j < pick[k]}) = k - 1
      BY <1>7, <2>2
    <2> QED  BY <1>8, <2>3
  <1>13. \A k \in 1..size : s[pick[k]] \in X
    BY <1>1, <1>12, ElementOfSeq
  <1>14. t \in Seq(X) /\ Len(t) = size
    <2>1. t \in [1..size -> X]
      BY <1>20, <1>13, Zenon
    <2> QED  BY <1>2, <2>1
  <1>15. pick \in [1..Len(t) -> 1..Len(s)]
    BY <1>1, <1>12, <1>14 DEF pick
  <1>16. \A k \in 1..Len(t) : t[k] = s[pick[k]]
    BY <1>20, <1>14
  <1>17. ASSUME NEW k \in 1..size, NEW l \in 1..size, k < l PROVE pick[k] < pick[l]
    <2>1. PICK i \in places, j \in places : i = pick[k] /\ j = pick[l] /\ rank[i] < rank[j]
      BY <1>2, <1>12, <1>17
    <2>2. ~(j < i) /\ i # j
      <3>1. ~(rank[j] < rank[i]) /\ rank[i] # rank[j]
        BY <1>5, <2>1
      <3> QED  BY <1>9, <3>1
    <2> QED  BY <1>1, <2>1, <2>2
  <1>18. ASSUME NEW i \in 1..Len(s), s[i] \in S PROVE \E k \in 1..Len(t) : t[k] = s[i]
    <2>1. i \in places /\ rank[i] \in Ranks
      BY <1>4, <1>10, <1>18
    <2>2. rank[i] + 1 \in 1..size
      BY <1>2, <2>1
    <2>3. PICK k \in 1..size : k = rank[i] + 1
      BY <2>2
    <2>4. rank[pick[k]] = rank[i] /\ pick[k] \in places
      <3>1. rank[pick[k]] = k - 1 /\ pick[k] \in places
        BY <1>12
      <3>2. rank[i] \in Nat
        BY <1>5, <2>1
      <3> QED  BY <2>3, <3>1, <3>2
    <2>5. PICK j \in places : j = pick[k] /\ rank[j] = rank[i]
      BY <2>4
    <2>6. j = i
      <3>1. ~(rank[j] < rank[i]) /\ ~(rank[i] < rank[j])
        BY <1>5, <2>1, <2>5
      <3>2. ~(j < i) /\ ~(i < j)
        BY <1>9, <2>1, <3>1
      <3> QED  BY <1>1, <2>1, <3>2
    <2> QED  BY <1>14, <1>16, <2>3, <2>5, <2>6
  <1>19. Elems(t) = {c \in Elems(s) : c \in S}
    <2>1. ASSUME NEW k \in 1..Len(t) PROVE t[k] \in S /\ \E i \in 1..Len(s) : t[k] = s[i]
      BY <1>1, <1>4, <1>12, <1>14, <1>16
    <2>2. DOMAIN t = 1..Len(t) /\ DOMAIN s = 1..Len(s)
      BY <1>1, <1>14, LenProperties
    <2>3. Elems(t) = {t[k] : k \in 1..Len(t)} /\ Elems(s) = {s[i] : i \in 1..Len(s)}
      BY <2>2 DEF Elems
    <2>4. \A c : c \in Elems(t) <=> c \in Elems(s) /\ c \in S
      BY <1>18, <2>1, <2>3
    <2> QED  BY <2>4
  <1> QED  BY <1>2, <1>14, <1>15, <1>16, <1>17, <1>19 DEF t

\* Elems(s) is the set of what stands at a place of s; it follows the operators.
LEMMA ElemsOf ==
  ASSUME NEW X, NEW s \in Seq(X)
  PROVE  /\ Elems(s) = {s[i] : i \in 1..Len(s)} /\ Elems(s) \subseteq X
         /\ \A t \in Seq(X) : s \o t \in Seq(X) /\ Elems(s \o t) = Elems(s) \cup Elems(t)
         /\ \A x \in X : Append(s, x) \in Seq(X) /\ Elems(Append(s, x)) = Elems(s) \cup {x}
         /\ s # <<>> => /\ Head(s) \in X /\ Tail(s) \in Seq(X) /\ Len(Tail(s)) = Len(s) - 1
                        /\ Elems(s) = {Head(s)} \cup Elems(Tail(s))
                        /\ \A i \in 1..Len(s) - 1 : Tail(s)[i] = s[i + 1]
  <1>1. DOMAIN s = 1..Len(s) /\ Len(s) \in Nat
    BY LenProperties
  <1>2. Elems(s) = {s[i] : i \in 1..Len(s)}
    BY <1>1 DEF Elems
  <1>3. Elems(s) \subseteq X
    BY <1>2, ElementOfSeq
  <1>4. ASSUME NEW t \in Seq(X) PROVE s \o t \in Seq(X) /\ Elems(s \o t) = Elems(s) \cup Elems(t)
    <2>1. /\ s \o t \in Seq(X) /\ Len(s \o t) = Len(s) + Len(t) /\ Len(t) \in Nat
          /\ \A i \in 1..Len(s) + Len(t) : (s \o t)[i] = IF i <= Len(s) THEN s[i] ELSE t[i - Len(s)]
      BY <1>1
    <2>2. Elems(s \o t) = {(s \o t)[i] : i \in 1..Len(s) + Len(t)} /\ Elems(t) = {t[i] : i \in 1..Len(t)}
      BY <2>1, LenProperties DEF Elems
    <2>3. ASSUME NEW c \in Elems(s \o t) PROVE c \in Elems(s) \cup Elems(t)
      <3>1. PICK i \in 1..Len(s) + Len(t) : c = (s \o t)[i]
        BY <2>2, <2>3
      <3>2. CASE i <= Len(s)
        BY <1>1, <1>2, <2>1, <3>1, <3>2
      <3>3. CASE ~(i <= Len(s))
        <4>1. i - Len(s) \in 1..Len(t) /\ c = t[i - Len(s)]
          BY <1>1, <2>1, <3>1, <3>3
        <4> QED  BY <2>2, <4>1
      <3> QED  BY <3>2, <3>3
    <2>4. ASSUME NEW i \in 1..Len(s) PROVE s[i] \in Elems(s \o t)
      <3>1. i \in 1..Len(s) + Len(t) /\ (s \o t)[i] = s[i]
        BY <1>1, <2>1
      <3> QED  BY <2>2, <3>1
    <2>5. ASSUME NEW i \in 1..Len(t) PROVE t[i] \in Elems(s \o t)
      <3>1. Len(s) + i \in 1..Len(s) + Len(t) /\ (s \o t)[Len(s) + i] = t[i]
        BY <1>1, <2>1
      <3> QED  BY <2>2, <3>1
    <2>6. \A c : c \in Elems(s \o t) <=> c \in Elems(s) \cup Elems(t)
      BY <1>2, <2>2, <2>3, <2>4, <2>5
    <2> QED  BY <2>1, <2>6
  <1>5. ASSUME NEW x \in X PROVE Append(s, x) \in Seq(X) /\ Elems(Append(s, x)) = Elems(s) \cup {x}
    <2>1. <<x>> \in Seq(X) /\ Append(s, x) = s \o <<x>>
      OBVIOUS
    <2>2. Elems(<<x>>) = {x}
      <3>1. DOMAIN <<x>> = 1..1 /\ <<x>>[1] = x
        OBVIOUS
      <3> QED  BY <3>1 DEF Elems
    <2> QED  BY <1>4, <2>1, <2>2
  <1>6. ASSUME s # <<>>
        PROVE  /\ Head(s) \in X /\ Tail(s) \in Seq(X) /\ Len(Tail(s)) = Len(s) - 1
               /\ Elems(s) = {Head(s)} \cup Elems(Tail(s))
               /\ \A i \in 1..Len(s) - 1 : Tail(s)[i] = s[i + 1]
    <2>1. /\ Head(s) \in X /\ Tail(s) \in Seq(X) /\ Len(Tail(s)) = Len(s) - 1 /\ Head(s) = s[1]
          /\ \A i \in 1..Len(s) - 1 : Tail(s)[i] = s[i + 1]
          /\ Len(s) >= 1
      BY <1>1, <1>6
    <2>2. Elems(Tail(s)) = {Tail(s)[i] : i \in 1..Len(s) - 1}
      BY <2>1, LenProperties DEF Elems
    <2>3. ASSUME NEW i \in 1..Len(s) PROVE s[i] \in {Head(s)} \cup Elems(Tail(s))
      <3>1. CASE i = 1
        BY <2>1, <3>1
      <3>2. CASE i # 1
        <4>1. i - 1 \in 1..Len(s) - 1 /\ s[i] = Tail(s)[i - 1]
          BY <1>1, <2>1, <3>2
        <4> QED  BY <2>2, <4>1
      <3> QED  BY <3>1, <3>2
    <2>4. ASSUME NEW i \in 1..Len(s) - 1 PROVE Tail(s)[i] \in Elems(s)
      <3>1. i + 1 \in 1..Len(s) /\ Tail(s)[i] = s[i + 1]
        BY <1>1, <2>1
      <3> QED  BY <1>2, <3>1
    <2>5. \A c : c \in Elems(s) <=> c \in {Head(s)} \cup Elems(Tail(s))
      <3>1. Head(s) \in Elems(s)
        BY <1>1, <1>2, <2>1
      <3> QED  BY <1>2, <2>2, <2>3, <2>4, <3>1
    <2> QED  BY <2>1, <2>5
  <1> QED  BY <1>2, <1>3, <1>4, <1>5, <1>6

-----------------------------------------------------------------------------
(* The calls of one output. *)

\* The calls of s were made in round r, and stand in the order they were made.
Fresh(s, r) ==
  /\ s \in Seq(Call)
  /\ \A i \in 1..Len(s) : s[i].round = r
  /\ \A i, j \in 1..Len(s) : i < j => s[i].pos < s[j].pos

\* So are the first of them, and those of a set.
LEMMA FreshParts ==
  ASSUME NEW r, NEW s, Fresh(s, r)
  PROVE  /\ Fresh(<<>>, r)
         /\ \A n \in Int : /\ Fresh(First(s, n), r) /\ Elems(First(s, n)) \subseteq Elems(s)
                           /\ Len(First(s, n)) <= Len(s)
                           /\ IF n < 0 THEN Len(First(s, n)) = 0 ELSE Len(First(s, n)) <= n
         /\ \A S : /\ Fresh(Among(s, S), r) /\ Len(Among(s, S)) <= Len(s)
                   /\ Elems(Among(s, S)) = {c \in Elems(s) : c \in S}
  <1>1. s \in Seq(Call) /\ Len(s) \in Nat /\ DOMAIN s = 1..Len(s)
    BY LenProperties DEF Fresh
  <1>2. Fresh(<<>>, r)
    BY DEF Fresh
  <1>3. ASSUME NEW n \in Int
        PROVE  /\ Fresh(First(s, n), r) /\ Elems(First(s, n)) \subseteq Elems(s)
               /\ Len(First(s, n)) <= Len(s)
               /\ IF n < 0 THEN Len(First(s, n)) = 0 ELSE Len(First(s, n)) <= n
    <2> DEFINE m == IF n < Len(s) THEN n ELSE Len(s)
    <2>1. m \in Int /\ m <= Len(s) /\ First(s, n) = SubSeq(s, 1, m)
      BY <1>1 DEF First
    <2> HIDE DEF m
    <2>2. PICK t : t = First(s, n)
      OBVIOUS
    <2>3. /\ t \in Seq(Call) /\ Len(t) = (IF 1 <= m THEN m ELSE 0)
          /\ \A i \in 1..Len(t) : t[i] = s[i] /\ i \in 1..Len(s)
      BY <1>1, <2>1, <2>2
    <2>4. Fresh(t, r)
      BY <1>1, <2>1, <2>3 DEF Fresh
    <2>5. Elems(t) \subseteq Elems(s)
      <3>1. Elems(t) = {t[i] : i \in 1..Len(t)} /\ Elems(s) = {s[i] : i \in 1..Len(s)}
        BY <1>1, <2>3, ElemsOf
      <3> QED  BY <2>3, <3>1
    <2>6. Len(t) <= Len(s) /\ IF n < 0 THEN Len(t) = 0 ELSE Len(t) <= n
      BY <1>1, <2>1, <2>3 DEF m
    <2> QED  BY <2>2, <2>4, <2>5, <2>6
  <1>4. ASSUME NEW S
        PROVE  /\ Fresh(Among(s, S), r) /\ Len(Among(s, S)) <= Len(s)
               /\ Elems(Among(s, S)) = {c \in Elems(s) : c \in S}
    <2>1. PICK t : t = Among(s, S)
      OBVIOUS
    <2>2. /\ t \in Seq(Call) /\ Len(t) <= Len(s) /\ Elems(t) = {c \in Elems(s) : c \in S}
          /\ \E pick \in [1..Len(t) -> 1..Len(s)] :
               /\ \A k \in 1..Len(t) : t[k] = s[pick[k]]
               /\ \A k, l \in 1..Len(t) : k < l => pick[k] < pick[l]
      BY <1>1, <2>1, AmongSelects
    <2>3. Fresh(t, r)
      <3>1. PICK pick \in [1..Len(t) -> 1..Len(s)] :
              /\ \A k \in 1..Len(t) : t[k] = s[pick[k]]
              /\ \A k, l \in 1..Len(t) : k < l => pick[k] < pick[l]
        BY <2>2
      <3>2. \A i \in 1..Len(t) : t[i].round = r
        BY <3>1 DEF Fresh
      <3>3. ASSUME NEW i \in 1..Len(t), NEW j \in 1..Len(t), i < j PROVE t[i].pos < t[j].pos
        <4>1. pick[i] \in 1..Len(s) /\ pick[j] \in 1..Len(s) /\ pick[i] < pick[j]
          BY <3>1, <3>3
        <4>2. s[pick[i]].pos < s[pick[j]].pos
          BY <4>1 DEF Fresh
        <4> QED  BY <3>1, <4>2
      <3> QED  BY <2>2, <3>2, <3>3 DEF Fresh
    <2> QED  BY <2>1, <2>2, <2>3
  <1> QED  BY <1>2, <1>3, <1>4

Types ==
  /\ req \in Requests
  /\ waiting \in Seq(SUBSET Names) /\ Len(waiting) <= Len(Offers)
  /\ tools \in [DOMAIN tools -> 1..Len(Offers)]
  /\ pc \in {"connect", "ask", "run", "final"} \cup {"done", "failed", "refused", "direct"}
  /\ round \in 0..MaxRounds + 1 /\ answered \subseteq Call
  /\ asked \in Seq(Call) /\ run \in Seq(Call) /\ todo \in Seq(Call)
  /\ left \in Seq(Call) /\ told \in Seq(Call) /\ answer \in Seq(Call)

\* The calls of an output are of this round.
LEMMA CallsAreFresh ==
  ASSUME Types, NEW o \in Outputs, round' = round + 1, round <= MaxRounds
  PROVE  Fresh(Calls(o), round + 1)
  <1>1. PICK n \in 0..MaxCalls : o.calls \in [1..n -> Names]
    <2>1. CASE o = NoCalls
      <3>1. o.calls \in [1..0 -> Names]
        BY <2>1 DEF NoCalls
      <3> QED  BY <3>1, ToolLoopAssumption, SMTT(40)
    <2>2. CASE o # NoCalls
      BY <2>2, ToolLoopAssumption DEF Outputs
    <2> QED  BY <2>1, <2>2
  <1>2. PICK r : r = round + 1
    OBVIOUS
  <1>3. r \in 1..MaxRounds + 1 /\ round' = r
    BY <1>2, ToolLoopAssumption, SMTT(40) DEF Types
  <1>4. PICK s : s = [i \in 1..n |-> [round |-> r, pos |-> i, name |-> o.calls[i]]]
    OBVIOUS
  <1>5. Calls(o) = s
    BY <1>1, <1>3, <1>4 DEF Calls
  <1>6. \A i \in 1..n : /\ [round |-> r, pos |-> i, name |-> o.calls[i]] \in Call
                        /\ s[i] = [round |-> r, pos |-> i, name |-> o.calls[i]]
    BY <1>1, <1>3, <1>4, ToolLoopAssumption DEF Call
  <1>7. s \in Seq(Call) /\ Len(s) = n
    <2>1. s \in [1..n -> Call] /\ n \in Nat
      BY <1>4, <1>6
    <2> QED  BY <2>1
  <1>8. \A i \in 1..n : s[i].round = r /\ s[i].pos = i
    <2> TAKE i \in 1..n
    <2>1. PICK c : c = [round |-> r, pos |-> i, name |-> o.calls[i]]
      OBVIOUS
    <2>2. c.round = r /\ c.pos = i
      BY <2>1
    <2> QED  BY <1>6, <2>1, <2>2
  <1>9. Fresh(s, r)
    BY <1>7, <1>8 DEF Fresh
  <1> QED  BY <1>2, <1>5, <1>9

\* However an output is read, its calls are of this round; what only the parser finds
\* cannot be read, and without a parser there is nothing parsed.
LEMMA ReadingsAreFresh ==
  ASSUME Types, NEW o \in Outputs, round' = round + 1, round <= MaxRounds
  PROVE  /\ Fresh(Parsed(o), round + 1) /\ Fresh(Readable(o), round + 1)
         /\ Fresh(Anywhere(o), round + 1)
         /\ Readable(o) = <<>> \/ o.form # "parsed"
         /\ ~req.parser => Parsed(o) = <<>>
  <1>1. PICK s, r : s = Calls(o) /\ r = round + 1 /\ Fresh(s, r)
    BY CallsAreFresh
  <1>2. Fresh(<<>>, r)
    BY <1>1, FreshParts
  <1>3. Parsed(o) \in {s, <<>>} /\ Readable(o) \in {s, <<>>} /\ Anywhere(o) = s
    BY <1>1 DEF Parsed, Readable, Anywhere
  <1>4. o.form = "parsed" => Readable(o) = <<>>
    BY DEF Readable
  <1>5. ~req.parser => o.form \notin {"parsed", "both"}
    BY DEF Outputs, CallForms, NoCalls
  <1>6. ~req.parser => Parsed(o) = <<>>
    BY <1>5 DEF Parsed
  <1> QED  BY <1>1, <1>2, <1>3, <1>4, <1>6

\* Serial requests are limited to a call.
LEMMA LimitIsFresh ==
  ASSUME NEW r, NEW s, Fresh(s, r)
  PROVE  /\ Fresh(Limit(s), r) /\ Elems(Limit(s)) \subseteq Elems(s) /\ Len(Limit(s)) \in Nat
         /\ ~req.parallel => Len(Limit(s)) <= 1
  <1>1. Fresh(First(s, 1), r) /\ Elems(First(s, 1)) \subseteq Elems(s) /\ Len(First(s, 1)) <= 1
    BY FreshParts
  <1>2. PICK t : t = First(s, 1)
    OBVIOUS
  <1>3. Len(s) \in Nat /\ Len(t) \in Nat
    BY <1>1, <1>2, LenProperties DEF Fresh
  <1> QED  BY <1>1, <1>2, <1>3 DEF Limit

\* The calls of a round are those of the servers and those of the client.
LEMMA CallsAreDivided ==
  ASSUME NEW r, NEW s, Fresh(s, r)
  PROVE  /\ Fresh(Mcp(s), r) /\ Fresh(Clients(s), r) /\ Len(Mcp(s)) <= Len(s)
         /\ Elems(Mcp(s)) = {c \in Elems(s) : c.name \in DOMAIN tools}
         /\ Elems(Clients(s)) = {c \in Elems(s) : c.name \notin DOMAIN tools}
  <1>1. PICK S, T : /\ S = {c \in Elems(s) : c.name \in DOMAIN tools}
                    /\ T = {c \in Elems(s) : c.name \notin DOMAIN tools}
    OBVIOUS
  <1>2. /\ Fresh(Among(s, S), r) /\ Len(Among(s, S)) <= Len(s)
        /\ Elems(Among(s, S)) = {c \in Elems(s) : c \in S}
        /\ Fresh(Among(s, T), r) /\ Elems(Among(s, T)) = {c \in Elems(s) : c \in T}
    BY FreshParts
  <1>3. Mcp(s) = Among(s, S) /\ Clients(s) = Among(s, T)
    BY <1>1 DEF Mcp, Clients
  <1>4. {c \in Elems(s) : c \in S} = S /\ {c \in Elems(s) : c \in T} = T
    BY <1>1
  <1> QED  BY <1>1, <1>2, <1>3, <1>4

-----------------------------------------------------------------------------
(* The invariant of the loop. *)

Rounds == MaxRounds + IF req.variant = "chatStream" THEN 1 ELSE 0

\* How many rounds a request may have had, and which lists are empty, at each point.
Phases ==
  /\ pc = "connect" => round = 0 /\ asked = <<>> /\ run = <<>> /\ told = <<>>
  /\ pc = "ask" => round < Rounds \/ (req.variant = "chat" /\ round <= Rounds)
  /\ pc = "final" => round <= MaxRounds /\ req.variant \in Responses
  /\ pc = "run" => round <= Rounds /\ Fresh(todo, round)
  /\ pc # "run" => todo = <<>>
  /\ pc \in {"connect", "ask", "final"} => left = <<>>
  /\ pc = "run" => \A c \in Elems(left) : c.name \notin DOMAIN tools

Before(c, d) == c.round < d.round \/ (c.round = d.round /\ c.pos < d.pos)

\* The calls run and those to be run were asked, stand in order, and fit the limits.
Executed ==
  /\ Elems(run) \subseteq Elems(asked) /\ Elems(todo) \subseteq Elems(asked)
  /\ \A c \in Elems(run) : c.round <= Rounds /\ c.round <= round
  /\ \A i, j \in 1..Len(run) : i < j => Before(run[i], run[j])
  /\ \A c \in Elems(run), d \in Elems(todo) : Before(c, d)
  /\ req.budget # NoLimit => Len(run) + Len(todo) <= req.budget

\* What was asked before the answer has its result, or is waiting for it, or is the
\* client's.
Conversed ==
  /\ \A c \in Elems(asked) : c.round <= round
  /\ SerialKept
  /\ pc \in {"connect", "ask", "run", "final"} =>
       \A c \in Elems(asked) :
          \/ c \in answered \/ c \in Elems(todo) \/ c \in Elems(left)
          \/ req.variant \in Chats /\ c.name \notin DOMAIN tools

\* A streamed response has told the calls it ran.
ToldSoFar ==
  req.variant = "responseStream" /\ pc \in {"ask", "run", "final"} /\ left = <<>> => told = run

Concluded == ContextAnswered /\ RunIsAnswered /\ ToldIsAnswer

LoopInv == Types /\ Phases /\ Executed /\ Conversed /\ ToldSoFar /\ Concluded

\* A request starts with nothing asked, run, answered or told.
LEMMA InitLoop == Init => LoopInv
  <1> SUFFICES ASSUME Init PROVE LoopInv
    OBVIOUS
  <1>1. <<>> \in Seq(Call) /\ Elems(<<>>) = {}
    BY DEF Elems
  <1>2. Types
    <2>1. tools \in [DOMAIN tools -> 1..Len(Offers)]
      <3>1. DOMAIN tools = {} /\ tools = [x \in DOMAIN tools |-> tools[x]]
        BY DEF Init
      <3> QED  BY <3>1
    <2>2. waiting \in Seq(SUBSET Names) /\ Len(waiting) <= Len(Offers)
      <3>1. Offers \in Seq(SUBSET Names)
        <4>1. Offers \in Seq(SUBSET UNION {Offers[i] : i \in 1..Len(Offers)})
          BY ToolLoopAssumption
        <4> DEFINE U == UNION {Offers[i] : i \in 1..Len(Offers)}
        <4>2. U \subseteq Names
          BY DEF Names
        <4>3. \A i \in 1..Len(Offers) : Offers[i] \in SUBSET Names
          BY <4>2
        <4> QED  BY <4>1, <4>3
      <3>2. Len(Offers) \in Nat
        BY <3>1, LenProperties
      <3> QED  BY <3>1, <3>2 DEF Init
    <2> QED  BY <1>1, <2>1, <2>2, ToolLoopAssumption DEF Types, Init
  <1>3. Phases
    BY DEF Phases, Init
  <1>5. Executed
    <2>1. run = <<>> /\ todo = <<>> /\ Len(run) = 0 /\ Len(todo) = 0 /\ Elems(run) = {} /\ Elems(todo) = {}
      BY <1>1 DEF Init
    <2>2. req.budget # NoLimit => req.budget \in Nat
      BY <1>2, ToolLoopAssumption DEF Types, Requests
    <2> QED  BY <2>1, <2>2 DEF Executed
  <1>6. Conversed
    <2>1. Elems(asked) = {}
      BY <1>1 DEF Init
    <2> QED  BY <2>1 DEF Conversed, SerialKept
  <1>7. ToldSoFar
    BY DEF ToldSoFar, Init
  <1>4. Concluded
    BY DEF Concluded, ContextAnswered, RunIsAnswered, ToldIsAnswer, Init
  <1> QED  BY <1>2, <1>3, <1>4, <1>5, <1>6, <1>7 DEF LoopInv

\* Calls of a new round join the conversation.
LEMMA AskedGrows ==
  ASSUME LoopInv, NEW calls, Fresh(calls, round + 1), ~req.parallel => Len(calls) <= 1,
         round' = round + 1, asked' = asked \o calls, req' = req
  PROVE  /\ asked' \in Seq(Call) /\ Elems(asked') = Elems(asked) \cup Elems(calls)
         /\ \A c \in Elems(calls) : c.round = round'
         /\ \A c \in Elems(asked) : c.round <= round /\ c.round < round'
         /\ \A c \in Elems(asked') : c.round <= round'
         /\ SerialKept'
  <1>1. PICK r : r = round + 1
    OBVIOUS
  <1>2. Fresh(calls, r) /\ round' = r
    BY <1>1
  <1>3. /\ asked \in Seq(Call) /\ calls \in Seq(Call) /\ round \in Nat /\ Len(calls) \in Nat
    BY <1>2, ToolLoopAssumption, LenProperties DEF LoopInv, Types, Fresh
  <1>4. asked \o calls \in Seq(Call) /\ Elems(asked \o calls) = Elems(asked) \cup Elems(calls)
    BY <1>3, ElemsOf
  <1>5. \A c \in Elems(calls) : c.round = r
    BY <1>2, <1>3, ElemsOf DEF Fresh
  <1>6. \A c \in Elems(asked) : c.round <= round /\ c.round \in Nat
    <2>1. Elems(asked) \subseteq Call
      BY <1>3, ElemsOf
    <2>2. \A c \in Call : c.round \in Nat
      BY ToolLoopAssumption DEF Call
    <2> QED  BY <2>1, <2>2 DEF LoopInv, Conversed
  <1>7. SerialKept'
    <2> SUFFICES ASSUME ~req.parallel, NEW c \in Elems(asked \o calls), NEW d \in Elems(asked \o calls),
                        c.round = d.round
                 PROVE  c = d
      BY SMTT(40) DEF SerialKept, Elems
    <2>1. CASE c \in Elems(asked) /\ d \in Elems(asked)
      BY <2>1 DEF LoopInv, Conversed, SerialKept
    <2>2. CASE c \in Elems(calls) /\ d \in Elems(calls)
      <3>1. \E i, j \in 1..Len(calls) : c = calls[i] /\ d = calls[j]
        BY <1>3, <2>2, ElemsOf
      <3> QED  BY <1>3, <3>1
    <2>3. CASE ~(c \in Elems(asked) /\ d \in Elems(asked)) /\ ~(c \in Elems(calls) /\ d \in Elems(calls))
      BY <1>1, <1>3, <1>4, <1>5, <1>6, <2>3
    <2> QED  BY <2>1, <2>2, <2>3
  <1>8. \A c \in Elems(asked \o calls) : c.round <= r
    BY <1>1, <1>3, <1>4, <1>5, <1>6
  <1>9. \A c \in Elems(asked) : c.round < r
    BY <1>1, <1>3, <1>6
  <1>10. Elems(asked') = Elems(asked \o calls)
    OBVIOUS
  <1> QED  BY <1>2, <1>4, <1>5, <1>6, <1>7, <1>8, <1>9, <1>10

\* A round begins with calls of its own: they follow all that were asked.
LEMMA BeginKeeps ==
  ASSUME LoopInv, pc = "ask", NEW o, NEW calls, Fresh(calls, round + 1), round' = round + 1,
         ~req.parallel => Len(calls) <= 1,
         req.budget # NoLimit => Len(run) + Len(calls) <= req.budget,
         Begin(o, calls), UNCHANGED <<req, tools>>
  PROVE  /\ asked' \in Seq(Call) /\ Fresh(todo', round') /\ Fresh(left', round')
         /\ Elems(asked') = Elems(asked) \cup Elems(calls)
         /\ Elems(todo') = {c \in Elems(calls) : c.name \in DOMAIN tools}
         /\ Elems(left') = {c \in Elems(calls) : c.name \notin DOMAIN tools}
         /\ Executed' /\ SerialKept'
         /\ \A c \in Elems(asked') : c.round <= round'
         /\ \A c \in Elems(asked') :
              \/ c \in answered' \/ c \in Elems(todo') \/ c \in Elems(left')
              \/ req'.variant \in Chats /\ c.name \notin DOMAIN tools'
  <1>1. PICK r, mcp, clients : r = round + 1 /\ mcp = Mcp(calls) /\ clients = Clients(calls)
    OBVIOUS
  <1>2. /\ Fresh(mcp, r) /\ Fresh(clients, r) /\ Fresh(calls, r) /\ Len(mcp) <= Len(calls)
        /\ Elems(mcp) = {c \in Elems(calls) : c.name \in DOMAIN tools}
        /\ Elems(clients) = {c \in Elems(calls) : c.name \notin DOMAIN tools}
    BY <1>1, CallsAreDivided
  <1>3. todo' = mcp /\ left' = clients /\ asked' = asked \o calls /\ UNCHANGED <<answered, run>> /\ round' = r
    BY <1>1 DEF Begin
  <1>4. /\ asked \in Seq(Call) /\ run \in Seq(Call) /\ calls \in Seq(Call) /\ mcp \in Seq(Call)
        /\ todo = <<>> /\ left = <<>> /\ Elems(<<>>) = {}
        /\ round \in Nat /\ Len(run) \in Nat /\ Len(mcp) \in Nat /\ Len(calls) \in Nat
    BY <1>2, ToolLoopAssumption, LenProperties DEF LoopInv, Types, Phases, Fresh, Elems
  <1>5. /\ asked \o calls \in Seq(Call) /\ Elems(asked \o calls) = Elems(asked) \cup Elems(calls)
        /\ \A c \in Elems(calls) : c.round = r
        /\ \A c \in Elems(asked) : c.round <= round /\ c.round < r
        /\ \A c \in Elems(asked \o calls) : c.round <= r
        /\ SerialKept'
    <2>1. /\ asked' \in Seq(Call) /\ Elems(asked') = Elems(asked) \cup Elems(calls)
          /\ \A c \in Elems(calls) : c.round = round'
          /\ \A c \in Elems(asked) : c.round <= round /\ c.round < round'
          /\ \A c \in Elems(asked') : c.round <= round'
          /\ SerialKept'
      BY <1>3, AskedGrows
    <2> QED  BY <1>3, <2>1
  <1>8. Executed'
    <2>1. Elems(run)' \subseteq Elems(asked)' /\ Elems(todo)' \subseteq Elems(asked)'
      <3>1. Elems(run) \subseteq Elems(asked)
        BY DEF LoopInv, Executed
      <3>2. Elems(mcp) \subseteq Elems(asked \o calls) /\ Elems(run) \subseteq Elems(asked \o calls)
        BY <1>2, <1>5, <3>1
      <3> QED  BY <1>3, <3>2 DEF Elems
    <2>2. \A c \in Elems(run)' : c.round <= Rounds' /\ c.round <= round'
      <3>1. \A c \in Elems(run) : c.round <= Rounds /\ c.round <= round /\ c \in Elems(asked)
        BY DEF LoopInv, Executed
      <3>2. \A c \in Elems(run) : c.round <= r
        BY <1>5, <3>1, <1>4, <1>1
      <3>3. Rounds' = Rounds /\ Elems(run)' = Elems(run)
        BY <1>3 DEF Rounds, Elems
      <3> QED  BY <1>3, <3>1, <3>2, <3>3
    <2>3. (\A i, j \in 1..Len(run) : i < j => Before(run[i], run[j]))'
      BY <1>3 DEF LoopInv, Executed, Before
    <2>4. (\A c \in Elems(run), d \in Elems(todo) : Before(c, d))'
      <3>1. \A c \in Elems(run) : c.round < r
        BY <1>5 DEF LoopInv, Executed
      <3>2. \A d \in Elems(mcp) : d.round = r
        BY <1>2, <1>5
      <3>3. \A c \in Elems(run), d \in Elems(mcp) : Before(c, d)
        BY <3>1, <3>2 DEF Before
      <3> QED  BY <1>3, <3>3 DEF Elems
    <2>5. (req.budget # NoLimit => Len(run) + Len(todo) <= req.budget)'
      <3>1. req.budget # NoLimit => Len(run) + Len(mcp) <= req.budget
        <4>1. req.budget \in Int
          BY ToolLoopAssumption DEF LoopInv, Types, Requests, NoLimit
        <4> QED  BY <1>2, <1>4, <4>1
      <3> QED  BY <1>3, <3>1 DEF NoLimit
    <2> QED  BY <2>1, <2>2, <2>3, <2>4, <2>5 DEF Executed
  <1>11. \A c \in Elems(asked \o calls) :
           \/ c \in answered \/ c \in Elems(mcp) \/ c \in Elems(clients)
           \/ req.variant \in Chats /\ c.name \notin DOMAIN tools
    BY <1>2, <1>4, <1>5 DEF LoopInv, Conversed
  <1>12. Elems(asked)' = Elems(asked \o calls) /\ Elems(todo)' = Elems(mcp) /\ Elems(left)' = Elems(clients)
    BY <1>3 DEF Elems
  <1> QED  BY <1>2, <1>3, <1>5, <1>8, <1>11, <1>12

\* The answer ends the request: what it appends to the conversation it lists.
LEMMA ConcludeKeeps ==
  ASSUME LoopInv, pc \in {"ask", "final"}, NEW o \in Outputs, round' = round + 1, round <= MaxRounds,
         req.variant \in Responses, Conclude(o),
         UNCHANGED <<req, waiting, tools, answered, run, todo, left>>
  PROVE  LoopInv'
  <1>1. PICK r, p : r = round + 1 /\ p = Limit(Parsed(o))
    OBVIOUS
  <1>2. Fresh(p, r) /\ (~req.parallel => Len(p) <= 1) /\ (~req.parser => Elems(p) = {})
    <2>1. Fresh(Parsed(o), r) /\ (~req.parser => Parsed(o) = <<>>)
      BY <1>1, ReadingsAreFresh DEF LoopInv
    <2>2. PICK q : q = Parsed(o)
      OBVIOUS
    <2>3. Fresh(Limit(q), r) /\ Elems(Limit(q)) \subseteq Elems(q) /\ (~req.parallel => Len(Limit(q)) <= 1)
      BY <2>1, <2>2, LimitIsFresh
    <2>4. q = <<>> => Elems(q) = {}
      BY DEF Elems
    <2> QED  BY <1>1, <2>1, <2>2, <2>3, <2>4
  <1>3. /\ asked \in Seq(Call) /\ run \in Seq(Call) /\ told \in Seq(Call) /\ p \in Seq(Call)
        /\ todo = <<>> /\ left = <<>> /\ Elems(todo) = {} /\ Elems(left) = {}
        /\ round \in Nat /\ round' = r /\ <<>> \in Seq(Call) /\ r \in 0..MaxRounds + 1
    <2>1. asked \in Seq(Call) /\ run \in Seq(Call) /\ told \in Seq(Call) /\ round \in Nat
      BY DEF LoopInv, Types
    <2>2. p \in Seq(Call)
      BY <1>2 DEF Fresh
    <2>3. todo = <<>> /\ left = <<>>
      BY DEF LoopInv, Phases
    <2>4. Elems(todo) = {} /\ Elems(left) = {}
      BY <2>3 DEF Elems
    <2>5. round' = r /\ r \in 0..MaxRounds + 1
      BY <1>1, <2>1, ToolLoopAssumption
    <2>6. <<>> \in Seq(Call)
      OBVIOUS
    <2> QED  BY <2>1, <2>2, <2>3, <2>4, <2>5, <2>6
  <1>4. CASE pc' = "failed" /\ answer' = <<>> /\ UNCHANGED <<asked, told>>
    <2>1. Types'
      BY <1>3, <1>4 DEF LoopInv, Types
    <2>2. Phases'
      BY <1>3, <1>4 DEF Phases
    <2>3. Executed'
      <3>1. \A c \in Elems(run) : c.round <= round + 1
        <4>1. \A c \in Elems(run) : c \in Call /\ c.round <= round
          BY <1>3, ElemsOf DEF LoopInv, Executed
        <4>2. \A c \in Call : c.round \in Nat
          BY ToolLoopAssumption DEF Call
        <4> QED  BY <1>3, <4>1, <4>2
      <3>2. UNCHANGED <<Elems(run), Elems(todo), Elems(asked), Rounds>>
        BY <1>4 DEF Elems, Rounds
      <3> QED  BY <1>4, <3>1, <3>2 DEF LoopInv, Executed, Before, NoLimit
    <2>4. Conversed'
      <3>1. \A c \in Elems(asked) : c.round <= round + 1
        <4>1. \A c \in Elems(asked) : c \in Call /\ c.round <= round
          BY <1>3, ElemsOf DEF LoopInv, Conversed
        <4>2. \A c \in Call : c.round \in Nat
          BY ToolLoopAssumption DEF Call
        <4> QED  BY <1>3, <4>1, <4>2
      <3>2. Elems(asked)' = Elems(asked)
        BY <1>4 DEF Elems
      <3> QED  BY <1>4, <3>1, <3>2 DEF LoopInv, Conversed, SerialKept
    <2>5. ToldSoFar' /\ Concluded'
      BY <1>4 DEF ToldSoFar, Concluded, ContextAnswered, RunIsAnswered, ToldIsAnswer
    <2> QED  BY <2>1, <2>2, <2>3, <2>4, <2>5 DEF LoopInv
  <1>5. ASSUME NEW shown, shown \in Shown(o), pc' = "done", answer' = run \o shown,
               told' = told \o shown, asked' = asked \o p
        PROVE  LoopInv'
    <2>1. shown \in Seq(Call) /\ (req.variant = "response" => shown = p)
      <3>1. shown \in {p, <<>>} /\ (req.variant # "responseStream" => shown = p)
        BY <1>1, <1>5 DEF Shown
      <3> QED  BY <1>3, <3>1
    <2>2. /\ asked' \in Seq(Call) /\ Elems(asked') = Elems(asked) \cup Elems(p)
          /\ \A c \in Elems(asked) : c.round <= round /\ c.round < round'
          /\ \A c \in Elems(asked') : c.round <= round'
          /\ SerialKept'
      BY <1>1, <1>2, <1>5, AskedGrows
    <2>3. answer' \in Seq(Call) /\ told' \in Seq(Call) /\ Elems(run \o shown) = Elems(run) \cup Elems(shown)
      BY <1>3, <1>5, <2>1, ElemsOf
    <2>4. Types'
      BY <1>3, <1>5, <2>2, <2>3 DEF LoopInv, Types
    <2>5. Phases'
      BY <1>3, <1>5 DEF Phases
    <2>6. UNCHANGED <<Elems(run), Elems(todo), Rounds>> /\ Elems(answer)' = Elems(run) \cup Elems(shown)
      BY <1>5, <2>3 DEF Elems, Rounds
    <2>7. Executed'
      <3>1. \A c \in Elems(run) : c.round <= round' /\ c \in Elems(asked)'
        <4>1. \A c \in Elems(run) : c \in Elems(asked)
          BY DEF LoopInv, Executed
        <4>2. Elems(asked)' = Elems(asked')
          BY DEF Elems
        <4> QED  BY <2>2, <4>1, <4>2
      <3> QED  BY <1>3, <1>5, <2>6, <3>1 DEF LoopInv, Executed, Before, NoLimit
    <2>8. Conversed'
      <3>1. Elems(asked)' = Elems(asked')
        BY DEF Elems
      <3> QED  BY <1>5, <2>2, <3>1 DEF Conversed
    <2>9. ContextAnswered'
      <3> SUFFICES ASSUME req.variant = "response" \/ ~req.parser,
                          NEW c \in Elems(asked) \cup Elems(p)
                   PROVE  c \in answered \/ c \in Elems(run) \cup Elems(shown)
        <4>1. Elems(asked)' = Elems(asked) \cup Elems(p)
          BY <2>2 DEF Elems
        <4> QED  BY <2>6, <4>1 DEF ContextAnswered
      <3>1. CASE c \in Elems(asked)
        BY <1>3, <3>1 DEF LoopInv, Conversed, Responses, Chats
      <3>2. CASE c \in Elems(p)
        BY <1>2, <2>1, <3>2
      <3> QED  BY <3>1, <3>2
    <2>10. RunIsAnswered'
      BY <2>6 DEF RunIsAnswered
    <2>11. ToldIsAnswer'
      <3> SUFFICES ASSUME req.variant = "responseStream"
                   PROVE  \E k \in 0..Len(told') : SubSeq(told', k + 1, Len(told')) = answer'
        BY <1>5 DEF ToldIsAnswer
      <3>1. told = run
        BY <1>3 DEF LoopInv, ToldSoFar
      <3>2. PICK t : t = told'
        OBVIOUS
      <3>3. t = answer' /\ t \in Seq(Call)
        BY <1>5, <2>3, <3>1, <3>2
      <3>4. SubSeq(t, 0 + 1, Len(t)) = t /\ 0 \in 0..Len(t)
        BY <3>3
      <3> QED  BY <3>2, <3>3, <3>4
    <2>12. ToldSoFar'
      BY <1>5 DEF ToldSoFar
    <2> QED  BY <2>4, <2>5, <2>7, <2>8, <2>9, <2>10, <2>11, <2>12 DEF LoopInv, Concluded
  <1>6. \/ pc' = "failed" /\ answer' = <<>> /\ UNCHANGED <<asked, told>>
        \/ \E shown \in Shown(o) : /\ pc' = "done" /\ answer' = run \o shown
                                   /\ told' = told \o shown /\ asked' = asked \o p
    BY <1>1 DEF Conclude, Close, Prepended, Appended
  <1> QED  BY <1>4, <1>5, <1>6

\* A round begins whose calls are to be run.
LEMMA BeginRuns ==
  ASSUME LoopInv, pc = "ask", NEW o, NEW calls, Fresh(calls, round + 1), round' = round + 1,
         ~req.parallel => Len(calls) <= 1,
         req.budget # NoLimit => Len(run) + Len(calls) <= req.budget,
         Begin(o, calls), round < Rounds, pc' = "run", UNCHANGED <<req, waiting, tools, answer>>,
         told' \in Seq(Call), req.variant \in Responses => told' = told
  PROVE  LoopInv'
  <1>1. /\ asked' \in Seq(Call) /\ Fresh(todo', round') /\ Fresh(left', round')
        /\ Elems(left') = {c \in Elems(calls) : c.name \notin DOMAIN tools}
        /\ Executed' /\ SerialKept'
        /\ \A c \in Elems(asked') : c.round <= round'
        /\ \A c \in Elems(asked') :
             \/ c \in answered' \/ c \in Elems(todo') \/ c \in Elems(left')
             \/ req'.variant \in Chats /\ c.name \notin DOMAIN tools'
    BY BeginKeeps
  <1>2. todo' \in Seq(Call) /\ left' \in Seq(Call) /\ UNCHANGED <<run, answered>>
    BY <1>1 DEF Fresh, Begin
  <1>3. round' \in 0..MaxRounds + 1 /\ Rounds' = Rounds /\ round' <= Rounds
    <2>1. round \in Nat /\ Rounds \in Nat /\ Rounds <= MaxRounds + 1
      BY ToolLoopAssumption DEF LoopInv, Types, Rounds
    <2> QED  BY <2>1, ToolLoopAssumption DEF Rounds
  <1>4. Types'
    BY <1>1, <1>2, <1>3 DEF LoopInv, Types
  <1>5. Phases'
    <2>1. Fresh(todo, round)' /\ Elems(left)' = Elems(left')
      BY <1>1 DEF Fresh, Call, Elems, Names
    <2> QED  BY <1>1, <1>3, <2>1 DEF Phases
  <1>6. Conversed'
    <2>1. Elems(asked)' = Elems(asked') /\ Elems(todo)' = Elems(todo') /\ Elems(left)' = Elems(left')
      BY DEF Elems
    <2> QED  BY <1>1, <2>1 DEF Conversed
  <1>7. ToldSoFar'
    <2>1. left = <<>>
      BY DEF LoopInv, Phases
    <2> QED  BY <1>2, <2>1 DEF LoopInv, ToldSoFar, Responses
  <1>8. Concluded'
    BY DEF Concluded, ContextAnswered, RunIsAnswered, ToldIsAnswer
  <1> QED  BY <1>1, <1>4, <1>5, <1>6, <1>7, <1>8 DEF LoopInv

\* What was told before the client's calls, and then them, ends with them.
LEMMA EndOfConcat ==
  ASSUME NEW X, NEW s \in Seq(X), NEW t \in Seq(X)
  PROVE  Len(s) \in 0..Len(s \o t) /\ SubSeq(s \o t, Len(s) + 1, Len(s \o t)) = t
  <1>1. /\ Len(s) \in Nat /\ Len(t) \in Nat /\ s \o t \in Seq(X) /\ Len(s \o t) = Len(s) + Len(t)
        /\ \A i \in 1..Len(t) : (s \o t)[Len(s) + i] = t[i]
    OBVIOUS
  <1>2. PICK u : u = SubSeq(s \o t, Len(s) + 1, Len(s \o t))
    OBVIOUS
  <1>3. u \in Seq(X) /\ Len(u) = Len(t)
    BY <1>1, <1>2
  <1>4. \A i \in 1..Len(t) : u[i] = t[i]
    BY <1>1, <1>2
  <1>5. u = t
    BY <1>3, <1>4, SeqEqual
  <1> QED  BY <1>1, <1>2, <1>5

\* A round ends the request at once when all its calls are the client's.
LEMMA BeginEnds ==
  ASSUME LoopInv, pc = "ask", NEW o, NEW calls, Fresh(calls, round + 1), round' = round + 1,
         ~req.parallel => Len(calls) <= 1,
         req.budget # NoLimit => Len(run) + Len(calls) <= req.budget,
         Begin(o, calls), round <= MaxRounds, calls # <<>>, todo' = <<>>, HandOver(o, left'),
         \/ req.variant = "response" /\ told' = told
         \/ req.variant = "responseStream" /\ told' = told \o left',
         UNCHANGED <<req, waiting, tools>>
  PROVE  LoopInv'
  <1>1. /\ asked' \in Seq(Call) /\ Fresh(left', round')
        /\ Elems(todo') = {c \in Elems(calls) : c.name \in DOMAIN tools}
        /\ Elems(left') = {c \in Elems(calls) : c.name \notin DOMAIN tools}
        /\ Executed' /\ SerialKept'
        /\ \A c \in Elems(asked') : c.round <= round'
        /\ \A c \in Elems(asked') :
             \/ c \in answered' \/ c \in Elems(todo') \/ c \in Elems(left')
             \/ req'.variant \in Chats /\ c.name \notin DOMAIN tools'
    BY BeginKeeps
  <1>2. /\ left' \in Seq(Call) /\ UNCHANGED <<run, answered>> /\ told \in Seq(Call) /\ <<>> \in Seq(Call)
        /\ Elems(todo') = {}
    BY <1>1 DEF Fresh, Begin, LoopInv, Types, Elems
  <1>3. /\ told' \in Seq(Call)
        /\ req.variant = "responseStream" =>
             \E k \in 0..Len(told') : SubSeq(told', k + 1, Len(told')) = left'
    <2>1. PICK s, t : s = told /\ t = left'
      OBVIOUS
    <2>2. s \o t \in Seq(Call) /\ Len(s) \in 0..Len(s \o t) /\ SubSeq(s \o t, Len(s) + 1, Len(s \o t)) = t
      BY <1>2, <2>1, EndOfConcat
    <2> QED  BY <1>2, <2>1, <2>2
  <1>4. round' \in 0..MaxRounds + 1
    BY ToolLoopAssumption, SMTT(40) DEF LoopInv, Types
  <1>5. pc' \in {"done", "failed"} /\ answer' \in {left', <<>>} /\ (pc' = "done" => answer' = left')
    BY DEF HandOver, Close
  <1>6. Types'
    BY <1>1, <1>2, <1>3, <1>4, <1>5 DEF LoopInv, Types
  <1>7. Phases' /\ ToldSoFar'
    BY <1>5 DEF Phases, ToldSoFar
  <1>8. Conversed'
    <2>1. Elems(asked)' = Elems(asked')
      BY DEF Elems
    <2> QED  BY <1>1, <1>5, <2>1 DEF Conversed
  <1>9. ContextAnswered'
    <2>1. Elems(asked)' = Elems(asked') /\ Elems(answer)' = Elems(answer')
      BY DEF Elems
    <2> QED  BY <1>1, <1>2, <1>5, <2>1 DEF ContextAnswered, Responses, Chats
  <1>10. RunIsAnswered'
    <2>1. calls \in Seq(Call) /\ calls[1] \in Elems(calls)
      <3>1. calls \in Seq(Call) /\ Len(calls) \in Nat /\ Len(calls) # 0
        BY EmptySeq, LenProperties DEF Fresh
      <3> QED  BY <3>1, ElemsOf
    <2>2. calls[1] \in Elems(left') /\ calls[1].name \notin DOMAIN tools
      BY <1>1, <1>2, <2>1
    <2>3. Elems(answer)' = Elems(answer')
      BY DEF Elems
    <2> QED  BY <1>5, <2>2, <2>3 DEF RunIsAnswered
  <1>11. ToldIsAnswer'
    BY <1>3, <1>5 DEF ToldIsAnswer
  <1> QED  BY <1>1, <1>6, <1>7, <1>8, <1>9, <1>10, <1>11 DEF LoopInv, Concluded

\* A round of a response: conclude, or append the calls and run the server's.
LEMMA ResponseRoundKeeps ==
  ASSUME LoopInv, NEW o \in Outputs, ResponseRound(o)
  PROVE  LoopInv'
  <1>1. /\ pc = "ask" /\ req.variant = "response" /\ round' = round + 1
        /\ UNCHANGED <<req, waiting, tools>>
        /\ round \in Nat /\ MaxRounds \in Nat /\ Rounds = MaxRounds /\ round < MaxRounds
    BY ToolLoopAssumption DEF ResponseRound, LoopInv, Types, Phases, Rounds
  <1>2. PICK r, x : /\ r = round + 1
                    /\ x = Readable(o) \o IF o.form = "parsed" THEN Parsed(o) ELSE <<>>
    OBVIOUS
  <1>3. Fresh(x, r)
    <2>1. PICK p, q : p = Parsed(o) /\ q = Readable(o)
      OBVIOUS
    <2>2. Fresh(p, r) /\ Fresh(q, r) /\ (q = <<>> \/ o.form # "parsed")
      BY <1>1, <1>2, <2>1, ReadingsAreFresh DEF LoopInv
    <2>3. p \in Seq(Call) /\ q \in Seq(Call)
      BY <2>2 DEF Fresh
    <2>4. q \o <<>> = q /\ <<>> \o p = p
      BY <2>3
    <2>5. x = p \/ x = q
      BY <1>2, <2>1, <2>2, <2>4
    <2> QED  BY <2>2, <2>5
  <1>4. PICK calls : calls = Limit(x)
    OBVIOUS
  <1>5. Fresh(calls, r) /\ (~req.parallel => Len(calls) <= 1) /\ Len(calls) \in Nat
    BY <1>3, <1>4, LimitIsFresh
  <1>6. PICK remaining, kept : /\ remaining = req.budget - Len(run)
                               /\ kept = IF req.budget = NoLimit THEN calls ELSE First(calls, remaining)
    OBVIOUS
  <1>7. /\ req.budget \in Int /\ Len(run) \in Nat /\ remaining \in Int
    <2>1. req.budget \in Int /\ run \in Seq(Call)
      BY ToolLoopAssumption DEF LoopInv, Types, Requests, NoLimit
    <2> QED  BY <1>6, <2>1, LenProperties
  <1>8. CASE calls = <<>> /\ Conclude(o) /\ UNCHANGED <<answered, run, todo, left, out>>
    BY <1>1, <1>8, ConcludeKeeps DEF Responses
  <1>9. CASE pc' = "final" /\ UNCHANGED loop
    <2>1. Types' /\ Phases'
      BY <1>1, <1>9 DEF loop, LoopInv, Types, Phases, Responses
    <2>2. /\ \A c \in Elems(run) : c.round <= Rounds /\ c.round <= round + 1
          /\ \A c \in Elems(asked) : c.round <= round + 1
      <3>1. /\ \A c \in Elems(run) : c \in Call /\ c.round <= Rounds /\ c.round <= round
            /\ \A c \in Elems(asked) : c \in Call /\ c.round <= round
        BY ElemsOf DEF LoopInv, Types, Executed, Conversed
      <3>2. \A c \in Call : c.round \in Nat
        BY ToolLoopAssumption DEF Call
      <3> QED  BY <1>1, <3>1, <3>2
    <2>3. UNCHANGED <<Elems(run), Elems(todo), Elems(asked), Elems(left), Rounds>>
      BY <1>1, <1>9 DEF loop, Elems, Rounds
    <2>4. Executed' /\ Conversed'
      BY <1>1, <1>9, <2>2, <2>3 DEF loop, LoopInv, Executed, Before, NoLimit, Conversed, SerialKept
    <2>5. ToldSoFar' /\ Concluded'
      BY <1>1, <1>9 DEF loop, ToldSoFar, Concluded, ContextAnswered, RunIsAnswered, ToldIsAnswer
    <2> QED  BY <2>1, <2>4, <2>5 DEF LoopInv
  <1>10. CASE /\ kept # <<>> /\ Begin(o, kept) /\ UNCHANGED told
              /\ IF todo' = <<>> THEN HandOver(o, left') ELSE pc' = "run" /\ UNCHANGED answer
    <2>1. Fresh(kept, r) /\ (~req.parallel => Len(kept) <= 1)
          /\ (req.budget # NoLimit => Len(run) + Len(kept) <= req.budget)
      <3>1. CASE req.budget = NoLimit
        BY <1>5, <1>6, <3>1
      <3>2. CASE req.budget # NoLimit
        <4>1. /\ Fresh(First(calls, remaining), r) /\ Len(First(calls, remaining)) <= Len(calls)
              /\ IF remaining < 0 THEN Len(First(calls, remaining)) = 0
                                  ELSE Len(First(calls, remaining)) <= remaining
          BY <1>5, <1>7, FreshParts
        <4>2. Fresh(kept, r) /\ Len(kept) <= Len(calls)
              /\ IF remaining < 0 THEN Len(kept) = 0 ELSE Len(kept) <= remaining
          BY <1>6, <3>2, <4>1
        <4>3. kept \in Seq(Call) /\ Len(kept) \in Nat /\ Len(kept) # 0
          BY <1>10, <4>2, EmptySeq, LenProperties DEF Fresh
        <4>4. Len(kept) <= remaining /\ (~req.parallel => Len(kept) <= 1)
          BY <1>5, <1>7, <4>2, <4>3
        <4> QED  BY <1>6, <1>7, <4>2, <4>3, <4>4
      <3> QED  BY <3>1, <3>2
    <2>2. CASE todo' = <<>>
      BY <1>1, <1>2, <1>10, <2>1, <2>2, BeginEnds
    <2>3. CASE todo' # <<>>
      BY <1>1, <1>2, <1>10, <2>1, <2>3, BeginRuns DEF LoopInv, Types
    <2> QED  BY <2>2, <2>3
  <1>11. \/ calls = <<>> /\ Conclude(o) /\ UNCHANGED <<answered, run, todo, left, out>>
         \/ pc' = "final" /\ UNCHANGED loop
         \/ /\ kept # <<>> /\ Begin(o, kept) /\ UNCHANGED told
            /\ IF todo' = <<>> THEN HandOver(o, left') ELSE pc' = "run" /\ UNCHANGED answer
    BY <1>2, <1>4, <1>6, Zenon DEF ResponseRound
  <1> QED  BY <1>8, <1>9, <1>10, <1>11

\* A round of a streamed response, which also tells what it runs.
LEMMA StreamRoundKeeps ==
  ASSUME LoopInv, NEW o \in Outputs, StreamRound(o)
  PROVE  LoopInv'
  <1>1. /\ pc = "ask" /\ req.variant = "responseStream" /\ round' = round + 1
        /\ UNCHANGED <<req, waiting, tools>> /\ req.budget = NoLimit
        /\ round \in Nat /\ MaxRounds \in Nat /\ Rounds = MaxRounds /\ round < MaxRounds
    BY ToolLoopAssumption DEF StreamRound, LoopInv, Types, Phases, Rounds, Requests
  <1>2. PICK r, x, calls : r = round + 1 /\ x = Readable(o) /\ calls = Limit(x)
    OBVIOUS
  <1>3. Fresh(calls, r) /\ (~req.parallel => Len(calls) <= 1)
    BY <1>1, <1>2, ReadingsAreFresh, LimitIsFresh DEF LoopInv
  <1>4. CASE calls = <<>> /\ Conclude(o) /\ UNCHANGED <<answered, run, todo, left, out>>
    BY <1>1, <1>4, ConcludeKeeps DEF Responses
  <1>5. CASE /\ calls # <<>> /\ Begin(o, calls) /\ todo' = <<>>
             /\ told' = told \o left' /\ HandOver(o, left')
    BY <1>1, <1>2, <1>3, <1>5, BeginEnds
  <1>6. CASE /\ calls # <<>> /\ Begin(o, calls) /\ todo' # <<>>
             /\ pc' = "run" /\ UNCHANGED <<told, answer>>
    BY <1>1, <1>2, <1>3, <1>6, BeginRuns DEF LoopInv, Types
  <1>7. \/ calls = <<>> /\ Conclude(o) /\ UNCHANGED <<answered, run, todo, left, out>>
        \/ /\ calls # <<>> /\ Begin(o, calls) /\ todo' = <<>>
           /\ told' = told \o left' /\ HandOver(o, left')
        \/ /\ calls # <<>> /\ Begin(o, calls) /\ todo' # <<>>
           /\ pc' = "run" /\ UNCHANGED <<told, answer>>
    BY <1>2, Zenon DEF StreamRound
  <1> QED  BY <1>4, <1>5, <1>6, <1>7

\* A request ends without another word in the conversation.
LEMMA EndKeeps ==
  ASSUME LoopInv, round' \in {round, round + 1}, round <= MaxRounds + 1, round' <= MaxRounds + 1,
         pc # "run", pc' \in {"done", "failed"}, pc' = "done" => req.variant \in Chats,
         answer' \in Seq(Call), told' \in Seq(Call),
         UNCHANGED <<req, waiting, tools, asked, answered, run, todo, left>>
  PROVE  LoopInv'
  <1>1. round \in Nat /\ round' \in 0..MaxRounds + 1
    BY ToolLoopAssumption, SMTT(40) DEF LoopInv, Types
  <1>2. Types' /\ Phases'
    BY <1>1 DEF LoopInv, Types, Phases
  <1>3. /\ \A c \in Elems(run) : c.round <= Rounds /\ c.round <= round'
        /\ \A c \in Elems(asked) : c.round <= round'
    <2>1. /\ \A c \in Elems(run) : c \in Call /\ c.round <= Rounds /\ c.round <= round
          /\ \A c \in Elems(asked) : c \in Call /\ c.round <= round
      BY ElemsOf DEF LoopInv, Types, Executed, Conversed
    <2>2. \A c \in Call : c.round \in Nat
      BY ToolLoopAssumption DEF Call
    <2> QED  BY <1>1, <2>1, <2>2
  <1>4. UNCHANGED <<Elems(run), Elems(todo), Elems(asked), Elems(left), Rounds>>
    BY DEF Elems, Rounds
  <1>5. Executed' /\ Conversed'
    BY <1>3, <1>4 DEF LoopInv, Executed, Before, NoLimit, Conversed, SerialKept
  <1>6. ToldSoFar' /\ Concluded'
    BY DEF ToldSoFar, Concluded, ContextAnswered, RunIsAnswered, ToldIsAnswer, Responses, Chats
  <1> QED  BY <1>2, <1>5, <1>6 DEF LoopInv

\* A round of a chat completion.
LEMMA ChatRoundKeeps ==
  ASSUME LoopInv, NEW o \in Outputs, ChatRound(o)
  PROVE  LoopInv'
  <1>1. /\ pc = "ask" /\ req.variant = "chat" /\ round' = round + 1
        /\ UNCHANGED <<req, waiting, tools>> /\ req.budget = NoLimit /\ req.parallel
        /\ round \in Nat /\ MaxRounds \in Nat /\ Rounds = MaxRounds /\ round <= MaxRounds
        /\ told \in Seq(Call) /\ <<>> \in Seq(Call)
    BY ToolLoopAssumption DEF ChatRound, LoopInv, Types, Phases, Rounds, Requests, Chats
  <1>2. PICK r, calls, p, q : r = round + 1 /\ calls = Anywhere(o) /\ p = Parsed(o) /\ q = Readable(o)
    OBVIOUS
  <1>3. Fresh(calls, r) /\ p \in Seq(Call) /\ q \in Seq(Call)
    BY <1>1, <1>2, ReadingsAreFresh DEF LoopInv, Fresh
  <1>4. CASE Begin(o, calls) /\ pc' = "run" /\ UNCHANGED <<told, answer>> /\ round < MaxRounds
    BY <1>1, <1>2, <1>3, <1>4, BeginRuns
  <1>5. CASE ChatAnswer(o) /\ UNCHANGED <<asked, answered, run, todo, left, told, out>>
    <2>1. pc' \in {"done", "failed"} /\ answer' \in {p, q, <<>>}
      BY <1>2, <1>5 DEF ChatAnswer, Close
    <2>2. answer' \in Seq(Call) /\ told' \in Seq(Call) /\ round' <= MaxRounds + 1 /\ round <= MaxRounds + 1
      <3>1. answer' \in Seq(Call)
        BY <1>1, <1>3, <2>1
      <3>2. told' \in Seq(Call)
        BY <1>1, <1>5
      <3>3. round' <= MaxRounds + 1 /\ round <= MaxRounds + 1
        BY <1>1
      <3> QED  BY <3>1, <3>2, <3>3
    <2> QED  BY <1>1, <1>5, <2>1, <2>2, EndKeeps DEF Chats
  <1>6. \/ Begin(o, calls) /\ pc' = "run" /\ UNCHANGED <<told, answer>> /\ round < MaxRounds
        \/ ChatAnswer(o) /\ UNCHANGED <<asked, answered, run, todo, left, told, out>>
    BY <1>2, Zenon DEF ChatRound
  <1> QED  BY <1>4, <1>5, <1>6

\* A round of a streamed chat completion.
LEMMA ChatStreamRoundKeeps ==
  ASSUME LoopInv, NEW o \in Outputs, ChatStreamRound(o)
  PROVE  LoopInv'
  <1>1. /\ pc = "ask" /\ req.variant = "chatStream" /\ round' = round + 1
        /\ UNCHANGED <<req, waiting, tools>> /\ req.budget = NoLimit /\ req.parallel
        /\ round \in Nat /\ MaxRounds \in Nat /\ Rounds = MaxRounds + 1 /\ round <= MaxRounds
        /\ told \in Seq(Call) /\ <<>> \in Seq(Call)
    BY ToolLoopAssumption DEF ChatStreamRound, LoopInv, Types, Phases, Rounds, Requests, Chats
  <1>2. PICK r, calls : r = round + 1 /\ calls = Anywhere(o)
    OBVIOUS
  <1>3. Fresh(calls, r) /\ calls \in Seq(Call)
    BY <1>1, <1>2, ReadingsAreFresh DEF LoopInv, Fresh
  <1>4. told' \in Seq(Call)
    <2>1. told' = told \o <<>> \/ told' = told \o calls
      BY <1>2 DEF ChatStreamRound
    <2>2. PICK s : s = told /\ s \in Seq(Call)
      BY <1>1
    <2>3. s \o <<>> \in Seq(Call) /\ s \o calls \in Seq(Call)
      BY <1>1, <1>3, <2>2
    <2> QED  BY <2>1, <2>2, <2>3
  <1>5. CASE Begin(o, calls) /\ pc' = "run" /\ UNCHANGED answer
    BY <1>1, <1>2, <1>3, <1>4, <1>5, BeginRuns DEF Responses
  <1>6. CASE Close("done", told') /\ UNCHANGED <<asked, answered, run, todo, left, out>>
    BY <1>1, <1>4, <1>6, EndKeeps DEF Chats, Close
  <1>7. \/ Begin(o, calls) /\ pc' = "run" /\ UNCHANGED answer
        \/ Close("done", told') /\ UNCHANGED <<asked, answered, run, todo, left, out>>
    BY <1>2, Zenon DEF ChatStreamRound
  <1> QED  BY <1>5, <1>6, <1>7

\* The round after the last one that may call tools.
LEMMA LastRoundKeeps ==
  ASSUME LoopInv, NEW o \in Outputs, LastRound(o)
  PROVE  LoopInv'
  <1>1. /\ pc = "final" /\ req.variant \in Responses /\ round' = round + 1 /\ round <= MaxRounds
        /\ Conclude(o) /\ UNCHANGED <<req, waiting, tools, answered, run, todo, left, out>>
    BY DEF LastRound, LoopInv, Phases
  <1> QED  BY <1>1, ConcludeKeeps

\* A round whose generation fails.
LEMMA FailsKeeps ==
  ASSUME LoopInv, Fails PROVE LoopInv'
  <1>1. /\ pc \in {"ask", "final"} /\ pc' = "failed" /\ answer' = <<>> /\ <<>> \in Seq(Call)
        /\ round \in Nat /\ round <= MaxRounds + 1 /\ told \in Seq(Call)
        /\ UNCHANGED <<req, waiting, tools, round, asked, answered, run, todo, left, told, out>>
    BY ToolLoopAssumption DEF Fails, Close, LoopInv, Types
  <1> QED  BY <1>1, EndKeeps

\* One call of the server is run, or answered with why it is not.
LEMMA RunCallKeeps ==
  ASSUME LoopInv, RunCall PROVE LoopInv'
  <1>1. PICK c, rest, ran : c = Head(todo) /\ rest = Tail(todo) /\ ran = Append(run, c)
    OBVIOUS
  <1>2. /\ pc = "run" /\ todo # <<>> /\ run' = ran /\ answered' = answered \cup {c} /\ todo' = rest
        /\ told' \in {told, Append(told, c)}
        /\ req.variant = "responseStream" /\ left = <<>> => told' = Append(told, c)
        /\ UNCHANGED <<req, waiting, tools, pc, round, out, asked, left, answer>>
    BY <1>1 DEF RunCall
  <1>3. /\ Fresh(todo, round) /\ todo \in Seq(Call) /\ run \in Seq(Call) /\ told \in Seq(Call)
        /\ Len(run) \in Nat /\ Len(todo) \in Nat /\ Len(todo) # 0 /\ round \in Nat
    BY <1>2, ToolLoopAssumption, LenProperties, EmptySeq DEF LoopInv, Types, Phases
  <1>4. /\ c \in Call /\ rest \in Seq(Call) /\ Len(rest) = Len(todo) - 1 /\ c = todo[1]
        /\ Elems(todo) = {c} \cup Elems(rest) /\ \A i \in 1..Len(todo) - 1 : rest[i] = todo[i + 1]
    BY <1>1, <1>2, <1>3, ElemsOf
  <1>5. /\ ran \in Seq(Call) /\ Elems(ran) = Elems(run) \cup {c} /\ Len(ran) = Len(run) + 1
        /\ \A i \in 1..Len(run) : ran[i] = run[i]
        /\ ran[Len(run) + 1] = c
    <2>1. ran \in Seq(Call) /\ Elems(ran) = Elems(run) \cup {c}
      BY <1>1, <1>3, <1>4, ElemsOf
    <2> QED  BY <1>1, <1>3, <1>4, <2>1
  <1>6. Fresh(rest, round)
    <2>1. \A i \in 1..Len(rest) : i + 1 \in 1..Len(todo) /\ rest[i] = todo[i + 1]
      BY <1>3, <1>4
    <2>2. \A i \in 1..Len(rest) : rest[i].round = round
      BY <1>3, <2>1 DEF Fresh
    <2>3. ASSUME NEW i \in 1..Len(rest), NEW j \in 1..Len(rest), i < j PROVE rest[i].pos < rest[j].pos
      <3>1. i + 1 \in 1..Len(todo) /\ j + 1 \in 1..Len(todo) /\ i + 1 < j + 1
        BY <1>3, <1>4, <2>3
      <3> QED  BY <1>3, <2>1, <3>1 DEF Fresh
    <2> QED  BY <1>4, <2>2, <2>3 DEF Fresh
  <1>7. /\ c.round = round /\ \A d \in Elems(rest) : Before(c, d)
    <2>1. \A i \in 1..Len(todo) : todo[i].round = round
      BY <1>3 DEF Fresh
    <2>2. 1 \in 1..Len(todo)
      BY <1>3
    <2>3. ASSUME NEW i \in 1..Len(rest) PROVE Before(c, rest[i])
      <3>1. i + 1 \in 1..Len(todo) /\ 1 < i + 1 /\ rest[i] = todo[i + 1]
        BY <1>3, <1>4
      <3>2. todo[1].pos < todo[i + 1].pos
        BY <1>3, <2>2, <3>1 DEF Fresh
      <3> QED  BY <1>4, <2>1, <2>2, <3>1, <3>2 DEF Before
    <2>4. Elems(rest) = {rest[i] : i \in 1..Len(rest)}
      BY <1>4, ElemsOf
    <2> QED  BY <1>4, <2>1, <2>2, <2>3, <2>4
  <1>8. Types'
    <2>1. told' \in Seq(Call)
      <3>1. Append(told, c) \in Seq(Call)
        BY <1>3, <1>4
      <3> QED  BY <1>2, <1>3, <3>1
    <2>2. answered' \subseteq Call
      BY <1>2, <1>4 DEF LoopInv, Types
    <2> QED  BY <1>2, <1>4, <1>5, <2>1, <2>2 DEF LoopInv, Types
  <1>9. UNCHANGED <<Elems(asked), Elems(left), Rounds>> /\ Elems(run)' = Elems(ran) /\ Elems(todo)' = Elems(rest)
    BY <1>2 DEF Elems, Rounds
  <1>10. Phases'
    <2>1. Fresh(todo, round)'
      BY <1>2, <1>6
    <2> QED  BY <1>2, <1>9, <2>1 DEF LoopInv, Phases
  <1>11. Executed'
    <2>1. Elems(ran) \subseteq Elems(asked) /\ Elems(rest) \subseteq Elems(asked)
      BY <1>4, <1>5 DEF LoopInv, Executed
    <2>2. \A d \in Elems(ran) : d.round <= Rounds /\ d.round <= round
      <3>1. c.round <= Rounds /\ c.round <= round
        BY <1>2, <1>3, <1>7 DEF LoopInv, Phases
      <3> QED  BY <1>5, <3>1 DEF LoopInv, Executed
    <2>3. ASSUME NEW i \in 1..Len(ran), NEW j \in 1..Len(ran), i < j PROVE Before(ran[i], ran[j])
      <3>1. i \in 1..Len(run) /\ ran[i] = run[i]
        BY <1>3, <1>5, <2>3
      <3>2. CASE j = Len(run) + 1
        <4>1. run[i] \in Elems(run) /\ c \in Elems(todo) /\ ran[j] = c
          BY <1>3, <1>4, <1>5, <3>1, <3>2, ElemsOf
        <4> QED  BY <3>1, <4>1 DEF LoopInv, Executed
      <3>3. CASE j # Len(run) + 1
        <4>1. j \in 1..Len(run) /\ ran[j] = run[j]
          BY <1>3, <1>5, <3>3
        <4> QED  BY <2>3, <3>1, <4>1 DEF LoopInv, Executed
      <3> QED  BY <3>2, <3>3
    <2>4. \A d \in Elems(ran), e \in Elems(rest) : Before(d, e)
      BY <1>4, <1>5, <1>7 DEF LoopInv, Executed
    <2>5. req.budget # NoLimit => Len(ran) + Len(rest) <= req.budget
      <3>1. req.budget # NoLimit => Len(run) + Len(todo) <= req.budget
        BY DEF LoopInv, Executed
      <3>2. Len(ran) + Len(rest) = Len(run) + Len(todo)
        BY <1>3, <1>4, <1>5
      <3> QED  BY <3>1, <3>2
    <2> HIDE DEF Before
    <2>6. /\ Elems(run)' = Elems(ran) /\ Elems(todo)' = Elems(rest) /\ Elems(asked)' = Elems(asked)
          /\ run' = ran /\ todo' = rest /\ round' = round /\ req' = req /\ Rounds' = Rounds
      BY <1>2, <1>9
    <2> QED  BY <2>1, <2>2, <2>3, <2>4, <2>5, <2>6 DEF Executed, NoLimit, Before
  <1>12. Conversed'
    <2>1. \A d \in Elems(asked) : \/ d \in answered \cup {c} \/ d \in Elems(rest) \/ d \in Elems(left)
                                  \/ req.variant \in Chats /\ d.name \notin DOMAIN tools
      BY <1>2, <1>4 DEF LoopInv, Conversed
    <2> QED  BY <1>2, <1>9, <2>1 DEF LoopInv, Conversed, SerialKept
  <1>13. ToldSoFar' /\ Concluded'
    <2>1. req.variant = "responseStream" /\ left = <<>> => told' = run'
      BY <1>1, <1>2 DEF LoopInv, ToldSoFar
    <2> QED  BY <1>2, <2>1 DEF ToldSoFar, Concluded, ContextAnswered, RunIsAnswered, ToldIsAnswer
  <1> QED  BY <1>8, <1>10, <1>11, <1>12, <1>13 DEF LoopInv

\* When all calls of a round are run, nothing is added to the conversation.
LEMMA RoundOverKeeps ==
  ASSUME LoopInv, ResponseRoundOver \/ ChatRoundOver PROVE LoopInv'
  <1>1. /\ pc = "run" /\ todo = <<>> /\ left' = <<>> /\ Elems(todo) = {} /\ Elems(left') = {}
        /\ UNCHANGED <<req, waiting, tools, round, asked, answered, run, todo>>
        /\ pc' \in {"ask", "final", "done", "failed"}
        /\ told \in Seq(Call) /\ left \in Seq(Call) /\ <<>> \in Seq(Call)
        /\ round \in Nat /\ MaxRounds \in Nat
    BY ToolLoopAssumption
       DEF ResponseRoundOver, ChatRoundOver, HandOver, Close, Elems, LoopInv, Types
  <1>2. UNCHANGED <<Elems(run), Elems(todo), Elems(asked), Rounds>> /\ Elems(left)' = {}
    BY <1>1 DEF Elems, Rounds
  <1>3. Executed'
    BY <1>1, <1>2 DEF LoopInv, Executed, Before, NoLimit
  <1>4. \A c \in Elems(asked) :
          c \in answered \/ c \in Elems(left) \/ (req.variant \in Chats /\ c.name \notin DOMAIN tools)
    BY <1>1 DEF LoopInv, Conversed
  <1>5. \A c \in Elems(left) : c.name \notin DOMAIN tools
    BY <1>1 DEF LoopInv, Phases
  <1>6. CASE ResponseRoundOver /\ left # <<>>
    <2>1. /\ req.variant \in Responses /\ pc' \in {"done", "failed"} /\ answer' \in {left, <<>>}
          /\ pc' = "done" => answer' = left
          /\ told' = IF req.variant = "responseStream" THEN told \o left ELSE told
      BY <1>6 DEF ResponseRoundOver, HandOver, Close
    <2>2. PICK s, t : s = told /\ t = left /\ s \in Seq(Call) /\ t \in Seq(Call)
      BY <1>1
    <2>3. s \o t \in Seq(Call) /\ Len(s) \in 0..Len(s \o t) /\ SubSeq(s \o t, Len(s) + 1, Len(s \o t)) = t
      BY <2>2, EndOfConcat
    <2>4. Types'
      BY <1>1, <2>1, <2>2, <2>3 DEF LoopInv, Types
    <2>5. Phases' /\ ToldSoFar'
      BY <1>1, <2>1 DEF Phases, ToldSoFar
    <2>6. Conversed'
      BY <1>1, <1>2, <2>1 DEF LoopInv, Conversed, SerialKept
    <2>7. Elems(answer)' = Elems(answer')
      BY DEF Elems
    <2>8. ContextAnswered'
      BY <1>1, <1>2, <1>4, <2>1, <2>7 DEF ContextAnswered, Responses, Chats
    <2>9. RunIsAnswered'
      <3>1. left[1] \in Elems(left)
        <4>1. Len(left) \in Nat /\ Len(left) # 0
          BY <1>1, <1>6, EmptySeq, LenProperties
        <4> QED  BY <1>1, <4>1, ElemsOf
      <3> QED  BY <1>1, <1>5, <2>1, <2>7, <3>1 DEF RunIsAnswered
    <2>10. ToldIsAnswer'
      <3> SUFFICES ASSUME pc' = "done", req.variant = "responseStream"
                   PROVE  \E k \in 0..Len(told') : SubSeq(told', k + 1, Len(told')) = answer'
        BY <1>1 DEF ToldIsAnswer
      <3>1. told' = s \o t /\ answer' = t
        BY <2>1, <2>2
      <3> QED  BY <2>3, <3>1
    <2> QED  BY <1>3, <2>4, <2>5, <2>6, <2>8, <2>9, <2>10 DEF LoopInv, Concluded
  <1>7. CASE ResponseRoundOver /\ left = <<>>
    <2>1. /\ req.variant \in Responses /\ pc' = (IF LoopGoesOn THEN "ask" ELSE "final")
          /\ UNCHANGED <<answer, told>> /\ Elems(left) = {}
      BY <1>7 DEF ResponseRoundOver, Elems
    <2>2. Rounds = MaxRounds /\ round <= Rounds /\ (LoopGoesOn => round < MaxRounds)
      BY <1>1, <2>1 DEF LoopInv, Phases, Rounds, LoopGoesOn, Responses
    <2>3. Types'
      BY <1>1, <2>1 DEF LoopInv, Types
    <2>4. Phases'
      BY <1>1, <1>2, <2>1, <2>2 DEF Phases
    <2>5. Conversed'
      BY <1>1, <1>2, <1>4, <2>1 DEF LoopInv, Conversed, SerialKept
    <2>6. ToldSoFar' /\ Concluded'
      BY <1>1, <1>7, <2>1 DEF LoopInv, ToldSoFar, Concluded, ContextAnswered, RunIsAnswered, ToldIsAnswer
    <2> QED  BY <1>3, <2>3, <2>4, <2>5, <2>6 DEF LoopInv
  <1>8. CASE ChatRoundOver
    <2>1. /\ req.variant \in Chats /\ UNCHANGED told
          /\ \/ pc' = "done" /\ answer' = told
             \/ pc' = "ask" /\ UNCHANGED answer /\ ~(req.variant = "chatStream" /\ round > MaxRounds)
      BY <1>8 DEF ChatRoundOver, Close
    <2>2. Types'
      BY <1>1, <2>1 DEF LoopInv, Types
    <2>3. Phases'
      <3>1. /\ round <= Rounds /\ Rounds = (IF req.variant = "chatStream" THEN MaxRounds + 1 ELSE MaxRounds)
            /\ req.variant = "chat" \/ req.variant = "chatStream"
        BY <1>1, <2>1 DEF LoopInv, Phases, Rounds, Chats
      <3>2. pc' = "ask" => round < Rounds \/ (req.variant = "chat" /\ round <= Rounds)
        BY <1>1, <2>1, <3>1
      <3> QED  BY <1>1, <1>2, <2>1, <3>2 DEF Phases
    <2>4. Conversed'
      BY <1>1, <1>2, <1>4, <1>5, <2>1 DEF LoopInv, Conversed, SerialKept
    <2>5. ToldSoFar' /\ Concluded'
      BY <1>1, <2>1 DEF ToldSoFar, Concluded, ContextAnswered, RunIsAnswered, ToldIsAnswer, Responses, Chats
    <2> QED  BY <1>3, <2>2, <2>3, <2>4, <2>5 DEF LoopInv
  <1> QED  BY <1>6, <1>7, <1>8

\* The servers are connected and the offer is made.
LEMMA PrepareKeeps ==
  ASSUME LoopInv, PrepareResponse \/ PrepareChat PROVE LoopInv'
  <1>1. /\ pc = "connect" /\ round = 0 /\ asked = <<>> /\ run = <<>> /\ told = <<>>
        /\ todo = <<>> /\ left = <<>> /\ UNCHANGED <<req, waiting, tools, round, loop>>
    BY DEF PrepareResponse, PrepareChat, LoopInv, Phases
  <1>2. /\ pc' \in {"ask", "final", "refused", "direct"}
        /\ pc' = "final" => req.variant \in Responses
        /\ pc' = "ask" => Rounds > 0 \/ (req.variant = "chat" /\ Rounds >= 0)
    BY ToolLoopAssumption, SMTT(40)
       DEF PrepareResponse, PrepareChat, Route, Agentic, Rounds, Responses, Chats, LoopInv, Types
  <1>3. Types'
    BY <1>1, <1>2 DEF loop, LoopInv, Types
  <1>4. UNCHANGED <<Elems(run), Elems(todo), Elems(asked), Elems(left), Rounds>> /\ Elems(asked) = {}
    BY <1>1 DEF loop, Elems, Rounds
  <1>5. Phases'
    BY <1>1, <1>2, <1>4, ToolLoopAssumption DEF loop, Phases
  <1>6. Executed' /\ Conversed'
    BY <1>1, <1>4 DEF loop, LoopInv, Executed, Before, NoLimit, Conversed, SerialKept
  <1>7. ToldSoFar' /\ Concluded'
    BY <1>1, <1>2 DEF loop, ToldSoFar, Concluded, ContextAnswered, RunIsAnswered, ToldIsAnswer
  <1> QED  BY <1>3, <1>5, <1>6, <1>7 DEF LoopInv

\* Tools come before the first round and go after the last.
LEMMA ToolsKeep ==
  ASSUME LoopInv, Connect \/ Shutdown PROVE LoopInv'
  <1>1. /\ UNCHANGED <<req, pc, round, loop>> /\ pc \notin {"ask", "run", "final"}
        /\ pc = "connect" => asked = <<>>
    BY DEF Connect, Shutdown, Ended, LoopInv, Phases
  <1>2. UNCHANGED <<Elems(run), Elems(todo), Elems(asked), Elems(left), Elems(answer), Rounds>>
    BY <1>1 DEF loop, Elems, Rounds
  <1>3. /\ waiting' \in Seq(SUBSET Names) /\ Len(waiting') <= Len(Offers)
        /\ tools' \in [DOMAIN tools' -> 1..Len(Offers)]
    <2>1. /\ waiting \in Seq(SUBSET Names) /\ Len(waiting) <= Len(Offers) /\ Len(Offers) \in Nat
          /\ Len(waiting) \in Nat /\ tools \in [DOMAIN tools -> 1..Len(Offers)]
      BY ToolLoopAssumption, LenProperties DEF LoopInv, Types
    <2>2. CASE Connect
      <3>1. waiting # <<>> /\ waiting' = Tail(waiting)
        BY <2>2 DEF Connect
      <3>2. Len(waiting) # 0 /\ Tail(waiting) \in Seq(SUBSET Names) /\ Len(Tail(waiting)) = Len(waiting) - 1
        BY <2>1, <3>1, EmptySeq
      <3>3. PICK server : server = Len(Offers) - Len(waiting) + 1
        OBVIOUS
      <3>4. server \in 1..Len(Offers)
        BY <2>1, <3>2, <3>3
      <3>5. CASE tools' = [n \in Head(waiting) \cup DOMAIN tools |->
                             IF n \in Head(waiting) THEN server ELSE tools[n]]
        BY <2>1, <3>1, <3>2, <3>4, <3>5
      <3>6. CASE tools' = tools
        BY <2>1, <3>1, <3>2, <3>6
      <3> QED  BY <2>2, <3>3, <3>5, <3>6 DEF Connect
    <2>3. CASE Shutdown
      <3>1. waiting' = waiting /\ tools' = <<>>
        BY <2>3 DEF Shutdown
      <3>2. DOMAIN tools' = {} /\ tools' = [x \in DOMAIN tools' |-> tools'[x]]
        BY <3>1
      <3> QED  BY <2>1, <3>1, <3>2
    <2> QED  BY <2>2, <2>3
  <1>4. Types'
    BY <1>1, <1>3 DEF loop, LoopInv, Types
  <1>5. Phases'
    BY <1>1, <1>2 DEF loop, LoopInv, Phases
  <1>6. Executed'
    BY <1>1, <1>2 DEF loop, LoopInv, Executed, Before, NoLimit
  <1>7. Conversed'
    <2>1. pc = "connect" => Elems(asked) = {}
      BY <1>1 DEF Elems
    <2> QED  BY <1>1, <1>2, <2>1 DEF loop, LoopInv, Conversed, SerialKept
  <1>8. ToldSoFar' /\ ContextAnswered' /\ ToldIsAnswer'
    BY <1>1, <1>2 DEF loop, LoopInv, Concluded, ToldSoFar, ContextAnswered, ToldIsAnswer
  <1>9. RunIsAnswered'
    <2>1. pc = "done" => tools' = <<>>
      BY DEF Connect, Shutdown
    <2> QED  BY <1>1, <1>2, <2>1 DEF loop, LoopInv, Concluded, RunIsAnswered
  <1> QED  BY <1>4, <1>5, <1>6, <1>7, <1>8, <1>9 DEF LoopInv, Concluded

\* Every step of the loop preserves its inductive invariant.
LEMMA NextLoop == LoopInv /\ [Next]_vars => LoopInv'
  <1> SUFFICES ASSUME LoopInv, [Next]_vars PROVE LoopInv'
    OBVIOUS
  <1>1. CASE UNCHANGED vars
    <2>1. UNCHANGED <<Elems(run), Elems(todo), Elems(asked), Elems(left), Elems(answer), Rounds>>
      BY <1>1 DEF vars, Elems, Rounds
    <2>2. Types' /\ Phases' /\ Executed' /\ Conversed' /\ ToldSoFar'
      BY <1>1, <2>1, SMTT(40) DEF vars, LoopInv, Types, Phases, Executed, Before, NoLimit, Conversed, SerialKept, ToldSoFar
    <2>3. Concluded'
      BY <1>1, <2>1 DEF vars, LoopInv, Concluded, ContextAnswered, RunIsAnswered, ToldIsAnswer
    <2> QED  BY <2>2, <2>3 DEF LoopInv
  <1>2. CASE Connect \/ Shutdown
    BY <1>2, ToolsKeep
  <1>3. CASE PrepareResponse \/ PrepareChat
    BY <1>3, PrepareKeeps
  <1>4. CASE Generate
    <2>1. PICK o \in Outputs :
            ResponseRound(o) \/ StreamRound(o) \/ ChatRound(o) \/ ChatStreamRound(o) \/ LastRound(o)
      BY <1>4 DEF Generate
    <2> QED  BY <2>1, ResponseRoundKeeps, StreamRoundKeeps, ChatRoundKeeps, ChatStreamRoundKeeps,
                LastRoundKeeps
  <1>5. CASE RunCall
    BY <1>5, RunCallKeeps
  <1>6. CASE ResponseRoundOver \/ ChatRoundOver
    BY <1>6, RoundOverKeeps
  <1>7. CASE Fails
    BY <1>7, FailsKeeps
  <1> QED  BY <1>1, <1>2, <1>3, <1>4, <1>5, <1>6, <1>7 DEF Next

\* The inductive invariant holds throughout.
LEMMA LoopInvariant == Spec => []LoopInv
  <1>1. Init => LoopInv
    BY InitLoop
  <1>2. LoopInv /\ [Next]_vars => LoopInv'
    BY NextLoop
  <1> QED  BY <1>1, <1>2, PTL DEF Spec

-----------------------------------------------------------------------------
(* The limits of settings and request. *)

\* What the limits follow from.
LEMMA InvLimits == LoopInv => LimitsKept
  <1> SUFFICES ASSUME LoopInv PROVE LimitsKept
    OBVIOUS
  <1>1. /\ asked \in Seq(Call) /\ run \in Seq(Call) /\ todo \in Seq(Call) /\ left \in Seq(Call)
        /\ told \in Seq(Call) /\ answer \in Seq(Call)
    BY DEF LoopInv, Types
  <1>2. TypeOK
    <2>1. \A s \in {asked, run, todo, left, told, answer} : Elems(s) \subseteq Call
      BY <1>1, ElemsOf
    <2> QED  BY <2>1 DEF LoopInv, Types, TypeOK
  <1>3. BudgetKept
    <2>1. req.budget \in Int /\ Len(run) \in Nat /\ Len(todo) \in Nat
      BY <1>1, ToolLoopAssumption, LenProperties DEF LoopInv, Types, Requests, NoLimit
    <2> QED  BY <2>1 DEF LoopInv, Executed, BudgetKept
  <1>4. RoundsKept
    <2> DEFINE had == {c.round : c \in Elems(run)}
    <2>1. Rounds \in Nat
      BY ToolLoopAssumption DEF Rounds
    <2>2. had \subseteq 1..Rounds
      <3>1. \A c \in Elems(run) : c \in Call /\ c.round <= Rounds
        BY <1>1, ElemsOf DEF LoopInv, Executed
      <3>2. \A c \in Call : c.round \in Nat /\ c.round >= 1
        BY ToolLoopAssumption DEF Call
      <3>3. \A c \in Elems(run) : c.round \in 1..Rounds
        BY <2>1, <3>1, <3>2
      <3> QED  BY <3>3
    <2>3. IsFiniteSet(1..Rounds) /\ Cardinality(1..Rounds) = Rounds
      <3>1. 1 \in Int /\ Rounds \in Int
        BY <2>1
      <3>2. /\ IsFiniteSet(1..Rounds)
            /\ Cardinality(1..Rounds) = IF 1 > Rounds THEN 0 ELSE Rounds - 1 + 1
        BY <3>1, FS_Interval, Zenon
      <3> QED  BY <2>1, <3>2
    <2>4. Cardinality(had) <= Rounds
      BY <2>2, <2>3, FS_Subset
    <2> QED  BY <2>4 DEF RoundsKept, Rounds
  <1>5. SerialKept
    BY DEF LoopInv, Conversed
  <1> QED  BY <1>2, <1>3, <1>4, <1>5 DEF LimitsKept

\* In every request served with the servers' tools the limits of settings and request hold
\* together: max_tool_calls over all rounds of a response, max_tool_rounds, and one call a
\* message with parallel_tool_calls off, whatever the model calls and whichever runs out
\* first.
THEOREM LoopLimits == Spec => []LimitsKept
  BY LoopInvariant, InvLimits, PTL

-----------------------------------------------------------------------------
(* Calls and their results. *)

\* What the answers of the calls follow from.
LEMMA InvCalls == LoopInv => CallsAnswered
  <1> SUFFICES ASSUME LoopInv PROVE CallsAnswered
    OBVIOUS
  <1>1. asked \in Seq(Call) /\ run \in Seq(Call) /\ DOMAIN run = 1..Len(run)
    BY LenProperties DEF LoopInv, Types
  <1>2. ResultsAreRead
    <2>1. Elems(Mcp(asked)) = {c \in Elems(asked) : c.name \in DOMAIN tools}
      <3>1. PICK S : S = {c \in Elems(asked) : c.name \in DOMAIN tools}
        OBVIOUS
      <3>2. Elems(Among(asked, S)) = {c \in Elems(asked) : c \in S}
        BY <1>1, AmongSelects
      <3> QED  BY <3>1, <3>2 DEF Mcp
    <2>2. pc \in {"ask", "final"} => Elems(todo) = {} /\ Elems(left) = {}
      BY DEF LoopInv, Phases, Elems
    <2> QED  BY <2>1, <2>2 DEF LoopInv, Conversed, ResultsAreRead
  <1>3. RunOnce
    BY <1>1 DEF LoopInv, Executed, Before, RunOnce
  <1> QED  BY <1>2, <1>3 DEF LoopInv, Concluded, CallsAnswered

\* Every call is accounted for: run once and in order if it is the server's, its result read
\* by the next generation and stored with the conversation, and itself listed in the answer,
\* through any number of rounds and with calls of the client's mixed in.
THEOREM LoopAnswers == Spec => []CallsAnswered
  BY LoopInvariant, InvCalls, PTL

\* What a finished streamed response lists as its output was told last and in that order, in
\* the rounds of the loop or after it.
THEOREM LoopTells == Spec => []ToldIsAnswer
  <1>1. LoopInv => ToldIsAnswer
    BY DEF LoopInv, Concluded
  <1> QED  BY <1>1, LoopInvariant, PTL

-----------------------------------------------------------------------------
(* The content of a sequence of chunks. *)

\* A set of natural numbers that has an element has a least one.
LEMMA LeastExists ==
  ASSUME NEW S, S \subseteq Nat, S # {}
  PROVE  \E c \in S : \A d \in S : c <= d
  <1> DEFINE R == {ss \in Nat \X Nat : ss[1] < ss[2]}
  <1>1. IsWellFoundedOn(R, Nat)
    BY NatLessThanWellFounded DEF OpToRel
  <1>2. PICK c \in S : \A d \in S : ~(<<d, c>> \in R)
    <2> HIDE DEF R
    <2> QED  BY <1>1, WFMin
  <1>3. ASSUME NEW d \in S PROVE c <= d
    <2>1. ~(d < c) /\ d \in Nat /\ c \in Nat
      BY <1>2, <1>3
    <2> QED  BY <2>1
  <1> QED  BY <1>3

Pieces == {"w", "m", "b"}
ChunkKinds == {"role", "content", "call", "finish", "finishCalls", "error", "usage", "done"}
ChunkSet ==
  [choice : Indices \cup {0} \cup {Total(f) : f \in [Indices -> Nat]}, kind : ChunkKinds,
   pieces : Seq(Pieces)]

PartOf(x, c) == IF x.choice = c /\ x.kind = "content" THEN x.pieces ELSE <<>>

\* f adds up the content of choice c in s.
Adds(f, s, c, n) ==
  /\ f \in [0..n -> Seq(Pieces)] /\ f[0] = <<>>
  /\ \A i \in 1..n : f[i] = f[i - 1] \o PartOf(s[i], c)

\* The function ContentIn is defined by exists, and there is only one.
LEMMA ContentAddsUp ==
  ASSUME NEW s \in Seq(ChunkSet), NEW c
  PROVE  \E f : Adds(f, s, c, Len(s)) /\ ContentIn(s, c) = f[Len(s)]
  <1>1. /\ Len(s) \in Nat
        /\ \A i \in 1..Len(s) : s[i] \in ChunkSet /\ PartOf(s[i], c) \in Seq(Pieces)
    <2>1. \A x \in ChunkSet : x.pieces \in Seq(Pieces)
      BY DEF ChunkSet
    <2>2. <<>> \in Seq(Pieces)
      OBVIOUS
    <2> QED  BY <2>1, <2>2, LenProperties, ElementOfSeq DEF PartOf
  <1>2. \A n \in 0..Len(s) : \E f : Adds(f, s, c, n)
    <2> DEFINE S == {n \in 0..Len(s) : ~ \E f : Adds(f, s, c, n)}
    <2> SUFFICES ASSUME S # {} PROVE FALSE
      OBVIOUS
    <2>1. S \subseteq Nat
      BY <1>1
    <2> HIDE DEF S
    <2>2. PICK n \in S : \A m \in S : n <= m
      BY <2>1, LeastExists
    <2>3. n \in 0..Len(s) /\ ~ \E f : Adds(f, s, c, n)
      BY <2>2 DEF S
    <2>4. CASE n = 0
      <3>1. Adds([i \in 0..0 |-> <<>>], s, c, 0)
        BY DEF Adds
      <3> QED  BY <2>3, <2>4, <3>1
    <2>5. CASE n # 0
      <3>1. n - 1 \in 0..Len(s) /\ n - 1 \notin S /\ n \in 1..Len(s)
        BY <1>1, <2>2, <2>3, <2>5
      <3>2. PICK f : Adds(f, s, c, n - 1)
        BY <3>1 DEF S
      <3>3. PICK g : g = [i \in 0..n |-> IF i = n THEN f[n - 1] \o PartOf(s[n], c) ELSE f[i]]
        OBVIOUS
      <3>4. f[n - 1] \o PartOf(s[n], c) \in Seq(Pieces)
        <4>1. f[n - 1] \in Seq(Pieces) /\ PartOf(s[n], c) \in Seq(Pieces)
          BY <1>1, <3>1, <3>2 DEF Adds
        <4> QED  BY <4>1
      <3>5. \A i \in 0..n - 1 : i \in 0..n /\ i # n /\ f[i] \in Seq(Pieces)
        BY <1>1, <3>1, <3>2 DEF Adds
      <3>6. /\ n \in 0..n /\ 0 \in 0..n - 1
            /\ \A i \in 0..n : i = n \/ i \in 0..n - 1
        BY <1>1, <3>1
      <3>7. g[n] = f[n - 1] \o PartOf(s[n], c)
        <4> HIDE DEF Adds, PartOf
        <4> QED  BY <3>3, <3>6, Zenon
      <3>8. \A i \in 0..n - 1 : g[i] = f[i]
        BY <3>3, <3>5, Zenon
      <3>9. g \in [0..n -> Seq(Pieces)]
        <4>1. \A i \in 0..n : g[i] \in Seq(Pieces)
          BY <3>4, <3>5, <3>6, <3>7, <3>8, Zenon
        <4>2. g = [i \in 0..n |-> g[i]]
          BY <3>3, Zenon
        <4> QED  BY <4>1, <4>2, Zenon
      <3>10. g[0] = <<>>
        BY <3>2, <3>6, <3>8, Zenon DEF Adds
      <3>11. ASSUME NEW i \in 1..n PROVE g[i] = g[i - 1] \o PartOf(s[i], c)
        <4>1. i - 1 \in 0..n - 1
          BY <1>1, <3>1
        <4>2. g[i - 1] = f[i - 1]
          BY <3>8, <4>1
        <4>3. CASE i = n
          BY <3>7, <4>2, <4>3
        <4>4. CASE i # n
          <5>1. i \in 1..n - 1 /\ i \in 0..n - 1
            BY <1>1, <3>1, <4>4
          <5>2. f[i] = f[i - 1] \o PartOf(s[i], c)
            BY <3>2, <5>1 DEF Adds
          <5>3. g[i] = f[i]
            BY <3>8, <5>1
          <5> QED  BY <4>2, <5>2, <5>3
        <4> QED  BY <4>3, <4>4
      <3>12. Adds(g, s, c, n)
        BY <3>9, <3>10, <3>11 DEF Adds
      <3> QED  BY <2>3, <3>12
    <2> QED  BY <2>4, <2>5
  <1>3. PICK f : Adds(f, s, c, Len(s))
    BY <1>1, <1>2
  <1> DEFINE Sums(u) == u = [i \in 0..Len(s) |->
                IF i = 0 THEN <<>>
                ELSE u[i - 1] \o IF s[i].choice = c /\ s[i].kind = "content" THEN s[i].pieces ELSE <<>>]
             upTo == CHOOSE u : Sums(u)
  <1>4. Sums(f)
    <2>1. f = [i \in 0..Len(s) |-> f[i]]
      BY <1>3 DEF Adds
    <2>2. \A i \in 0..Len(s) :
             f[i] = IF i = 0 THEN <<>>
                    ELSE f[i - 1] \o IF s[i].choice = c /\ s[i].kind = "content" THEN s[i].pieces ELSE <<>>
      BY <1>1, <1>3 DEF Adds, PartOf
    <2> QED  BY <2>1, <2>2
  <1>5. Sums(upTo)
    <2> HIDE DEF Sums
    <2> QED  BY <1>4
  <1>6. ContentIn(s, c) = upTo[Len(s)]
    BY DEF ContentIn
  <1> HIDE DEF upTo
  <1>7. \A i \in 0..Len(s) : upTo[i] = f[i]
    <2> DEFINE S == {i \in 0..Len(s) : upTo[i] # f[i]}
    <2> SUFFICES ASSUME S # {} PROVE FALSE
      OBVIOUS
    <2>1. S \subseteq Nat
      BY <1>1
    <2> HIDE DEF S
    <2>2. PICK i \in S : \A j \in S : i <= j
      BY <2>1, LeastExists
    <2>3. i \in 0..Len(s) /\ upTo[i] # f[i]
      BY <2>2 DEF S
    <2>4. i # 0
      BY <1>3, <1>5, <2>3, Zenon DEF Adds
    <2>5. i - 1 \in 0..Len(s) /\ i - 1 \notin S /\ i \in 1..Len(s)
      BY <1>1, <2>2, <2>3, <2>4
    <2>6. upTo[i - 1] = f[i - 1]
      BY <2>5 DEF S
    <2>7. upTo[i] = upTo[i - 1] \o PartOf(s[i], c)
      BY <1>5, <2>3, <2>4, Zenon DEF PartOf
    <2> QED  BY <1>3, <2>3, <2>5, <2>6, <2>7 DEF Adds
  <1> QED  BY <1>1, <1>3, <1>6, <1>7

\* What adds up the content of the same chunks is the same.
LEMMA AddsAgree ==
  ASSUME NEW t, NEW c, NEW f, NEW h, NEW n \in Nat,
         Adds(f, t, c, n), Adds(h, t, c, n + 1)
  PROVE  f[n] = h[n]
  <1> DEFINE S == {i \in 0..n : f[i] # h[i]}
  <1> SUFFICES ASSUME S # {} PROVE FALSE
    <2>1. n \in 0..n
      OBVIOUS
    <2> QED  BY <2>1
  <1>1. S \subseteq Nat
    OBVIOUS
  <1> HIDE DEF S
  <1>2. PICK i \in S : \A j \in S : i <= j
    BY <1>1, LeastExists
  <1>3. i \in 0..n /\ f[i] # h[i]
    BY <1>2 DEF S
  <1>4. i # 0
    BY <1>3 DEF Adds
  <1>5. i - 1 \in 0..n /\ i - 1 \notin S /\ i \in 1..n /\ i \in 1..n + 1
    BY <1>2, <1>3, <1>4
  <1>6. f[i - 1] = h[i - 1]
    BY <1>5 DEF S
  <1>7. f[i] = f[i - 1] \o PartOf(t[i], c) /\ h[i] = h[i - 1] \o PartOf(t[i], c)
    BY <1>5 DEF Adds
  <1> QED  BY <1>3, <1>5, <1>6, <1>7

\* What a chunk has of the content of a choice is a sequence of pieces.
LEMMA PartSequence ==
  ASSUME NEW x \in ChunkSet, NEW c
  PROVE  PartOf(x, c) \in Seq(Pieces)
  <1>1. x.pieces \in Seq(Pieces)
    BY DEF ChunkSet
  <1>2. <<>> \in Seq(Pieces)
    OBVIOUS
  <1> QED  BY <1>1, <1>2 DEF PartOf

\* So is the content of a sequence of chunks.
LEMMA ContentSequence ==
  ASSUME NEW s \in Seq(ChunkSet), NEW c
  PROVE  ContentIn(s, c) \in Seq(Pieces)
  <1>1. PICK f : Adds(f, s, c, Len(s)) /\ ContentIn(s, c) = f[Len(s)]
    BY ContentAddsUp
  <1>2. Len(s) \in 0..Len(s)
    BY LenProperties
  <1> QED  BY <1>1, <1>2 DEF Adds

\* One more chunk adds its pieces to the content of its choice.
LEMMA ContentAppend ==
  ASSUME NEW s \in Seq(ChunkSet), NEW x \in ChunkSet, NEW c
  PROVE  ContentIn(Append(s, x), c) = ContentIn(s, c) \o PartOf(x, c)
  <1> DEFINE t == Append(s, x)
             n == Len(s)
  <1>1. /\ n \in Nat /\ t \in Seq(ChunkSet) /\ Len(t) = n + 1 /\ t[n + 1] = x
        /\ \A i \in 1..n : s[i] = t[i]
    BY LenProperties
  <1>2. PICK f : Adds(f, s, c, n) /\ ContentIn(s, c) = f[n]
    BY ContentAddsUp
  <1> HIDE DEF t
  <1>3. PICK h : Adds(h, t, c, n + 1) /\ ContentIn(t, c) = h[n + 1]
    BY <1>1, ContentAddsUp
  <1> HIDE DEF n
  <1>4. f[n] = h[n]
    <2>1. Adds(f, t, c, n)
      BY <1>1, <1>2 DEF Adds
    <2>2. n \in Nat
      BY <1>1
    <2> HIDE DEF Adds
    <2> QED  BY <1>3, <2>1, <2>2, AddsAgree
  <1>5. h[n + 1] = h[n] \o PartOf(x, c)
    <2>1. n + 1 \in 1..n + 1 /\ (n + 1) - 1 = n
      BY <1>1
    <2> QED  BY <1>1, <1>3, <2>1 DEF Adds
  <1> QED  BY <1>2, <1>3, <1>4, <1>5 DEF t

\* Chunks of other kinds add nothing.
LEMMA ContentNone ==
  ASSUME NEW s \in Seq(ChunkSet), NEW c, \A i \in 1..Len(s) : PartOf(s[i], c) = <<>>
  PROVE  ContentIn(s, c) = <<>>
  <1>1. PICK f : Adds(f, s, c, Len(s)) /\ ContentIn(s, c) = f[Len(s)]
    BY ContentAddsUp
  <1> DEFINE S == {i \in 0..Len(s) : f[i] # <<>>}
  <1> SUFFICES ASSUME S # {} PROVE FALSE
    <2>1. Len(s) \in 0..Len(s)
      BY LenProperties
    <2> QED  BY <1>1, <2>1
  <1>2. S \subseteq Nat /\ Len(s) \in Nat
    BY LenProperties
  <1> HIDE DEF S
  <1>3. PICK i \in S : \A j \in S : i <= j
    BY <1>2, LeastExists
  <1>4. i \in 0..Len(s) /\ f[i] # <<>>
    BY <1>3 DEF S
  <1>5. i # 0
    BY <1>1, <1>4 DEF Adds
  <1>6. i - 1 \in 0..Len(s) /\ i - 1 \notin S /\ i \in 1..Len(s)
    BY <1>2, <1>3, <1>4, <1>5
  <1>7. f[i - 1] = <<>>
    BY <1>6 DEF S
  <1>8. f[i] = f[i - 1] \o PartOf(s[i], c)
    BY <1>1, <1>6 DEF Adds
  <1>9. f[i] = <<>> \o <<>>
    BY <1>6, <1>7, <1>8
  <1> QED  BY <1>4, <1>9

\* The contents of two sequences told one after the other are put together.
LEMMA ContentConcat ==
  ASSUME NEW s \in Seq(ChunkSet), NEW more \in Seq(ChunkSet), NEW c
  PROVE  ContentIn(s \o more, c) = ContentIn(s, c) \o ContentIn(more, c)
  <1> DEFINE part(k) == SubSeq(more, 1, k)
             S == {k \in 0..Len(more) : ContentIn(s \o part(k), c) # ContentIn(s, c) \o ContentIn(part(k), c)}
  <1>1. Len(more) \in Nat /\ part(Len(more)) = more
    BY LenProperties
  <1>2. Len(more) \notin S => ContentIn(s \o more, c) = ContentIn(s, c) \o ContentIn(more, c)
    <2>1. Len(more) \in 0..Len(more)
      BY <1>1
    <2>2. Len(more) \notin S =>
            ContentIn(s \o part(Len(more)), c) = ContentIn(s, c) \o ContentIn(part(Len(more)), c)
      <3> HIDE DEF part
      <3> QED  BY <2>1, Zenon
    <2> HIDE DEF part, S
    <2> QED  BY <1>1, <2>2
  <1> SUFFICES ASSUME S # {} PROVE FALSE
    BY <1>2
  <1>3. S \subseteq Nat
    BY <1>1
  <1> HIDE DEF S
  <1>4. PICK k \in S : \A j \in S : k <= j
    BY <1>3, LeastExists
  <1>5. k \in 0..Len(more)
    BY <1>4 DEF S
  <1>6. k # 0
    <2>1. part(0) = <<>>
      BY <1>1
    <2>2. s \o <<>> = s
      OBVIOUS
    <2>3. <<>> \in Seq(ChunkSet)
      OBVIOUS
    <2>4. ContentIn(<<>>, c) = <<>>
      <3>1. \A i \in 1..Len(<<>>) : PartOf(<<>>[i], c) = <<>>
        OBVIOUS
      <3> QED  BY <2>3, <3>1, ContentNone
    <2>5. ContentIn(s, c) \o <<>> = ContentIn(s, c)
      BY ContentSequence
    <2> HIDE DEF part
    <2> QED  BY <1>4, <2>1, <2>2, <2>4, <2>5 DEF S
  <1> DEFINE before == part(k - 1)
             x == more[k]
  <1>7. /\ k - 1 \in 0..Len(more) /\ k - 1 \notin S /\ k \in 1..Len(more)
        /\ before \in Seq(ChunkSet) /\ x \in ChunkSet
    <2>1. k - 1 \in 0..Len(more) /\ k \in 1..Len(more) /\ k - 1 < k
      BY <1>1, <1>5, <1>6
    <2>2. k - 1 \notin S
      BY <1>1, <1>4, <1>5, <2>1
    <2> QED  BY <1>1, <2>1, <2>2, ElementOfSeq
  <1>8. part(k) = Append(before, x)
    BY <1>1, <1>7
  <1>9. ContentIn(s \o before, c) = ContentIn(s, c) \o ContentIn(before, c)
    BY <1>7 DEF S
  <1>10. s \o part(k) = Append(s \o before, x)
    <2> HIDE DEF part, x
    <2> QED  BY <1>7, <1>8, SMTT(40)
  <1> HIDE DEF part
  <1>11. s \o before \in Seq(ChunkSet)
    BY <1>7
  <1>12. ContentIn(Append(s \o before, x), c) = ContentIn(s \o before, c) \o PartOf(x, c)
    BY <1>7, <1>11, ContentAppend
  <1>13. ContentIn(Append(before, x), c) = ContentIn(before, c) \o PartOf(x, c)
    BY <1>7, ContentAppend
  <1>14. /\ ContentIn(s, c) \in Seq(Pieces) /\ ContentIn(before, c) \in Seq(Pieces)
         /\ PartOf(x, c) \in Seq(Pieces)
    BY <1>7, ContentSequence, PartSequence
  <1>15. (ContentIn(s, c) \o ContentIn(before, c)) \o PartOf(x, c)
           = ContentIn(s, c) \o (ContentIn(before, c) \o PartOf(x, c))
    BY <1>14
  <1>16. ContentIn(s \o part(k), c) = ContentIn(s, c) \o ContentIn(part(k), c)
    BY <1>8, <1>9, <1>10, <1>12, <1>13, <1>15
  <1> QED  BY <1>4, <1>16 DEF S

\* A chunk of this choice and kind is among them.
Told(s, c, k) == \E i \in DOMAIN s : s[i].choice = c /\ s[i].kind = k

\* In s nothing but the usage follows the finish of a choice.
FinishLast(s) ==
  \A c \in Indices : \A i, j \in DOMAIN s :
    s[i].choice = c /\ s[i].kind \in Finishes /\ i < j /\ s[j].choice = c => s[j].kind = "usage"

\* The empty sequence of chunks tells nothing.
LEMMA NoChunk ==
  /\ <<>> \in Seq(ChunkSet) /\ FinishLast(<<>>)
  /\ \A c : ContentIn(<<>>, c) = <<>> /\ \A k : ~Told(<<>>, c, k)
  <1>1. <<>> \in Seq(ChunkSet) /\ Len(<<>>) = 0 /\ DOMAIN <<>> = {}
    OBVIOUS
  <1>2. ASSUME NEW c PROVE ContentIn(<<>>, c) = <<>>
    <2>1. \A i \in 1..Len(<<>>) : PartOf(<<>>[i], c) = <<>>
      BY <1>1
    <2> QED  BY <1>1, <2>1, ContentNone
  <1> QED  BY <1>1, <1>2 DEF FinishLast, Told

\* What a single chunk tells of each choice.
LEMMA OneChunk ==
  ASSUME NEW d \in Indices \cup {0} \cup {Total(f) : f \in [Indices -> Nat]}, NEW k \in ChunkKinds,
         NEW p \in Seq(Pieces)
  PROVE  LET s == <<Chunk(d, k, p)>> IN
         /\ s \in Seq(ChunkSet) /\ FinishLast(s)
         /\ \A c : /\ ContentIn(s, c) = IF d = c /\ k = "content" THEN p ELSE <<>>
                   /\ \A l : Told(s, c, l) <=> d = c /\ k = l
  <1> DEFINE x == Chunk(d, k, p)
  <1>1. x \in ChunkSet /\ x.choice = d /\ x.kind = k /\ x.pieces = p
    BY DEF Chunk, ChunkSet
  <1> HIDE DEF x
  <1> DEFINE s == <<x>>
  <1>2. s \in Seq(ChunkSet) /\ DOMAIN s = {1} /\ s[1] = x /\ s = Append(<<>>, x)
    BY <1>1
  <1> HIDE DEF s
  <1>3. FinishLast(s)
    BY <1>2 DEF FinishLast
  <1>4. ASSUME NEW c PROVE ContentIn(s, c) = IF d = c /\ k = "content" THEN p ELSE <<>>
    <2>0. PICK none : none = <<>> /\ none \in Seq(ChunkSet)
      BY NoChunk
    <2>1. ContentIn(s, c) = ContentIn(<<>>, c) \o PartOf(x, c)
      <3>1. s = Append(none, x)
        BY <1>2, <2>0
      <3>2. ContentIn(Append(none, x), c) = ContentIn(none, c) \o PartOf(x, c)
        BY <1>1, <2>0, ContentAppend
      <3> QED  BY <2>0, <3>1, <3>2
    <2>2. PartOf(x, c) = IF d = c /\ k = "content" THEN p ELSE <<>>
      BY <1>1 DEF PartOf
    <2>3. ContentIn(<<>>, c) = <<>> /\ PartOf(x, c) \in Seq(Pieces)
      BY <1>1, NoChunk, PartSequence
    <2>4. <<>> \o PartOf(x, c) = PartOf(x, c)
      BY <2>3
    <2> QED  BY <2>1, <2>2, <2>3, <2>4
  <1>5. \A c, l : Told(s, c, l) <=> d = c /\ k = l
    BY <1>1, <1>2 DEF Told
  <1> QED  BY <1>2, <1>3, <1>4, <1>5 DEF s, x

\* What two sequences of chunks tell when one is told after the other.
LEMMA TwoTold ==
  ASSUME NEW s \in Seq(ChunkSet), NEW more \in Seq(ChunkSet)
  PROVE  /\ s \o more \in Seq(ChunkSet)
         /\ \A c, k : Told(s \o more, c, k) <=> Told(s, c, k) \/ Told(more, c, k)
         /\ \A c : ContentIn(s \o more, c) = ContentIn(s, c) \o ContentIn(more, c)
         /\ \A c : ContentIn(s, c) \o <<>> = ContentIn(s, c)
         /\ \A c : <<>> \o ContentIn(more, c) = ContentIn(more, c)
         /\ /\ FinishLast(s) /\ FinishLast(more)
            /\ \A c \in Indices, k \in ChunkKinds :
                 (\E l \in Finishes : Told(s, c, l)) /\ Told(more, c, k) => k = "usage"
            => FinishLast(s \o more)
  <1> DEFINE t == s \o more
             n == Len(s)
             m == Len(more)
  <1>1. /\ n \in Nat /\ m \in Nat /\ t \in Seq(ChunkSet) /\ Len(t) = n + m
        /\ DOMAIN t = 1..n + m /\ DOMAIN s = 1..n /\ DOMAIN more = 1..m
        /\ \A i \in 1..n : t[i] = s[i]
        /\ \A i \in 1..m : t[n + i] = more[i]
    BY LenProperties
  <1>2. \A i \in DOMAIN t : i \in 1..n \/ (i - n \in 1..m /\ i = n + (i - n))
    BY <1>1
  <1>3. \A i \in 1..n : i \in DOMAIN t
    BY <1>1
  <1>4. \A i \in 1..m : n + i \in DOMAIN t
    BY <1>1
  <1>5. \A i \in DOMAIN more : more[i].kind \in ChunkKinds
    <2>1. \A i \in DOMAIN more : more[i] \in ChunkSet
      BY <1>1, ElementOfSeq
    <2> QED  BY <2>1 DEF ChunkSet
  <1> HIDE DEF t, n, m
  <1>6. ASSUME NEW c, NEW k PROVE Told(t, c, k) <=> Told(s, c, k) \/ Told(more, c, k)
    <2>1. ASSUME NEW i \in DOMAIN t, t[i].choice = c /\ t[i].kind = k
          PROVE  Told(s, c, k) \/ Told(more, c, k)
      <3>1. CASE i \in 1..n
        BY <1>1, <2>1, <3>1 DEF Told
      <3>2. CASE i - n \in 1..m /\ i = n + (i - n)
        BY <1>1, <2>1, <3>2 DEF Told
      <3> QED  BY <1>2, <3>1, <3>2
    <2>2. Told(s, c, k) => Told(t, c, k)
      BY <1>1, <1>3 DEF Told
    <2>3. Told(more, c, k) => Told(t, c, k)
      BY <1>1, <1>4 DEF Told
    <2> QED  BY <2>1, <2>2, <2>3 DEF Told
  <1>7. \A c : ContentIn(t, c) = ContentIn(s, c) \o ContentIn(more, c)
    BY ContentConcat DEF t
  <1>8. \A c : /\ ContentIn(s, c) \o <<>> = ContentIn(s, c)
               /\ <<>> \o ContentIn(more, c) = ContentIn(more, c)
    BY ContentSequence
  <1>9. ASSUME FinishLast(s), FinishLast(more),
               \A c \in Indices, k \in ChunkKinds :
                 (\E l \in Finishes : Told(s, c, l)) /\ Told(more, c, k) => k = "usage"
        PROVE  FinishLast(t)
    <2> SUFFICES ASSUME NEW c \in Indices, NEW i \in DOMAIN t, NEW j \in DOMAIN t,
                        t[i].choice = c, t[i].kind \in Finishes, i < j, t[j].choice = c
                 PROVE  t[j].kind = "usage"
      BY DEF FinishLast
    <2>1. CASE j \in 1..n
      <3>1. i \in 1..n
        BY <1>1, <1>2, <2>1
      <3> QED  BY <1>1, <1>9, <2>1, <3>1 DEF FinishLast
    <2>2. CASE i \in 1..n /\ j - n \in 1..m /\ j = n + (j - n)
      <3>1. t[i] = s[i] /\ t[j] = more[j - n]
        BY <1>1, <2>2
      <3>2. Told(s, c, t[i].kind) /\ Told(more, c, t[j].kind) /\ t[j].kind \in ChunkKinds
        BY <1>1, <1>5, <2>2, <3>1 DEF Told
      <3> QED  BY <1>9, <3>2
    <2>3. CASE i - n \in 1..m /\ i = n + (i - n) /\ j - n \in 1..m /\ j = n + (j - n)
      <3>1. t[i] = more[i - n] /\ t[j] = more[j - n] /\ i - n < j - n
        BY <1>1, <2>3
      <3> QED  BY <1>1, <1>9, <2>3, <3>1 DEF FinishLast
    <2> QED  BY <1>2, <2>1, <2>2, <2>3
  <1> QED  BY <1>1, <1>6, <1>7, <1>8, <1>9 DEF t

\* In s a sentinel or an error is the last chunk.
EndLast(s) == \A i \in DOMAIN s : s[i].kind \in {"done", "error"} => i = Len(s)

\* Chunks without an end are in the right order.
LEMMA NotEnded ==
  ASSUME NEW s \in Seq(ChunkSet), \A c : ~Told(s, c, "done") /\ ~Told(s, c, "error")
  PROVE  EndLast(s)
  BY DEF EndLast, Told

\* They still are with one chunk more, which may end them.
LEMMA EndedNow ==
  ASSUME NEW s \in Seq(ChunkSet), \A c : ~Told(s, c, "done") /\ ~Told(s, c, "error"),
         NEW x \in ChunkSet
  PROVE  EndLast(s \o <<x>>)
  <1> DEFINE t == s \o <<x>>
             n == Len(s)
  <1>1. /\ n \in Nat /\ Len(t) = n + 1 /\ DOMAIN t = 1..n + 1 /\ DOMAIN s = 1..n
        /\ \A i \in 1..n : t[i] = s[i]
    BY LenProperties
  <1> HIDE DEF t, n
  <1> SUFFICES ASSUME NEW i \in DOMAIN t, t[i].kind \in {"done", "error"}
               PROVE  i = Len(t)
    BY DEF EndLast, t
  <1>2. i \notin 1..n
    <2>1. ASSUME i \in 1..n PROVE FALSE
      <3>1. Told(s, s[i].choice, s[i].kind) /\ s[i] = t[i]
        BY <1>1, <2>1 DEF Told
      <3> QED  BY <3>1
    <2> QED  BY <2>1
  <1> QED  BY <1>1, <1>2

-----------------------------------------------------------------------------
(* Texts that grow, and the blanks they begin with. *)

\* Text grows at its end: how it begins stays, once it is not blank.
LEMMA GrownText ==
  ASSUME NEW old \in Seq(Pieces), NEW piece \in Seq(Pieces)
  PROVE  /\ old \o piece \in Seq(Pieces)
         /\ Len(old) \in Nat /\ Len(old \o piece) \in Nat /\ Len(old) <= Len(old \o piece)
         /\ old \o <<>> = old /\ <<>> \o piece = piece
         /\ Blank(old \o piece) <=> Blank(old) /\ Blank(piece)
         /\ NoMarkup(old) /\ NoMarkup(piece) => NoMarkup(old \o piece)
         /\ ~Blank(old) => (LooksLikeCall(old \o piece) <=> LooksLikeCall(old))
  <1> DEFINE t == old \o piece
             n == Len(old)
             m == Len(piece)
  <1>1. /\ n \in Nat /\ m \in Nat /\ t \in Seq(Pieces) /\ Len(t) = n + m
        /\ DOMAIN t = 1..n + m /\ DOMAIN old = 1..n /\ DOMAIN piece = 1..m
        /\ \A i \in 1..n : t[i] = old[i]
        /\ \A i \in 1..m : t[n + i] = piece[i]
        /\ old \o <<>> = old /\ <<>> \o piece = piece
    BY LenProperties
  <1>2. \A i \in DOMAIN t : i \in 1..n \/ (i - n \in 1..m /\ i = n + (i - n))
    BY <1>1
  <1>3. /\ \A i \in 1..n : i \in DOMAIN t
        /\ \A i \in 1..m : n + i \in DOMAIN t
    BY <1>1
  <1> HIDE DEF t, n, m
  <1>4. Blank(t) <=> Blank(old) /\ Blank(piece)
    <2>1. ASSUME Blank(t) PROVE Blank(old) /\ Blank(piece)
      BY <1>1, <1>3, <2>1 DEF Blank
    <2>2. ASSUME Blank(old), Blank(piece) PROVE Blank(t)
      BY <1>1, <1>2, <2>2 DEF Blank
    <2> QED  BY <2>1, <2>2
  <1>5. NoMarkup(old) /\ NoMarkup(piece) => NoMarkup(t)
    BY <1>1, <1>2 DEF NoMarkup
  <1>6. ASSUME ~Blank(old) PROVE LooksLikeCall(t) <=> LooksLikeCall(old)
    <2>1. PICK k \in 1..n : old[k] # "b"
      BY <1>1, <1>6 DEF Blank
    <2>2. ASSUME LooksLikeCall(t) PROVE LooksLikeCall(old)
      <3>1. PICK i \in DOMAIN t : t[i] = "m" /\ \A j \in 1..i - 1 : t[j] = "b"
        BY <2>2 DEF LooksLikeCall
      <3>2. i \in 1..n
        <4>1. ASSUME i \notin 1..n PROVE FALSE
          <5>1. k \in 1..i - 1 /\ t[k] = old[k]
            BY <1>1, <2>1, <3>1, <4>1
          <5> QED  BY <2>1, <3>1, <5>1
        <4> QED  BY <4>1
      <3>3. old[i] = "m" /\ \A j \in 1..i - 1 : j \in 1..n /\ old[j] = t[j]
        BY <1>1, <3>1, <3>2
      <3> QED  BY <1>1, <3>1, <3>2, <3>3 DEF LooksLikeCall
    <2>3. ASSUME LooksLikeCall(old) PROVE LooksLikeCall(t)
      <3>1. PICK i \in 1..n : old[i] = "m" /\ \A j \in 1..i - 1 : old[j] = "b"
        BY <1>1, <2>3 DEF LooksLikeCall
      <3>2. i \in DOMAIN t /\ t[i] = "m" /\ \A j \in 1..i - 1 : j \in 1..n /\ old[j] = t[j]
        BY <1>1, <3>1
      <3> QED  BY <3>1, <3>2 DEF LooksLikeCall
    <2> QED  BY <2>2, <2>3
  <1> QED  BY <1>1, <1>4, <1>5, <1>6 DEF t, n

\* All of a text is all of it.
LEMMA AllTold ==
  ASSUME NEW t \in Seq(Pieces)
  PROVE  AllButBlanks(t, t)
  <1>1. Blanks(0) = <<>>
    BY DEF Blanks
  <1>2. t = <<>> \o t /\ 0 \in 0..Len(t)
    BY LenProperties
  <1> QED  BY <1>1, <1>2 DEF AllButBlanks

\* A blank text is lost when the first text after it is told alone.
LEMMA BlanksLost ==
  ASSUME NEW old \in Seq(Pieces), NEW piece \in Seq(Pieces), Blank(old), ~Blank(piece)
  PROVE  AllButBlanks(old \o piece, piece)
  <1>1. Len(old) \in 0..Len(old \o piece)
    BY LenProperties
  <1>2. old = Blanks(Len(old))
    <2>1. old = [i \in 1..Len(old) |-> old[i]] /\ \A i \in 1..Len(old) : old[i] = "b"
      BY LenProperties DEF Blank
    <2> QED  BY <2>1 DEF Blanks
  <1>3. old \o piece = Blanks(Len(old)) \o piece
    BY <1>2
  <1> QED  BY <1>1, <1>3 DEF AllButBlanks

\* What is told of a text that has grown has grown with it.
LEMMA ToldGrows ==
  ASSUME NEW old \in Seq(Pieces), NEW given \in Seq(Pieces), NEW piece \in Seq(Pieces),
         AllButBlanks(old, given)
  PROVE  AllButBlanks(old \o piece, given \o piece)
  <1>1. PICK n \in 0..Len(old) : old = Blanks(n) \o given /\ (n > 0 => ~Blank(given))
    BY DEF AllButBlanks
  <1>2. Blanks(n) \in Seq(Pieces)
    <2>1. n \in Nat /\ \A i \in 1..n : "b" \in Pieces
      BY <1>1, LenProperties DEF Pieces
    <2>2. Blanks(n) \in [1..n -> Pieces]
      BY <2>1 DEF Blanks
    <2> QED  BY <2>1, <2>2, SeqDef
  <1>3. (Blanks(n) \o given) \o piece = Blanks(n) \o (given \o piece)
    BY <1>2
  <1>4. n \in 0..Len(old \o piece)
    BY <1>1, GrownText
  <1>5. n > 0 => ~Blank(given \o piece)
    BY <1>1, GrownText
  <1>6. old \o piece = Blanks(n) \o (given \o piece)
    BY <1>1, <1>3
  <1> QED  BY <1>4, <1>5, <1>6 DEF AllButBlanks

\* A delivery is a sequence of pieces, and what is beside a call has no markup.
LEMMA DeltaPieces ==
  ASSUME NEW piece \in Deltas
  PROVE  /\ piece \in Seq(Pieces) /\ Beside(piece) \in Seq(Pieces) /\ NoMarkup(Beside(piece))
         /\ piece \in {<<"m">>, <<"w", "m">>} => ~Blank(piece)
  <1>1. /\ <<>> \in Seq(Pieces) /\ <<"w">> \in Seq(Pieces) /\ <<"m">> \in Seq(Pieces)
        /\ <<"b">> \in Seq(Pieces) /\ <<"b", "w">> \in Seq(Pieces) /\ <<"w", "m">> \in Seq(Pieces)
    BY DEF Pieces
  <1>2. NoMarkup(<<>>) /\ NoMarkup(<<"w">>)
    BY DEF NoMarkup
  <1>3. ~Blank(<<"m">>) /\ ~Blank(<<"w", "m">>)
    <2>1. 1 \in DOMAIN <<"m">> /\ <<"m">>[1] = "m" /\ 1 \in DOMAIN <<"w", "m">> /\ <<"w", "m">>[1] = "w"
      OBVIOUS
    <2> QED  BY <2>1 DEF Blank
  <1> QED  BY <1>1, <1>2, <1>3 DEF Deltas, Beside

\* Text that looks like a call is not blank.
LEMMA CallNotBlank ==
  ASSUME NEW t, LooksLikeCall(t)
  PROVE  ~Blank(t) /\ t # <<>>
  BY DEF LooksLikeCall, Blank

-----------------------------------------------------------------------------
(* The invariant of a stream of chunks. *)

StreamPhases == {"open", "stream", "close", "usage", "last", "done", "failed", "gone", "left"}
StreamKinds == {"none", "undecided", "text", "tool_calls"}

\* The choice has had its finish chunk: those of a text completion have it with the
\* engine's reason, the others in turn once the engine's stream is over.
Over(c) == Due(c) /\ (stream.form # "completion" => c < at)

ChunkTypes ==
  /\ stream \in Streams /\ phase \in StreamPhases
  /\ text \in [Indices -> Seq(Pieces)] /\ kind \in [Indices -> StreamKinds]
  /\ streamed \in [Indices -> BOOLEAN] /\ ended \in [Indices -> BOOLEAN]
  /\ semantic \subseteq Indices /\ parsed \subseteq Indices
  /\ counted \in [Indices -> Nat] /\ \A c \in Indices : counted[c] <= Len(text[c])
  /\ at \in 1..Cardinality(Indices) + 1 /\ chunks \in Seq(ChunkSet)
  /\ phase \in {"done", "failed", "gone"} => closed

\* Choices are closed one after the other, and all before the usage.
ChunkPhases ==
  /\ phase \in {"open", "stream"} => at = 1
  /\ stream.form = "completion" => at = 1 /\ phase # "close" /\ semantic = {}
  /\ phase = "open" => chunks = <<>> /\ \A c \in Indices : ~ended[c]
  /\ phase = "close" => at \in Indices
  /\ phase \in {"usage", "last", "done"} => \A c \in Indices : Due(c) => Over(c)

\* The chunks of the whole stream come when it is over.
ChunkEnds ==
  /\ phase \notin {"done", "failed"} => \A c : ~Told(chunks, c, "done") /\ ~Told(chunks, c, "error")
  /\ \A c : Told(chunks, c, "done") => phase = "done"
  /\ \A c : Told(chunks, c, "usage") => phase \in {"last", "done", "gone"} /\ c = Total(counted)
  /\ FinishLast(chunks) /\ EndLast(chunks)

\* Of a choice being generated: what has been told of it is what its kind lets be told,
\* and what is kept back is kept whole.
Unfinished(c) ==
  /\ Told(chunks, c, "call") <=> c \in semantic
  /\ kind[c] \in {"none", "undecided"} => Blank(text[c]) /\ Content(c) = <<>> /\ ~streamed[c]
  /\ kind[c] = "text" => /\ ~Blank(text[c]) /\ streamed[c] /\ ~(stream.tools /\ LooksLikeCall(text[c]))
                         /\ c \notin semantic => AllButBlanks(text[c], Content(c))
  /\ kind[c] = "tool_calls" => /\ ~streamed[c] /\ LooksLikeCall(text[c]) /\ NoMarkup(Content(c))
                               /\ c \notin semantic => Content(c) = <<>>

\* Of a finished choice: the reason it was given fits what was told of it.
ConcludedWith(c) ==
  /\ Told(chunks, c, "finish") => AllButBlanks(text[c], Content(c)) /\ ~Told(chunks, c, "call")
  /\ Told(chunks, c, "finishCalls") =>
       /\ Told(chunks, c, "call") \/ (stream.form = "collect" /\ c \in parsed \ semantic)
       /\ stream.tools /\ LooksLikeCall(text[c]) =>
            NoMarkup(Content(c)) /\ (c \notin semantic => Content(c) = <<>>)

Answered(c) ==
  /\ Over(c) <=> \E k \in Finishes : Told(chunks, c, k)
  /\ stream.form = "completion" =>
       Content(c) = text[c] /\ ~Told(chunks, c, "call") /\ ~Told(chunks, c, "finishCalls")
  /\ stream.form # "completion" => IF Over(c) THEN ConcludedWith(c) ELSE Unfinished(c)

Counted == semantic = {} => \A c \in Indices : counted[c] = Len(text[c])

ChunkInv == ChunkTypes /\ ChunkPhases /\ ChunkEnds /\ (\A c \in Indices : Answered(c)) /\ Counted

\* The indices are numbers, counted from one.
LEMMA IndicesAreNumbers ==
  /\ Cardinality(Indices) \in Nat /\ Indices = 1..Cardinality(Indices) /\ 1 \in Indices
  /\ Indices \subseteq Nat \ {0}
  <1>1. Cardinality(Indices) \in Nat
    BY ChatStreamAssumption, FS_CardinalityType
  <1> QED  BY <1>1, ChatStreamAssumption

\* The four properties follow.
LEMMA ChunkInvImplies ==
  ASSUME ChunkInv
  PROVE  StreamEndsOnce /\ ContentDelivered /\ CallsTold
  <1>1. ChunksTypeOK
    BY DEF ChunkInv, ChunkTypes, ChunksTypeOK, StreamPhases, StreamKinds
  <1>2. \A c, k : FinishedWith(c, k) <=> Told(chunks, c, k)
    BY DEF FinishedWith, Told
  <1>3. FinishOnce
    <2>1. FinishLast(chunks)
      BY DEF ChunkInv, ChunkEnds
    <2>2. ASSUME NEW c \in Indices, phase = "done", Due(c)
          PROVE  FinishedWith(c, "finish") \/ FinishedWith(c, "finishCalls")
      BY <1>2, <2>2 DEF ChunkInv, ChunkPhases, Answered, Finishes
    <2> QED  BY <2>1, <2>2 DEF FinishOnce, FinishLast
  <1>4. DoneIsLast
    <2>1. chunks \in Seq(ChunkSet) /\ EndLast(chunks) /\ \A c : Told(chunks, c, "done") => phase = "done"
      BY DEF ChunkInv, ChunkTypes, ChunkEnds
    <2>2. ASSUME NEW i \in DOMAIN chunks, chunks[i].kind = "done", NEW c \in Indices, Due(c)
          PROVE  \E j \in 1..i : chunks[j].choice = c /\ chunks[j].kind \in Finishes
      <3>1. phase = "done"
        BY <2>1, <2>2 DEF Told
      <3>2. PICK k \in Finishes : Told(chunks, c, k)
        BY <2>2, <3>1 DEF ChunkInv, ChunkPhases, Answered
      <3>3. PICK j \in DOMAIN chunks : chunks[j].choice = c /\ chunks[j].kind = k
        BY <3>2 DEF Told
      <3>4. i = Len(chunks) /\ j \in 1..Len(chunks)
        BY <2>1, <2>2, LenProperties DEF EndLast
      <3> QED  BY <3>2, <3>3, <3>4
    <2> QED  BY <2>1, <2>2 DEF EndLast, DoneIsLast
  <1>5. UsageIsTrue
    <2> SUFFICES ASSUME NEW i \in DOMAIN chunks, chunks[i].kind = "usage", semantic = {}
                 PROVE  chunks[i].choice = Total([c \in Indices |-> Len(text[c])])
      BY DEF UsageIsTrue
    <2>1. chunks[i].choice = Total(counted)
      BY DEF ChunkInv, ChunkEnds, Told
    <2>2. counted = [c \in Indices |-> Len(text[c])]
      <3>1. counted = [c \in Indices |-> counted[c]]
        BY DEF ChunkInv, ChunkTypes
      <3>2. \A c \in Indices : counted[c] = Len(text[c])
        BY DEF ChunkInv, Counted
      <3> QED  BY <3>1, <3>2
    <2> QED  BY <2>1, <2>2
  <1>6. ASSUME NEW c \in Indices
        PROVE  /\ FinishedWith(c, "finish") =>
                    /\ IF stream.form = "completion" THEN Content(c) = text[c]
                       ELSE AllButBlanks(text[c], Content(c))
                    /\ ~FinishedWith(c, "call")
               /\ FinishedWith(c, "finishCalls") =>
                    /\ FinishedWith(c, "call") \/ (stream.form = "collect" /\ c \in parsed \ semantic)
                    /\ stream.tools /\ LooksLikeCall(text[c]) =>
                         NoMarkup(Content(c)) /\ (c \notin semantic => Content(c) = <<>>)
    <2>1. Answered(c)
      BY <1>6 DEF ChunkInv
    <2>2. FinishedWith(c, "finish") \/ FinishedWith(c, "finishCalls") => Over(c)
      BY <1>2, <2>1 DEF Answered, Finishes
    <2> QED  BY <1>2, <2>1, <2>2 DEF Answered, ConcludedWith
  <1>7. ContentDelivered
    BY <1>6 DEF ContentDelivered, TextDelivered, MarkupHidden
  <1>8. CallsTold
    BY <1>6 DEF CallsTold
  <1> QED  BY <1>1, <1>3, <1>4, <1>5, <1>7, <1>8 DEF StreamEndsOnce

\* A stream starts with nothing told.
LEMMA ChunkInvInit ==
  ASSUME ChunksInit
  PROVE  ChunkInv
  <1>1. ChunkTypes
    <2>1. <<>> \in Seq(ChunkSet) /\ <<>> \in Seq(Pieces)
      OBVIOUS
    <2>2. text \in [Indices -> Seq(Pieces)] /\ counted \in [Indices -> Nat]
      BY <2>1 DEF ChunksInit
    <2>3. \A c \in Indices : counted[c] = 0 /\ Len(text[c]) = 0
      BY DEF ChunksInit
    <2>4. \A c \in Indices : counted[c] <= Len(text[c])
      BY <2>3
    <2>5. at \in 1..Cardinality(Indices) + 1
      BY IndicesAreNumbers DEF ChunksInit
    <2>6. streamed \in [Indices -> BOOLEAN] /\ ended \in [Indices -> BOOLEAN]
      BY DEF ChunksInit
    <2>7. kind \in [Indices -> StreamKinds]
      BY DEF ChunksInit, StreamKinds
    <2> QED  BY <2>1, <2>2, <2>4, <2>5, <2>6, <2>7 DEF ChunksInit, ChunkTypes, StreamPhases
  <1>2. ChunkPhases
    BY IndicesAreNumbers DEF ChunksInit, ChunkPhases
  <1>3. ChunkEnds
    <2>1. EndLast(<<>>)
      BY NoChunk, NotEnded
    <2> QED  BY <2>1, NoChunk DEF ChunksInit, ChunkEnds
  <1>4. ASSUME NEW c \in Indices PROVE Answered(c)
    <2>1. ~Over(c)
      BY IndicesAreNumbers DEF Over, Due, ChunksInit
    <2>2. \A k : ~Told(chunks, c, k)
      BY NoChunk DEF ChunksInit
    <2>3. /\ Content(c) = <<>> /\ text[c] = <<>> /\ kind[c] \in {"none", "undecided"} /\ ~streamed[c]
          /\ c \notin semantic
      BY NoChunk DEF ChunksInit, Content
    <2>4. Blank(text[c])
      BY <2>3 DEF Blank
    <2> QED  BY <2>1, <2>2, <2>3, <2>4 DEF Answered, Unfinished
  <1>5. Counted
    BY DEF Counted, ChunksInit
  <1> QED  BY <1>1, <1>2, <1>3, <1>4, <1>5 DEF ChunkInv

\* What a step says of a choice it does not deal with stays.
LEMMA ChoiceKept ==
  ASSUME NEW d \in Indices, NEW more \in Seq(ChunkSet), chunks \in Seq(ChunkSet), Answered(d),
         chunks' = chunks \o more, stream' = stream, text'[d] = text[d], kind'[d] = kind[d],
         streamed'[d] = streamed[d], d \in semantic' <=> d \in semantic, d \in parsed' <=> d \in parsed,
         Over(d)' <=> Over(d),
         \A k \in {"call", "finish", "finishCalls"} : ~Told(more, d, k),
         ContentIn(more, d) = <<>>
  PROVE  Answered(d)'
  <1>1. \A k \in {"call", "finish", "finishCalls"} : Told(chunks', d, k) <=> Told(chunks, d, k)
    BY TwoTold
  <1>2. Content(d)' = Content(d)
    <2>1. ContentIn(chunks \o more, d) = ContentIn(chunks, d) \o ContentIn(more, d)
      BY ContentConcat
    <2>2. ContentIn(chunks, d) \o <<>> = ContentIn(chunks, d)
      BY TwoTold
    <2> QED  BY <2>1, <2>2 DEF Content
  <1>3. (\E k \in Finishes : Told(chunks', d, k)) <=> \E k \in Finishes : Told(chunks, d, k)
    BY <1>1 DEF Finishes
  <1>4. Unfinished(d) => Unfinished(d)'
    BY <1>1, <1>2 DEF Unfinished
  <1>5. ConcludedWith(d) => ConcludedWith(d)'
    BY <1>1, <1>2 DEF ConcludedWith
  <1> QED  BY <1>1, <1>2, <1>3, <1>4, <1>5 DEF Answered

\* A step that leaves the choices alone and tells none of them anything that ends or
\* adds to them.
LEMMA QuietStep ==
  ASSUME ChunkInv, UNCHANGED <<stream, state, at>>, NEW more \in Seq(ChunkSet), chunks' = chunks \o more,
         FinishLast(more),
         \A c \in Indices : ContentIn(more, c) = <<>>,
         \A c \in Indices : \A k \in {"call", "finish", "finishCalls"} : ~Told(more, c, k),
         \A c \in Indices, k \in ChunkKinds : Over(c) /\ Told(more, c, k) => k = "usage"
  PROVE  /\ (\A c \in Indices : Answered(c))'
         /\ FinishLast(chunks') /\ chunks' \in Seq(ChunkSet) /\ Counted'
         /\ \A c, k : Told(chunks', c, k) <=> Told(chunks, c, k) \/ Told(more, c, k)
         /\ \A c \in Indices : Over(c)' <=> Over(c)
  <1>1. chunks \in Seq(ChunkSet) /\ FinishLast(chunks)
    BY DEF ChunkInv, ChunkTypes, ChunkEnds
  <1>2. \A c \in Indices : Over(c)' <=> Over(c)
    BY DEF Over, Due, state
  <1>3. ASSUME NEW c \in Indices PROVE Answered(c)'
    <2>1. Answered(c)
      BY DEF ChunkInv
    <2>2. /\ text'[c] = text[c] /\ kind'[c] = kind[c] /\ streamed'[c] = streamed[c]
          /\ semantic' = semantic /\ parsed' = parsed
      BY DEF state
    <2> QED  BY <1>1, <1>2, <2>1, <2>2, ChoiceKept
  <1>4. FinishLast(chunks')
    <2>1. \A c \in Indices : (\E l \in Finishes : Told(chunks, c, l)) => Over(c)
      BY DEF ChunkInv, Answered
    <2> QED  BY <1>1, <2>1, TwoTold
  <1>5. Counted'
    BY DEF ChunkInv, Counted, state
  <1> QED  BY <1>1, <1>2, <1>3, <1>4, <1>5, TwoTold

\* Steps that tell nothing keep the types.
LEMMA QuietTypes ==
  ASSUME ChunkTypes, UNCHANGED <<stream, state, at>>, phase' \in StreamPhases, chunks' \in Seq(ChunkSet),
         phase' \in {"done", "failed", "gone"} => closed'
  PROVE  ChunkTypes'
  BY DEF ChunkTypes, state

\* The opening of the stream, which a client may leave.
LEMMA OpenKeepsInv ==
  ASSUME ChunkInv, Open \/ LeaveEarly
  PROVE  ChunkInv'
  <1>1. PICK more : /\ \E n \in 0..Cardinality(Indices) : more = [c \in 1..n |-> Chunk(c, "role", <<>>)]
                    /\ chunks' = chunks \o more
    <2>1. \A n \in Indices : n \in 0..Cardinality(Indices)
      BY IndicesAreNumbers
    <2>2. CASE LeaveEarly
      BY <2>1, <2>2 DEF LeaveEarly, Tell
    <2>3. CASE Open /\ stream.form = "chat"
      <3>1. chunks' = chunks \o [c \in 1..Cardinality(Indices) |-> Chunk(c, "role", <<>>)]
        BY <2>3, IndicesAreNumbers DEF Open, Tell
      <3>2. Cardinality(Indices) \in 0..Cardinality(Indices)
        BY IndicesAreNumbers
      <3> QED  BY <3>1, <3>2
    <2>4. CASE Open /\ stream.form # "chat"
      <3>1. chunks' = chunks \o <<>>
        BY <2>4 DEF Open, Tell
      <3>2. 0 \in 0..Cardinality(Indices) /\ <<>> = [c \in 1..0 |-> Chunk(c, "role", <<>>)]
        BY IndicesAreNumbers
      <3> QED  BY <3>1, <3>2
    <2> QED  BY <2>2, <2>3, <2>4
  <1>2. more \in Seq(ChunkSet) /\ \A i \in DOMAIN more : more[i].kind = "role"
    <2>1. PICK n \in 0..Cardinality(Indices) : more = [c \in 1..n |-> Chunk(c, "role", <<>>)]
      BY <1>1
    <2>2. n \in Nat /\ \A c \in 1..n : c \in Indices
      BY IndicesAreNumbers
    <2>3. \A c \in Indices : Chunk(c, "role", <<>>) \in ChunkSet /\ Chunk(c, "role", <<>>).kind = "role"
      BY DEF Chunk, ChunkSet, ChunkKinds
    <2>4. more \in [1..n -> ChunkSet]
      BY <2>1, <2>2, <2>3
    <2>5. more \in Seq(ChunkSet)
      BY <2>2, <2>4, SeqDef
    <2> QED  BY <2>1, <2>2, <2>3, <2>5
  <1>3. \A c, k : Told(more, c, k) => k = "role"
    BY <1>2 DEF Told
  <1>4. FinishLast(more)
    BY <1>2 DEF FinishLast, Finishes
  <1>5. \A c : ContentIn(more, c) = <<>>
    <2>1. \A c : \A i \in 1..Len(more) : PartOf(more[i], c) = <<>>
      BY <1>2, LenProperties DEF PartOf
    <2> QED  BY <1>2, <2>1, ContentNone
  <1>6. phase = "open" /\ phase' \in {"stream", "left"} /\ UNCHANGED <<stream, state, at>>
    BY DEF Open, LeaveEarly
  <1>7. \A c \in Indices : ~Over(c)
    BY <1>6, IndicesAreNumbers DEF ChunkInv, ChunkPhases, Over, Due
  <1>8. /\ (\A c \in Indices : Answered(c))'
        /\ FinishLast(chunks') /\ chunks' \in Seq(ChunkSet) /\ Counted'
        /\ \A c, k : Told(chunks', c, k) <=> Told(chunks, c, k) \/ Told(more, c, k)
        /\ \A c \in Indices : Over(c)' <=> Over(c)
    BY <1>1, <1>2, <1>3, <1>4, <1>5, <1>6, <1>7, QuietStep
  <1>9. ChunkTypes'
    BY <1>6, <1>8, QuietTypes DEF ChunkInv, StreamPhases
  <1>10. ChunkPhases'
    BY <1>6 DEF ChunkInv, ChunkPhases, state
  <1>11. ChunkEnds'
    <2>1. \A c : /\ ~Told(chunks', c, "done") /\ ~Told(chunks', c, "error") /\ ~Told(chunks', c, "usage")
      BY <1>3, <1>6, <1>8 DEF ChunkInv, ChunkEnds
    <2>2. EndLast(chunks')
      BY <1>8, <2>1, NotEnded
    <2> QED  BY <1>8, <2>1, <2>2 DEF ChunkEnds
  <1> QED  BY <1>8, <1>9, <1>10, <1>11 DEF ChunkInv

\* A step that tells nothing leaves what was told of each choice.
LEMMA SilentKeepsInv ==
  ASSUME ChunkInv, UNCHANGED <<stream, state, at, chunks>>
  PROVE  /\ (\A c \in Indices : Answered(c))' /\ Counted' /\ FinishLast(chunks') /\ EndLast(chunks')
         /\ \A c \in Indices : Over(c)' <=> Over(c)
         /\ \A c, k : Told(chunks', c, k) <=> Told(chunks, c, k)
  <1>1. chunks \in Seq(ChunkSet) /\ EndLast(chunks)
    BY DEF ChunkInv, ChunkTypes, ChunkEnds
  <1>2. chunks' = chunks \o <<>>
    BY <1>1
  <1> QED  BY <1>1, <1>2, NoChunk, QuietStep

\* The end of the engine's stream.
LEMMA ExhaustedKeepsInv ==
  ASSUME ChunkInv, Exhausted
  PROVE  ChunkInv'
  <1>1. /\ phase = "stream" /\ UNCHANGED <<stream, state, at, chunks>>
        /\ phase' = IF stream.form = "completion" THEN "usage" ELSE "close"
    BY DEF Exhausted
  <1>2. /\ (\A c \in Indices : Answered(c))' /\ Counted' /\ FinishLast(chunks') /\ EndLast(chunks')
        /\ \A c \in Indices : Over(c)' <=> Over(c)
        /\ \A c, k : Told(chunks', c, k) <=> Told(chunks, c, k)
    BY <1>1, SilentKeepsInv
  <1>3. ChunkTypes'
    BY <1>1, QuietTypes DEF ChunkInv, ChunkTypes, StreamPhases
  <1>4. ChunkPhases'
    <2>1. at = 1 /\ at' = 1 /\ at' \in Indices
      BY <1>1, IndicesAreNumbers DEF ChunkInv, ChunkPhases
    <2>2. stream'.form = "completion" => \A c \in Indices : Due(c)' => Over(c)'
      BY DEF Over
    <2>3. semantic' = semantic
      BY <1>1 DEF state
    <2>4. phase' \in {"usage", "last", "done"} => stream'.form = "completion"
      BY <1>1
    <2> QED  BY <1>1, <2>1, <2>2, <2>3, <2>4 DEF ChunkInv, ChunkPhases
  <1>5. ChunkEnds'
    BY <1>1, <1>2 DEF ChunkInv, ChunkEnds
  <1> QED  BY <1>2, <1>3, <1>4, <1>5 DEF ChunkInv

\* A client that goes away.
LEMMA DisconnectKeepsInv ==
  ASSUME ChunkInv, Disconnect
  PROVE  ChunkInv'
  <1>1. /\ phase \in {"stream", "close", "usage", "last"} /\ UNCHANGED <<stream, state, at, chunks>>
        /\ phase' = "gone" /\ closed'
    BY DEF Disconnect
  <1>2. /\ (\A c \in Indices : Answered(c))' /\ Counted' /\ FinishLast(chunks') /\ EndLast(chunks')
        /\ \A c \in Indices : Over(c)' <=> Over(c)
        /\ \A c, k : Told(chunks', c, k) <=> Told(chunks, c, k)
    BY <1>1, SilentKeepsInv
  <1>3. ChunkTypes'
    BY <1>1, QuietTypes DEF ChunkInv, ChunkTypes, StreamPhases
  <1>4. ChunkPhases'
    BY <1>1 DEF ChunkInv, ChunkPhases, state
  <1>5. ChunkEnds'
    BY <1>1, <1>2 DEF ChunkInv, ChunkEnds, state
  <1> QED  BY <1>2, <1>3, <1>4, <1>5 DEF ChunkInv

\* The chunk with the usage.
LEMMA UsageKeepsInv ==
  ASSUME ChunkInv, Usage
  PROVE  ChunkInv'
  <1>1. PICK more : /\ more = IF stream.usage THEN <<Chunk(Total(counted), "usage", <<>>)>> ELSE <<>>
                    /\ chunks' = chunks \o more
    BY DEF Usage, Tell
  <1>2. /\ more \in Seq(ChunkSet) /\ FinishLast(more)
        /\ \A c : ContentIn(more, c) = <<>> /\ \A k : Told(more, c, k) => k = "usage" /\ c = Total(counted)
    <2>1. Total(counted) \in {Total(f) : f \in [Indices -> Nat]}
      BY DEF ChunkInv, ChunkTypes
    <2>2. <<>> \in Seq(Pieces) /\ "usage" \in ChunkKinds
      BY DEF ChunkKinds
    <2>3. LET s == <<Chunk(Total(counted), "usage", <<>>)>> IN
          /\ s \in Seq(ChunkSet) /\ FinishLast(s)
          /\ \A c : /\ ContentIn(s, c) = IF Total(counted) = c /\ "usage" = "content" THEN <<>> ELSE <<>>
                    /\ \A l : Told(s, c, l) <=> Total(counted) = c /\ "usage" = l
      BY <2>1, <2>2, OneChunk
    <2>4. CASE more = <<>>
      BY <2>4, NoChunk
    <2>5. CASE more = <<Chunk(Total(counted), "usage", <<>>)>>
      BY <2>3, <2>5
    <2> QED  BY <1>1, <2>4, <2>5
  <1>3. phase = "usage" /\ phase' = "last" /\ UNCHANGED <<stream, state, at>>
    BY DEF Usage
  <1>4. /\ (\A c \in Indices : Answered(c))'
        /\ FinishLast(chunks') /\ chunks' \in Seq(ChunkSet) /\ Counted'
        /\ \A c, k : Told(chunks', c, k) <=> Told(chunks, c, k) \/ Told(more, c, k)
        /\ \A c \in Indices : Over(c)' <=> Over(c)
    BY <1>1, <1>2, <1>3, QuietStep
  <1>5. ChunkTypes'
    BY <1>3, <1>4, QuietTypes DEF ChunkInv, StreamPhases
  <1>6. ChunkPhases'
    <2>1. \A c \in Indices : Due(c)' => Over(c)'
      BY <1>3, <1>4 DEF ChunkInv, ChunkPhases, Due, state
    <2> QED  BY <1>3, <2>1 DEF ChunkInv, ChunkPhases, state
  <1>7. ChunkEnds'
    <2>1. \A c : ~Told(chunks', c, "done") /\ ~Told(chunks', c, "error")
      BY <1>2, <1>3, <1>4 DEF ChunkInv, ChunkEnds
    <2>2. EndLast(chunks')
      BY <1>4, <2>1, NotEnded
    <2>3. \A c : Told(chunks', c, "usage") => c = Total(counted')
      BY <1>2, <1>3, <1>4 DEF ChunkInv, ChunkEnds, state
    <2> QED  BY <1>3, <1>4, <2>1, <2>2, <2>3 DEF ChunkEnds
  <1> QED  BY <1>4, <1>5, <1>6, <1>7 DEF ChunkInv

\* A chunk of the whole stream, or an error about a choice that is not over.
LEMMA LastChunk ==
  ASSUME ChunkInv, UNCHANGED <<stream, state, at>>, NEW d \in Indices \cup {0}, NEW k \in {"done", "error"},
         chunks' = chunks \o <<Chunk(d, k, <<>>)>>,
         phase \notin {"done", "failed"}, d \in Indices => ~Over(d)
  PROVE  /\ (\A c \in Indices : Answered(c))' /\ Counted'
         /\ chunks' \in Seq(ChunkSet) /\ FinishLast(chunks') /\ EndLast(chunks')
         /\ \A c \in Indices : Over(c)' <=> Over(c)
         /\ \A c : /\ Told(chunks', c, "usage") <=> Told(chunks, c, "usage")
                   /\ Told(chunks', c, "done") => k = "done"
  <1> DEFINE x == Chunk(d, k, <<>>)
  <1>1. /\ <<x>> \in Seq(ChunkSet) /\ FinishLast(<<x>>)
        /\ \A c : ContentIn(<<x>>, c) = <<>> /\ \A l : Told(<<x>>, c, l) <=> d = c /\ k = l
    <2>1. <<>> \in Seq(Pieces) /\ k \in ChunkKinds /\ k # "content"
      BY DEF ChunkKinds
    <2>2. LET s == <<Chunk(d, k, <<>>)>> IN
          /\ s \in Seq(ChunkSet) /\ FinishLast(s)
          /\ \A c : /\ ContentIn(s, c) = IF d = c /\ k = "content" THEN <<>> ELSE <<>>
                    /\ \A l : Told(s, c, l) <=> d = c /\ k = l
      BY <2>1, OneChunk
    <2> QED  BY <2>2
  <1>2. x \in ChunkSet /\ x.kind = k
    BY DEF Chunk, ChunkSet, ChunkKinds
  <1> HIDE DEF x
  <1>3. 0 \notin Indices
    BY IndicesAreNumbers
  <1>4. chunks' = chunks \o <<x>>
    BY DEF x
  <1>5. /\ (\A c \in Indices : Answered(c))'
        /\ FinishLast(chunks') /\ chunks' \in Seq(ChunkSet) /\ Counted'
        /\ \A c, l : Told(chunks', c, l) <=> Told(chunks, c, l) \/ Told(<<x>>, c, l)
        /\ \A c \in Indices : Over(c)' <=> Over(c)
    BY <1>1, <1>3, <1>4, QuietStep
  <1>6. EndLast(chunks')
    <2>1. chunks \in Seq(ChunkSet) /\ \A c : ~Told(chunks, c, "done") /\ ~Told(chunks, c, "error")
      BY DEF ChunkInv, ChunkTypes, ChunkEnds
    <2> QED  BY <1>2, <1>4, <2>1, EndedNow
  <1>7. \A c : ~Told(chunks, c, "done")
    BY DEF ChunkInv, ChunkEnds
  <1> QED  BY <1>1, <1>5, <1>6, <1>7

\* The end of the stream.
LEMMA DoneKeepsInv ==
  ASSUME ChunkInv, Done
  PROVE  ChunkInv'
  <1>1. /\ phase = "last" /\ phase' = "done" /\ closed' /\ UNCHANGED <<stream, state, at>>
        /\ \A c \in Indices : Due(c) => Over(c)
    BY DEF Done, ChunkInv, ChunkPhases
  <1>2. /\ (\A c \in Indices : Answered(c))' /\ Counted'
        /\ chunks' \in Seq(ChunkSet) /\ FinishLast(chunks') /\ EndLast(chunks')
        /\ \A c \in Indices : Over(c)' <=> Over(c)
        /\ \A c : Told(chunks', c, "usage") <=> Told(chunks, c, "usage")
    <2>1. CASE stream.form = "collect"
      <3>1. chunks \in Seq(ChunkSet) /\ chunks' = chunks \o <<>>
        BY <2>1 DEF Done, Tell, ChunkInv, ChunkTypes
      <3>2. chunks' = chunks
        BY <3>1
      <3> QED  BY <1>1, <3>1, <3>2, SilentKeepsInv
    <2>2. CASE stream.form # "collect"
      <3>1. chunks' = chunks \o <<Chunk(0, "done", <<>>)>>
        BY <2>2 DEF Done, Tell
      <3>2. 0 \notin Indices
        BY IndicesAreNumbers
      <3> QED  BY <1>1, <3>1, <3>2, LastChunk
    <2> QED  BY <2>1, <2>2
  <1>3. ChunkTypes'
    BY <1>1, <1>2, QuietTypes DEF ChunkInv, StreamPhases
  <1>4. ChunkPhases'
    BY <1>1, <1>2 DEF ChunkInv, ChunkPhases, Due, state
  <1>5. ChunkEnds'
    <2>1. \A c : Told(chunks', c, "usage") => c = Total(counted')
      BY <1>1, <1>2 DEF ChunkInv, ChunkEnds, state
    <2> QED  BY <1>1, <1>2, <2>1 DEF ChunkEnds
  <1> QED  BY <1>2, <1>3, <1>4, <1>5 DEF ChunkInv

\* An error of the engine, told as the last chunk.
LEMMA FailedKeepsInv ==
  ASSUME ChunkInv, EngineError \/ CloseRefused
  PROVE  ChunkInv'
  <1>1. /\ phase \in {"stream", "close"} /\ phase' = "failed" /\ closed' /\ UNCHANGED <<stream, state, at>>
    BY DEF EngineError, CloseRefused
  <1>2. /\ (\A c \in Indices : Answered(c))' /\ Counted'
        /\ chunks' \in Seq(ChunkSet) /\ FinishLast(chunks') /\ EndLast(chunks')
        /\ \A c : /\ Told(chunks', c, "usage") <=> Told(chunks, c, "usage")
                  /\ ~Told(chunks', c, "done")
    <2>0. \A c : ~Told(chunks, c, "done")
      BY <1>1 DEF ChunkInv, ChunkEnds
    <2>1. CASE EngineError /\ stream.form = "collect"
      <3>1. chunks \in Seq(ChunkSet) /\ chunks' = chunks \o <<>>
        BY <2>1 DEF EngineError, Tell, ChunkInv, ChunkTypes
      <3>2. chunks' = chunks
        BY <3>1
      <3> QED  BY <1>1, <2>0, <3>1, <3>2, SilentKeepsInv
    <2>2. CASE EngineError /\ stream.form # "collect"
      <3>1. chunks' = chunks \o <<Chunk(0, "error", <<>>)>>
        BY <2>2 DEF EngineError, Tell
      <3>2. 0 \notin Indices
        BY IndicesAreNumbers
      <3> QED  BY <1>1, <3>1, <3>2, LastChunk
    <2>3. CASE CloseRefused
      <3>1. chunks' = chunks \o <<Chunk(at, "error", <<>>)>> /\ phase = "close" /\ stream.form = "chat"
        BY <2>3 DEF CloseRefused, Tell
      <3>2. at \in Indices /\ ~Over(at)
        BY <3>1, IndicesAreNumbers DEF ChunkInv, ChunkPhases, Over, Due
      <3> QED  BY <1>1, <3>1, <3>2, LastChunk
    <2> QED  BY <2>1, <2>2, <2>3
  <1>3. ChunkTypes'
    BY <1>1, <1>2, QuietTypes DEF ChunkInv, StreamPhases
  <1>4. ChunkPhases'
    BY <1>1 DEF ChunkInv, ChunkPhases, state
  <1>5. ChunkEnds'
    <2>1. \A c : ~Told(chunks', c, "usage")
      BY <1>1, <1>2 DEF ChunkInv, ChunkEnds
    <2> QED  BY <1>1, <1>2, <2>1 DEF ChunkEnds
  <1> QED  BY <1>2, <1>3, <1>4, <1>5 DEF ChunkInv

\* A choice is closed: what is told before its finish chunk makes the reason true.
LEMMA ClosedKeepsInv ==
  ASSUME ChunkInv, phase = "close", UNCHANGED <<stream, state, closed>>, Advance, Due(at),
         NEW more \in Seq(ChunkSet), NEW reason \in Finishes,
         chunks' = chunks \o (more \o <<Chunk(at, reason, <<>>)>>),
         FinishLast(more),
         \A c, k : Told(more, c, k) => c = at /\ k \in {"content", "call"},
         \A c : c # at => ContentIn(more, c) = <<>>,
         reason = "finish" =>
           /\ AllButBlanks(text[at], Content(at) \o ContentIn(more, at))
           /\ at \notin semantic /\ ~Told(more, at, "call"),
         reason = "finishCalls" =>
           /\ at \in semantic \/ Told(more, at, "call") \/ (stream.form = "collect" /\ at \in parsed)
           /\ stream.tools /\ LooksLikeCall(text[at]) => ContentIn(more, at) = <<>>
  PROVE  ChunkInv'
  <1> DEFINE x == Chunk(at, reason, <<>>)
  <1>1. /\ at \in Indices /\ stream.form # "completion" /\ ~Over(at) /\ Unfinished(at)
        /\ chunks \in Seq(ChunkSet) /\ FinishLast(chunks)
        /\ \A c \in Indices : (\E l \in Finishes : Told(chunks, c, l)) => Over(c)
    <2>1. at \in Indices /\ stream.form # "completion"
      BY DEF ChunkInv, ChunkPhases
    <2>2. ~Over(at)
      BY <2>1, IndicesAreNumbers DEF Over, Due
    <2> QED  BY <2>1, <2>2 DEF ChunkInv, ChunkTypes, ChunkEnds, Answered
  <1>2. /\ <<x>> \in Seq(ChunkSet) /\ FinishLast(<<x>>)
        /\ \A c : ContentIn(<<x>>, c) = <<>> /\ \A l : Told(<<x>>, c, l) <=> at = c /\ reason = l
    <2>1. <<>> \in Seq(Pieces) /\ reason \in ChunkKinds /\ reason # "content"
      BY DEF ChunkKinds, Finishes
    <2>2. LET s == <<Chunk(at, reason, <<>>)>> IN
          /\ s \in Seq(ChunkSet) /\ FinishLast(s)
          /\ \A c : /\ ContentIn(s, c) = IF at = c /\ reason = "content" THEN <<>> ELSE <<>>
                    /\ \A l : Told(s, c, l) <=> at = c /\ reason = l
      BY <1>1, <2>1, OneChunk
    <2> QED  BY <2>1, <2>2
  <1> HIDE DEF x
  <1>3. PICK last : last = more \o <<x>>
    OBVIOUS
  <1>4. /\ last \in Seq(ChunkSet) /\ FinishLast(last)
        /\ \A c, k : Told(last, c, k) <=> Told(more, c, k) \/ (at = c /\ reason = k)
        /\ \A c : ContentIn(last, c) = ContentIn(more, c)
    <2>1. \A c, k : Told(last, c, k) <=> Told(more, c, k) \/ Told(<<x>>, c, k)
      BY <1>2, <1>3, TwoTold
    <2>2. \A c : ContentIn(last, c) = ContentIn(more, c) \o ContentIn(<<x>>, c)
      BY <1>2, <1>3, ContentConcat
    <2>3. \A c : ContentIn(more, c) \o <<>> = ContentIn(more, c)
      BY ContentSequence
    <2>4. ~ \E c, l : l \in Finishes /\ Told(more, c, l)
      BY DEF Finishes
    <2>5. FinishLast(last) /\ last \in Seq(ChunkSet)
      BY <1>2, <1>3, <2>4, TwoTold
    <2> QED  BY <1>2, <2>1, <2>2, <2>3, <2>5
  <1>5. chunks' = chunks \o last
    BY <1>3 DEF x
  <1>6. /\ chunks' \in Seq(ChunkSet) /\ FinishLast(chunks')
        /\ \A c, k : Told(chunks', c, k) <=> Told(chunks, c, k) \/ Told(last, c, k)
    <2>1. \A c \in Indices, k \in ChunkKinds :
            (\E l \in Finishes : Told(chunks, c, l)) /\ Told(last, c, k) => k = "usage"
      BY <1>1, <1>4
    <2>2. FinishLast(chunks \o last)
      BY <1>1, <1>4, <2>1, TwoTold
    <2>3. /\ chunks \o last \in Seq(ChunkSet)
          /\ \A c, k : Told(chunks \o last, c, k) <=> Told(chunks, c, k) \/ Told(last, c, k)
      BY <1>1, <1>4, TwoTold
    <2> QED  BY <1>5, <2>2, <2>3
  <1>7. /\ at' = at + 1 /\ at' \in 1..Cardinality(Indices) + 1
        /\ phase' = IF at + 1 \in Indices THEN "close" ELSE "usage"
        /\ at + 1 \notin Indices => \A c \in Indices : c < at'
        /\ \A c \in Indices : c # at => (c < at' <=> c < at)
        /\ at < at'
    BY <1>1, IndicesAreNumbers DEF Advance
  <1>8. \A c \in Indices : (Over(c)' <=> c < at' /\ Due(c)) /\ (Over(c) <=> c < at /\ Due(c)) /\ (Due(c)' <=> Due(c))
    BY <1>1 DEF Over, Due, state
  <1>9. ASSUME NEW d \in Indices, d # at PROVE Answered(d)'
    <2>1. Answered(d)
      BY DEF ChunkInv
    <2>2. /\ text'[d] = text[d] /\ kind'[d] = kind[d] /\ streamed'[d] = streamed[d]
          /\ semantic' = semantic /\ parsed' = parsed /\ stream' = stream
      BY DEF state
    <2>3. Over(d)' <=> Over(d)
      BY <1>7, <1>8, <1>9
    <2>4. ContentIn(last, d) = <<>> /\ \A k : ~Told(last, d, k)
      BY <1>4, <1>9
    <2> QED  BY <1>1, <1>4, <1>5, <2>1, <2>2, <2>3, <2>4, ChoiceKept
  <1>10. PICK c : c = at
    OBVIOUS
  <1>11. Answered(c)'
    <2>1. Over(c)' /\ Told(chunks', c, reason) /\ stream' = stream /\ text' = text /\ semantic' = semantic
          /\ parsed' = parsed
      BY <1>1, <1>4, <1>6, <1>7, <1>8, <1>10 DEF state
    <2>2. Content(c)' = Content(at) \o ContentIn(more, at)
      <3>1. ContentIn(chunks \o last, at) = ContentIn(chunks, at) \o ContentIn(last, at)
        BY <1>1, <1>4, ContentConcat, SMTT(40)
      <3> QED  BY <1>4, <1>5, <1>10, <3>1 DEF Content
    <2>3. \A k \in Finishes : Told(chunks', c, k) <=> k = reason
      <3>1. \A k \in Finishes : ~Told(chunks, c, k) /\ ~Told(more, c, k)
        BY <1>1, <1>10 DEF Finishes
      <3> QED  BY <1>4, <1>6, <1>10, <3>1
    <2>4. Told(chunks', c, "call") <=> c \in semantic \/ Told(more, c, "call")
      BY <1>1, <1>4, <1>6, <1>10 DEF Unfinished, Finishes
    <2>5. ASSUME reason = "finish" PROVE ConcludedWith(c)'
      BY <1>10, <2>1, <2>2, <2>3, <2>4, <2>5 DEF ConcludedWith, Finishes
    <2>6. ASSUME reason = "finishCalls" PROVE ConcludedWith(c)'
      <3>1. Told(chunks', c, "call") \/ (stream.form = "collect" /\ c \in parsed \ semantic)
        BY <1>10, <2>4, <2>6
      <3>2. ASSUME stream.tools /\ LooksLikeCall(text[at])
            PROVE  NoMarkup(Content(c)') /\ (c \notin semantic => Content(c)' = <<>>)
        <4>1. NoMarkup(Content(at)) /\ (at \notin semantic => Content(at) = <<>>)
          <5>1. kind[at] \in StreamKinds
            BY <1>1 DEF ChunkInv, ChunkTypes
          <5>2. kind[at] = "tool_calls"
            BY <1>1, <3>2, <5>1, CallNotBlank DEF Unfinished, StreamKinds
          <5> QED  BY <1>1, <5>2 DEF Unfinished
        <4>2. ContentIn(more, at) = <<>>
          BY <2>6, <3>2
        <4>3. Content(at) \o <<>> = Content(at)
          BY <1>1, ContentSequence DEF Content
        <4> QED  BY <1>10, <2>2, <4>1, <4>2, <4>3
      <3>3. Told(chunks', c, "finish") = FALSE
        BY <2>3, <2>6 DEF Finishes
      <3> QED  BY <1>10, <2>1, <3>1, <3>2, <3>3 DEF ConcludedWith
    <2>7. ConcludedWith(c)'
      BY <2>5, <2>6 DEF Finishes
    <2> QED  BY <1>1, <2>1, <2>7 DEF Answered
  <1>12. ChunkTypes'
    BY <1>6, <1>7 DEF ChunkInv, ChunkTypes, StreamPhases, state
  <1>13. ChunkPhases'
    <2>1. phase' = "usage" => \A d \in Indices : Due(d)' => Over(d)'
      BY <1>7, <1>8
    <2> QED  BY <1>1, <1>7, <2>1 DEF ChunkPhases
  <1>14. ChunkEnds'
    <2>1. \A d, k : Told(last, d, k) => k \in {"content", "call", "finish", "finishCalls"}
      BY <1>4 DEF Finishes
    <2>2. \A d : ~Told(chunks, d, "done") /\ ~Told(chunks, d, "error") /\ ~Told(chunks, d, "usage")
      BY DEF ChunkInv, ChunkEnds
    <2>3. \A d : ~Told(last, d, "done") /\ ~Told(last, d, "error") /\ ~Told(last, d, "usage")
      <3>1. \A d, k : Told(last, d, k) => k \notin {"done", "error", "usage"}
        BY <2>1
      <3> QED  BY <3>1, Zenon
    <2>4. \A d : ~Told(chunks', d, "done") /\ ~Told(chunks', d, "error") /\ ~Told(chunks', d, "usage")
      BY <1>6, <2>2, <2>3, Zenon
    <2>5. EndLast(chunks')
      BY <1>6, <2>4, NotEnded
    <2> QED  BY <1>6, <2>4, <2>5 DEF ChunkEnds
  <1>15. Counted'
    BY DEF ChunkInv, Counted, state
  <1> QED  BY <1>9, <1>10, <1>11, <1>12, <1>13, <1>14, <1>15 DEF ChunkInv

\* A choice is closed with calls.
LEMMA ClosedWithCalls ==
  ASSUME ChunkInv, phase = "close", UNCHANGED <<stream, state, closed>>, Advance, Due(at),
         NEW more \in Seq(ChunkSet),
         chunks' = chunks \o (more \o <<Chunk(at, "finishCalls", <<>>)>>),
         FinishLast(more),
         \A c, k : Told(more, c, k) => c = at /\ k = "call",
         \A c : ContentIn(more, c) = <<>>,
         at \in semantic \/ Told(more, at, "call") \/ (stream.form = "collect" /\ at \in parsed)
  PROVE  ChunkInv'
  <1>1. PICK reason \in Finishes : reason = "finishCalls"
    BY DEF Finishes
  <1>2. chunks' = chunks \o (more \o <<Chunk(at, reason, <<>>)>>) /\ reason # "finish"
    BY <1>1
  <1>3. /\ \A c, k : Told(more, c, k) => c = at /\ k \in {"content", "call"}
        /\ \A c : c # at => ContentIn(more, c) = <<>>
    OBVIOUS
  <1>4. /\ reason = "finish" => /\ AllButBlanks(text[at], Content(at) \o ContentIn(more, at))
                               /\ at \notin semantic /\ ~Told(more, at, "call")
        /\ reason = "finishCalls" =>
             /\ at \in semantic \/ Told(more, at, "call") \/ (stream.form = "collect" /\ at \in parsed)
             /\ stream.tools /\ LooksLikeCall(text[at]) => ContentIn(more, at) = <<>>
    BY <1>2
  <1> QED  BY <1>2, <1>3, <1>4, ClosedKeepsInv, ZenonT(30)

\* With what was kept back the text of the choice is told, but for first blanks.
LEMMA DeferredCompletes ==
  ASSUME ChunkInv, phase = "close", at \notin semantic, ~Normalized(at)
  PROVE  /\ Deferred(at) \in Seq(ChunkSet) /\ FinishLast(Deferred(at))
         /\ \A c, k : Told(Deferred(at), c, k) => c = at /\ k = "content"
         /\ \A c : c # at => ContentIn(Deferred(at), c) = <<>>
         /\ AllButBlanks(text[at], Content(at) \o ContentIn(Deferred(at), at))
  <1>1. /\ at \in Indices /\ stream.form # "completion" /\ ~Over(at) /\ Unfinished(at)
        /\ text[at] \in Seq(Pieces) /\ kind[at] \in StreamKinds
    <2>1. at \in Indices /\ stream.form # "completion"
      BY DEF ChunkInv, ChunkPhases
    <2>2. ~Over(at)
      BY <2>1, IndicesAreNumbers DEF Over, Due
    <2> QED  BY <2>1, <2>2 DEF ChunkInv, ChunkTypes, Answered
  <1>2. CASE streamed[at] \/ text[at] = <<>>
    <2>1. Deferred(at) = <<>>
      BY <1>2 DEF Deferred
    <2>2. Content(at) \in Seq(Pieces) /\ Content(at) \o <<>> = Content(at)
      <3>1. Content(at) \in Seq(Pieces)
        BY ContentSequence DEF Content, ChunkInv, ChunkTypes
      <3> QED  BY <3>1
    <2>3. AllButBlanks(text[at], Content(at))
      <3>1. CASE kind[at] = "text"
        BY <1>1, <3>1 DEF Unfinished
      <3>2. CASE kind[at] # "text"
        <4>1. ~streamed[at]
          BY <1>1, <3>2 DEF Unfinished, StreamKinds
        <4>2. text[at] = <<>> /\ Content(at) = <<>>
          BY <1>1, <1>2, <3>2, <4>1 DEF Unfinished, StreamKinds
        <4> QED  BY <1>1, <4>2, AllTold
      <3> QED  BY <3>1, <3>2
    <2> QED  BY <2>1, <2>2, <2>3, NoChunk
  <1>3. CASE ~streamed[at] /\ text[at] # <<>>
    <2>1. Deferred(at) = <<Chunk(at, "content", text[at])>>
      BY <1>3 DEF Deferred
    <2>2. "content" \in ChunkKinds
      BY DEF ChunkKinds
    <2>3. LET s == <<Chunk(at, "content", text[at])>> IN
          /\ s \in Seq(ChunkSet) /\ FinishLast(s)
          /\ \A c : /\ ContentIn(s, c) = IF at = c /\ "content" = "content" THEN text[at] ELSE <<>>
                    /\ \A l : Told(s, c, l) <=> at = c /\ "content" = l
      BY <1>1, <2>2, OneChunk, ZenonT(60)
    <2>4. Content(at) = <<>>
      BY <1>1, <1>3 DEF Unfinished, StreamKinds
    <2>5. <<>> \o text[at] = text[at] /\ AllButBlanks(text[at], text[at])
      BY <1>1, AllTold
    <2> QED  BY <2>1, <2>3, <2>4, <2>5
  <1> QED  BY <1>2, <1>3

\* A choice is closed as it is.
LEMMA ClosedWithText ==
  ASSUME ChunkInv, phase = "close", UNCHANGED <<stream, state, closed>>, Advance, Due(at),
         at \notin semantic, ~Normalized(at),
         chunks' = chunks \o (Deferred(at) \o <<Chunk(at, "finish", <<>>)>>)
  PROVE  ChunkInv'
  <1>1. PICK reason \in Finishes : reason = "finish"
    BY DEF Finishes
  <1>2. chunks' = chunks \o (Deferred(at) \o <<Chunk(at, reason, <<>>)>>) /\ reason # "finishCalls"
    BY <1>1
  <1>3. /\ Deferred(at) \in Seq(ChunkSet) /\ FinishLast(Deferred(at))
        /\ \A c, k : Told(Deferred(at), c, k) => c = at /\ k = "content"
        /\ \A c : c # at => ContentIn(Deferred(at), c) = <<>>
        /\ AllButBlanks(text[at], Content(at) \o ContentIn(Deferred(at), at))
    BY DeferredCompletes
  <1>4. /\ ~Told(Deferred(at), at, "call")
        /\ \A c, k : Told(Deferred(at), c, k) => c = at /\ k \in {"content", "call"}
    BY <1>3
  <1> QED  BY <1>2, <1>3, <1>4, ClosedKeepsInv, ZenonT(30)

\* The calls found in the whole text are told of the choice being closed.
LEMMA TextCallsTell ==
  ASSUME at \in Indices
  PROVE  /\ TextCalls(at) \in Seq(ChunkSet) /\ FinishLast(TextCalls(at))
         /\ \A c, k : Told(TextCalls(at), c, k) <=> c = at /\ k = "call"
         /\ \A c : ContentIn(TextCalls(at), c) = <<>>
  <1> DEFINE one == <<Chunk(at, "call", <<>>)>>
  <1>1. /\ one \in Seq(ChunkSet) /\ FinishLast(one)
        /\ \A c : /\ ContentIn(one, c) = <<>>
                  /\ \A k : Told(one, c, k) <=> at = c /\ "call" = k
    <2>1. "call" \in ChunkKinds /\ <<>> \in Seq(Pieces)
      BY DEF ChunkKinds
    <2>2. LET s == <<Chunk(at, "call", <<>>)>> IN
          /\ s \in Seq(ChunkSet) /\ FinishLast(s)
          /\ \A c : /\ ContentIn(s, c) = IF at = c /\ "call" = "content" THEN <<>> ELSE <<>>
                    /\ \A l : Told(s, c, l) <=> at = c /\ "call" = l
      BY <2>1, OneChunk
    <2> QED  BY <2>2
  <1>2. TextCalls(at) = one \o one
    BY DEF TextCalls
  <1> HIDE DEF one
  <1>3. \A c \in Indices, k \in ChunkKinds :
           (\E l \in Finishes : Told(one, c, l)) /\ Told(one, c, k) => k = "usage"
    BY <1>1 DEF Finishes
  <1>4. FinishLast(one \o one)
    BY <1>1, <1>3, TwoTold
  <1>5. one \o one \in Seq(ChunkSet) /\ \A c, k : Told(one \o one, c, k) <=> Told(one, c, k)
    BY <1>1, TwoTold
  <1>6. \A c : ContentIn(one \o one, c) = <<>>
    <2>1. \A c : ContentIn(one \o one, c) = ContentIn(one, c) \o ContentIn(one, c)
      BY <1>1, ContentConcat
    <2>2. <<>> \o <<>> = <<>>
      OBVIOUS
    <2> QED  BY <1>1, <2>1, <2>2
  <1> QED  BY <1>1, <1>2, <1>4, <1>5, <1>6

\* A choice that ends.
LEMMA CloseChoiceKeepsInv ==
  ASSUME ChunkInv, CloseChoice
  PROVE  ChunkInv'
  <1>1. /\ phase = "close" /\ Advance /\ UNCHANGED <<stream, state, closed>> /\ at \in Indices
        /\ (at \in semantic \/ ~Normalized(at)) /\ Due(at)
    BY DEF CloseChoice, ChunkInv, ChunkPhases, Due
  <1>2. CASE at \in semantic
    <2>1. PICK none : none = <<>>
      OBVIOUS
    <2>2. chunks' = chunks \o (none \o <<Chunk(at, "finishCalls", <<>>)>>)
      BY <1>2, <2>1 DEF CloseChoice, Tell, Finish
    <2>3. /\ none \in Seq(ChunkSet) /\ FinishLast(none) /\ \A c, k : ~Told(none, c, k)
          /\ \A c : ContentIn(none, c) = <<>>
      BY <2>1, NoChunk
    <2> QED  BY <1>1, <1>2, <2>2, <2>3, ClosedWithCalls
  <1>3. CASE at \notin semantic
    <2>1. chunks' = chunks \o (Deferred(at) \o <<Chunk(at, "finish", <<>>)>>)
      BY <1>3 DEF CloseChoice, Tell, Finish
    <2> QED  BY <1>1, <1>3, <2>1, ClosedWithText
  <1> QED  BY <1>2, <1>3

\* A choice that ends with calls collected from its deltas.
LEMMA CloseCollectedKeepsInv ==
  ASSUME ChunkInv, CloseCollected
  PROVE  ChunkInv'
  <1>1. /\ phase = "close" /\ Advance /\ UNCHANGED <<stream, state, closed>> /\ at \in Indices
        /\ stream.form = "collect" /\ Due(at)
    BY DEF CloseCollected, ChunkInv, ChunkPhases, Due
  <1>2. CASE at \in semantic \cup parsed
    <2>1. PICK none : none = <<>>
      OBVIOUS
    <2>2. chunks' = chunks \o (none \o <<Chunk(at, "finishCalls", <<>>)>>)
      BY <1>2, <2>1 DEF CloseCollected, Tell, Finish
    <2>3. /\ none \in Seq(ChunkSet) /\ FinishLast(none) /\ \A c, k : ~Told(none, c, k)
          /\ \A c : ContentIn(none, c) = <<>>
      BY <2>1, NoChunk
    <2> QED  BY <1>1, <1>2, <2>2, <2>3, ClosedWithCalls
  <1>3. CASE at \notin semantic \cup parsed /\ Normalized(at)
    <2>1. chunks' = chunks \o (TextCalls(at) \o <<Chunk(at, "finishCalls", <<>>)>>)
      BY <1>3 DEF CloseCollected, Tell, Finish
    <2>2. /\ TextCalls(at) \in Seq(ChunkSet) /\ FinishLast(TextCalls(at))
          /\ \A c, k : Told(TextCalls(at), c, k) <=> c = at /\ k = "call"
          /\ \A c : ContentIn(TextCalls(at), c) = <<>>
      BY <1>1, TextCallsTell
    <2> QED  BY <1>1, <2>1, <2>2, ClosedWithCalls
  <1>4. CASE at \notin semantic \cup parsed /\ ~Normalized(at)
    <2>1. chunks' = chunks \o (Deferred(at) \o <<Chunk(at, "finish", <<>>)>>)
      BY <1>4 DEF CloseCollected, Tell, Finish
    <2> QED  BY <1>1, <1>4, <2>1, ClosedWithText
  <1> QED  BY <1>2, <1>3, <1>4

\* A choice the round knows nothing of is passed over.
LEMMA SkipUnseenKeepsInv ==
  ASSUME ChunkInv, SkipUnseen
  PROVE  ChunkInv'
  <1>1. /\ phase = "close" /\ UNCHANGED <<stream, state, chunks, closed>>
        /\ stream.form = "collect" /\ at \in Indices /\ ~Due(at)
        /\ at' = at + 1 /\ phase' = IF at + 1 \in Indices THEN "close" ELSE "usage"
    BY DEF SkipUnseen, Advance, ChunkInv, ChunkPhases, Due
  <1>2. /\ at' \in 1..Cardinality(Indices) + 1
        /\ at + 1 \notin Indices => \A c \in Indices : c < at'
        /\ \A c \in Indices : c # at => (c < at' <=> c < at)
    BY <1>1, IndicesAreNumbers
  <1>3. \A c \in Indices : /\ Due(c)' <=> Due(c)
                           /\ Over(c) <=> c < at /\ Due(c)
                           /\ Over(c)' <=> c < at' /\ Due(c)
    BY <1>1 DEF Over, Due, state
  <1>4. \A c \in Indices : Over(c)' <=> Over(c)
    BY <1>1, <1>2, <1>3
  <1>5. chunks \in Seq(ChunkSet) /\ chunks' = chunks \o <<>>
    BY <1>1 DEF ChunkInv, ChunkTypes
  <1>6. ASSUME NEW d \in Indices PROVE Answered(d)'
    <2>1. Answered(d)
      BY DEF ChunkInv
    <2>2. /\ text'[d] = text[d] /\ kind'[d] = kind[d] /\ streamed'[d] = streamed[d]
          /\ semantic' = semantic /\ parsed' = parsed /\ stream' = stream
      BY <1>1 DEF state
    <2> QED  BY <1>4, <1>5, <2>1, <2>2, NoChunk, ChoiceKept
  <1>7. ChunkTypes'
    BY <1>1, <1>2 DEF ChunkInv, ChunkTypes, StreamPhases, state
  <1>8. ChunkPhases'
    <2>1. phase' = "usage" => \A d \in Indices : Due(d)' => Over(d)'
      BY <1>1, <1>2, <1>3
    <2> QED  BY <1>1, <2>1 DEF ChunkPhases
  <1>9. ChunkEnds'
    BY <1>1 DEF ChunkInv, ChunkEnds, state
  <1>10. Counted'
    BY <1>1 DEF ChunkInv, Counted, state
  <1> QED  BY <1>6, <1>7, <1>8, <1>9, <1>10 DEF ChunkInv

\* What is counted of a text that has grown is its length.
LEMMA CountGrows ==
  ASSUME ChunkInv, NEW c \in Indices, NEW t \in Seq(Pieces), Len(text[c]) <= Len(t)
  PROVE  CountOf(c, t) = Len(t)
  BY LenProperties DEF CountOf, ChunkInv, ChunkTypes

\* What is told at a delivery is of this choice and, as long as it is not finished, is
\* told in order.
LEMMA DeliveredTypes ==
  ASSUME ChunkInv, NEW c \in Indices, NEW piece \in Deltas,
         NEW last \in BOOLEAN, NEW more \in Seq(ChunkSet),
         text' = [text EXCEPT ![c] = text[c] \o piece], ended' = [ended EXCEPT ![c] = last],
         counted' = counted \/ counted' = [counted EXCEPT ![c] = CountOf(c, text[c] \o piece)],
         phase = "stream", chunks' = chunks \o more, UNCHANGED <<stream, phase, at>>,
         kind' \in [Indices -> StreamKinds],
         streamed' \in [Indices -> BOOLEAN], semantic' \subseteq Indices, parsed' \subseteq Indices,
         stream.form = "completion" => semantic' = {},
         FinishLast(more), \A d, k : Told(more, d, k) => d = c /\ k \in {"content", "call", "finish"},
         ~Over(c)
  PROVE  ChunkTypes' /\ ChunkPhases' /\ ChunkEnds'
  <1>1. /\ chunks \in Seq(ChunkSet) /\ FinishLast(chunks) /\ text[c] \in Seq(Pieces)
        /\ \A d \in Indices : (\E l \in Finishes : Told(chunks, d, l)) => Over(d)
    BY DEF ChunkInv, ChunkTypes, ChunkEnds, Answered
  <1>2. chunks' \in Seq(ChunkSet) /\ \A d, k : Told(chunks', d, k) <=> Told(chunks, d, k) \/ Told(more, d, k)
    BY <1>1, TwoTold
  <1>3. FinishLast(chunks')
    <2>1. \A d \in Indices, k \in ChunkKinds :
            (\E l \in Finishes : Told(chunks, d, l)) /\ Told(more, d, k) => k = "usage"
      BY <1>1
    <2> QED  BY <1>1, <2>1, TwoTold
  <1>4. PICK t : t = text[c] \o piece
    OBVIOUS
  <1>5. t \in Seq(Pieces) /\ Len(t) \in Nat /\ Len(text[c]) <= Len(t)
    BY <1>1, <1>4, DeltaPieces, GrownText
  <1>6. CountOf(c, t) = Len(t)
    BY <1>5, CountGrows
  <1>7. text' \in [Indices -> Seq(Pieces)] /\ text'[c] = t /\ \A d \in Indices : d # c => text'[d] = text[d]
    BY <1>4, <1>5 DEF ChunkInv, ChunkTypes
  <1>8. counted' \in [Indices -> Nat] /\ \A d \in Indices : counted'[d] <= Len(text'[d])
    <2>1. /\ counted \in [Indices -> Nat] /\ \A d \in Indices : counted[d] <= Len(text[d])
          /\ \A d \in Indices : counted[d] \in Nat /\ Len(text[d]) \in Nat
      BY LenProperties DEF ChunkInv, ChunkTypes
    <2>2. counted' = counted \/ counted' = [counted EXCEPT ![c] = Len(t)]
      BY <1>4, <1>6
    <2> QED  BY <1>5, <1>7, <2>1, <2>2, SMTT(40)
  <1>9. ended' \in [Indices -> BOOLEAN]
    BY DEF ChunkInv, ChunkTypes
  <1>10. ChunkTypes'
    BY <1>2, <1>7, <1>8, <1>9 DEF ChunkInv, ChunkTypes
  <1>11. ChunkPhases'
    BY DEF ChunkInv, ChunkPhases
  <1>12. ChunkEnds'
    <2>1. \A d : ~Told(chunks, d, "done") /\ ~Told(chunks, d, "error") /\ ~Told(chunks, d, "usage")
      BY DEF ChunkInv, ChunkEnds
    <2>2. \A d, k : Told(more, d, k) => k \notin {"done", "error", "usage"}
      OBVIOUS
    <2>3. \A d : ~Told(more, d, "done") /\ ~Told(more, d, "error") /\ ~Told(more, d, "usage")
      BY <2>2, Zenon
    <2>4. \A d : ~Told(chunks', d, "done") /\ ~Told(chunks', d, "error") /\ ~Told(chunks', d, "usage")
      BY <1>2, <2>1, <2>3, Zenon
    <2>5. EndLast(chunks')
      BY <1>2, <2>4, NotEnded
    <2> QED  BY <1>3, <2>4, <2>5 DEF ChunkEnds
  <1> QED  BY <1>10, <1>11, <1>12

\* What is told as content is of its choice.
LEMMA ContentChunkTells ==
  ASSUME NEW c \in Indices, NEW given \in Seq(Pieces)
  PROVE  LET new == ContentChunk(c, given) IN
         /\ new \in Seq(ChunkSet) /\ FinishLast(new)
         /\ \A d : ContentIn(new, d) = IF d = c THEN given ELSE <<>>
         /\ \A d, l : Told(new, d, l) => d = c /\ l = "content"
  <1>1. CASE given # <<>>
    <2>1. "content" \in ChunkKinds
      BY DEF ChunkKinds
    <2>2. LET s == <<Chunk(c, "content", given)>> IN
          /\ s \in Seq(ChunkSet) /\ FinishLast(s)
          /\ \A d : /\ ContentIn(s, d) = IF c = d /\ "content" = "content" THEN given ELSE <<>>
                    /\ \A l : Told(s, d, l) <=> c = d /\ "content" = l
      BY <2>1, OneChunk, ZenonT(60)
    <2>3. ContentChunk(c, given) = <<Chunk(c, "content", given)>>
      BY <1>1 DEF ContentChunk
    <2> QED  BY <2>2, <2>3
  <1>2. CASE given = <<>>
    BY <1>2, NoChunk DEF ContentChunk
  <1> QED  BY <1>1, <1>2

\* A delta of a choice.
LEMMA DeliverKeepsInv ==
  ASSUME ChunkInv, NEW c \in Indices, NEW piece \in Deltas, NEW call \in BOOLEAN,
         NEW last \in BOOLEAN, stream.form # "completion", Deliver(c, piece, call, last)
  PROVE  ChunkInv'
  <1>1. PICK t : t = text[c] \o piece
    OBVIOUS
  <1>2. PICK k : k = NextKind(kind[c], t)
    OBVIOUS
  <1>3. PICK given : given = IF call THEN Beside(piece) ELSE IF k = "text" THEN piece ELSE <<>>
    OBVIOUS
  <1> DEFINE new == ContentChunk(c, given)
             end == IF call THEN <<Chunk(c, "call", <<>>)>> ELSE <<>>
             more == new \o end
  <1>4. /\ phase = "stream" /\ UNCHANGED <<stream, phase, at, closed>> /\ chunks' = chunks \o more
        /\ text' = [text EXCEPT ![c] = t] /\ kind' = [kind EXCEPT ![c] = k]
        /\ streamed' = [streamed EXCEPT ![c] = streamed[c] \/ (piece # <<>> /\ k = "text")]
        /\ ended' = [ended EXCEPT ![c] = last]
        /\ parsed' = parsed \/ parsed' = parsed \cup {c}
        /\ semantic' = IF call THEN semantic \cup {c} ELSE semantic
        /\ counted' = IF call THEN counted ELSE [counted EXCEPT ![c] = CountOf(c, t)]
        /\ call => piece \in {<<"m">>, <<"w", "m">>}
    BY <1>1, <1>2, <1>3 DEF Deliver, Tell
  <1> HIDE DEF more, new, end
  <1>5. /\ text \in [Indices -> Seq(Pieces)] /\ kind \in [Indices -> StreamKinds]
        /\ streamed \in [Indices -> BOOLEAN] /\ semantic \subseteq Indices /\ parsed \subseteq Indices
        /\ chunks \in Seq(ChunkSet)
    BY DEF ChunkInv, ChunkTypes
  <1>6. /\ piece \in Seq(Pieces) /\ t \in Seq(Pieces) /\ Len(text[c]) <= Len(t)
        /\ text[c] \in Seq(Pieces) /\ text[c] \o <<>> = text[c]
        /\ Blank(t) <=> Blank(text[c]) /\ Blank(piece)
        /\ ~Blank(text[c]) => (LooksLikeCall(t) <=> LooksLikeCall(text[c]))
        /\ given \in Seq(Pieces) /\ (call => NoMarkup(given) /\ ~Blank(piece))
    <2>1. text[c] \in Seq(Pieces)
      BY <1>5
    <2>2. /\ piece \in Seq(Pieces) /\ Beside(piece) \in Seq(Pieces) /\ NoMarkup(Beside(piece))
          /\ call => ~Blank(piece)
      BY <1>4, DeltaPieces
    <2>3. given \in Seq(Pieces) /\ (call => NoMarkup(given))
      <3>1. <<>> \in Seq(Pieces)
        OBVIOUS
      <3> QED  BY <1>3, <2>2, <3>1, Zenon
    <2> QED  BY <1>1, <2>1, <2>2, <2>3, GrownText, ZenonT(60)
  <1>7. k \in StreamKinds /\ k # "none"
    BY <1>2, <1>5 DEF NextKind, StreamKinds
  <1>8. at = 1 /\ (\A d \in Indices : ~Over(d) /\ ~Over(d)')
    BY <1>4, IndicesAreNumbers DEF ChunkInv, ChunkPhases, Over, Due
  <1>9. /\ more \in Seq(ChunkSet) /\ FinishLast(more)
        /\ \A d : ContentIn(more, d) = IF d = c THEN given ELSE <<>>
        /\ \A d, l : Told(more, d, l) => d = c /\ l \in {"content", "call"}
        /\ Told(more, c, "call") <=> call
    <2>1. /\ new \in Seq(ChunkSet) /\ FinishLast(new)
          /\ \A d : ContentIn(new, d) = IF d = c THEN given ELSE <<>>
          /\ \A d, l : Told(new, d, l) => d = c /\ l = "content"
      BY <1>6, ContentChunkTells DEF new
    <2>2. /\ end \in Seq(ChunkSet) /\ FinishLast(end)
          /\ \A d : ContentIn(end, d) = <<>>
          /\ \A d, l : Told(end, d, l) <=> call /\ d = c /\ l = "call"
      <3>1. CASE call
        <4>1. "call" \in ChunkKinds /\ <<>> \in Seq(Pieces)
          BY DEF ChunkKinds
        <4>2. LET s == <<Chunk(c, "call", <<>>)>> IN
              /\ s \in Seq(ChunkSet) /\ FinishLast(s)
              /\ \A d : /\ ContentIn(s, d) = IF c = d /\ "call" = "content" THEN <<>> ELSE <<>>
                        /\ \A l : Told(s, d, l) <=> c = d /\ "call" = l
          BY <4>1, OneChunk, ZenonT(60)
        <4> QED  BY <3>1, <4>2 DEF end
      <3>2. CASE ~call
        BY <3>2, NoChunk DEF end
      <3> QED  BY <3>1, <3>2
    <2>3. \A d, l : Told(more, d, l) <=> Told(new, d, l) \/ Told(end, d, l)
      BY <2>1, <2>2, TwoTold DEF more
    <2>4. \A d : ContentIn(more, d) = ContentIn(new, d) \o ContentIn(end, d)
      BY <2>1, <2>2, ContentConcat DEF more
    <2>5. \A d : ContentIn(new, d) \o <<>> = ContentIn(new, d)
      BY <2>1, ContentSequence
    <2>6. \A d : \A l \in Finishes : ~Told(new, d, l)
      BY <2>1 DEF Finishes
    <2>7. more \in Seq(ChunkSet) /\ FinishLast(more)
      BY <2>1, <2>2, <2>6, TwoTold DEF more
    <2>8. \A d : ContentIn(more, d) = ContentIn(new, d)
      BY <2>2, <2>4, <2>5
    <2>9. ~Told(new, c, "call")
      BY <2>1
    <2> QED  BY <2>1, <2>2, <2>3, <2>7, <2>8, <2>9
  <1>10. ASSUME NEW d \in Indices, d # c PROVE Answered(d)'
    <2>1. Answered(d)
      BY DEF ChunkInv
    <2>2. text'[d] = text[d] /\ kind'[d] = kind[d] /\ streamed'[d] = streamed[d]
      BY <1>4, <1>5, <1>10
    <2>3. (d \in semantic' <=> d \in semantic) /\ (d \in parsed' <=> d \in parsed)
      BY <1>4, <1>10
    <2>4. ContentIn(more, d) = <<>> /\ \A l : ~Told(more, d, l)
      BY <1>9, <1>10
    <2> QED  BY <1>4, <1>5, <1>8, <1>9, <2>1, <2>2, <2>3, <2>4, ChoiceKept
  <1>11. Unfinished(c)
    BY <1>8 DEF ChunkInv, Answered
  <1>12. Content(c)' = Content(c) \o given /\ Content(c) \in Seq(Pieces) /\ Content(c) \o <<>> = Content(c)
    <2>1. ContentIn(chunks \o more, c) = ContentIn(chunks, c) \o ContentIn(more, c)
      BY <1>5, <1>9, ContentConcat
    <2>2. Content(c) \in Seq(Pieces)
      BY <1>5, ContentSequence DEF Content
    <2>3. Content(c) \o <<>> = Content(c)
      BY <2>2
    <2> QED  BY <1>4, <1>9, <2>1, <2>2, <2>3 DEF Content
  <1>13. /\ text'[c] = t /\ kind'[c] = k /\ (c \in semantic' <=> c \in semantic \/ call)
         /\ streamed'[c] <=> streamed[c] \/ (piece # <<>> /\ k = "text")
    BY <1>4, <1>5
  <1>14. Unfinished(c)'
    <2>1. Told(chunks', c, "call") <=> c \in semantic'
      <3>1. Told(chunks \o more, c, "call") <=> Told(chunks, c, "call") \/ Told(more, c, "call")
        BY <1>5, <1>9, TwoTold
      <3> QED  BY <1>4, <1>9, <1>11, <1>13, <3>1 DEF Unfinished
    <2>2. ASSUME k = "undecided" PROVE Blank(t) /\ Content(c)' = <<>> /\ ~streamed'[c]
      <3>1. kind[c] \in {"none", "undecided"} /\ Blank(t)
        BY <1>2, <1>5, <2>2 DEF NextKind, StreamKinds
      <3>2. Content(c) = <<>> /\ ~streamed[c] /\ ~call
        BY <1>6, <1>11, <3>1 DEF Unfinished
      <3>3. given = <<>>
        BY <1>3, <2>2, <3>2
      <3> QED  BY <1>12, <1>13, <2>2, <3>1, <3>2, <3>3
    <2>3. ASSUME k = "text"
          PROVE  /\ ~Blank(t) /\ streamed'[c] /\ ~(stream.tools /\ LooksLikeCall(t))
                 /\ c \notin semantic' => AllButBlanks(t, Content(c)')
      <3>1. CASE kind[c] = "text"
        <4>1. /\ ~Blank(text[c]) /\ streamed[c] /\ ~(stream.tools /\ LooksLikeCall(text[c]))
              /\ c \notin semantic => AllButBlanks(text[c], Content(c))
          BY <1>11, <3>1 DEF Unfinished
        <4>2. ASSUME c \notin semantic' PROVE AllButBlanks(t, Content(c)')
          <5>1. AllButBlanks(text[c], Content(c)) /\ given = piece
            BY <1>3, <1>13, <2>3, <4>1, <4>2
          <5> QED  BY <1>1, <1>6, <1>12, <5>1, ToldGrows
        <4> QED  BY <1>6, <1>13, <4>1, <4>2
      <3>2. CASE kind[c] # "text"
        <4>1. kind[c] \in {"none", "undecided"} /\ ~Blank(t) /\ ~(stream.tools /\ LooksLikeCall(t))
          BY <1>2, <1>5, <2>3, <3>2 DEF NextKind, StreamKinds
        <4>2. Blank(text[c]) /\ Content(c) = <<>>
          BY <1>11, <4>1 DEF Unfinished
        <4>3. ~Blank(piece) /\ piece # <<>>
          <5>1. ~Blank(piece)
            BY <1>6, <4>1, <4>2
          <5> QED  BY <5>1 DEF Blank
        <4>4. ASSUME c \notin semantic' PROVE AllButBlanks(t, Content(c)')
          <5>1. given = piece /\ Content(c)' = <<>> \o piece
            BY <1>3, <1>12, <1>13, <2>3, <4>2, <4>4
          <5>2. Content(c)' = piece
            BY <1>6, <5>1
          <5>3. AllButBlanks(text[c] \o piece, piece)
            BY <1>6, <4>2, <4>3, BlanksLost
          <5> QED  BY <1>1, <5>2, <5>3
        <4> QED  BY <1>13, <2>3, <4>1, <4>3, <4>4
      <3> QED  BY <3>1, <3>2
    <2>4. ASSUME k = "tool_calls"
          PROVE  /\ ~streamed'[c] /\ LooksLikeCall(t) /\ NoMarkup(Content(c)')
                 /\ c \notin semantic' => Content(c)' = <<>>
      <3>1. /\ NoMarkup(Content(c)) /\ (c \notin semantic => Content(c) = <<>>)
            /\ ~streamed[c] /\ LooksLikeCall(t)
        <4>1. CASE kind[c] = "tool_calls"
          <5>1. ~Blank(text[c])
            BY <1>11, <4>1, CallNotBlank DEF Unfinished
          <5> QED  BY <1>6, <1>11, <4>1, <5>1 DEF Unfinished
        <4>2. CASE kind[c] # "tool_calls"
          <5>1. kind[c] \in {"none", "undecided"} /\ LooksLikeCall(t)
            BY <1>2, <1>5, <2>4, <4>2 DEF NextKind, StreamKinds
          <5>2. Content(c) = <<>> /\ ~streamed[c]
            BY <1>11, <5>1 DEF Unfinished
          <5>3. NoMarkup(<<>>)
            BY DEF NoMarkup
          <5> QED  BY <5>1, <5>2, <5>3
        <4> QED  BY <4>1, <4>2
      <3>2. ~streamed'[c]
        BY <1>13, <2>4, <3>1
      <3>3. CASE call
        BY <1>6, <1>12, <1>13, <3>1, <3>2, <3>3, GrownText
      <3>4. CASE ~call
        BY <1>3, <1>12, <1>13, <2>4, <3>1, <3>2, <3>4
      <3> QED  BY <3>3, <3>4
    <2> QED  BY <1>4, <1>7, <1>13, <2>1, <2>2, <2>3, <2>4 DEF Unfinished
  <1>15. Answered(c)'
    <2>1. \A l \in Finishes : ~Told(chunks', c, l)
      <3>1. \A l \in Finishes : ~Told(chunks, c, l)
        BY <1>8 DEF ChunkInv, Answered
      <3>2. \A l \in Finishes : ~Told(more, c, l)
        BY <1>9 DEF Finishes
      <3> QED  BY <1>4, <1>5, <1>9, <3>1, <3>2, TwoTold
    <2> QED  BY <1>4, <1>8, <1>14, <2>1 DEF Answered
  <1>16. ChunkTypes' /\ ChunkPhases' /\ ChunkEnds'
    <2>1. /\ kind' \in [Indices -> StreamKinds]
          /\ streamed' \in [Indices -> BOOLEAN] /\ semantic' \subseteq Indices /\ parsed' \subseteq Indices
      BY <1>4, <1>5, <1>7
    <2>2. counted' = counted \/ counted' = [counted EXCEPT ![c] = CountOf(c, text[c] \o piece)]
      BY <1>1, <1>4
    <2>3. \A d, l : Told(more, d, l) => d = c /\ l \in {"content", "call", "finish"}
      BY <1>9
    <2> QED  BY <1>1, <1>4, <1>8, <1>9, <2>1, <2>2, <2>3, DeliveredTypes
  <1>17. Counted'
    <2>1. CASE call
      BY <1>4, <2>1 DEF Counted
    <2>2. CASE ~call
      <3>1. CountOf(c, t) = Len(t)
        BY <1>6, CountGrows
      <3>2. counted \in [Indices -> Nat] /\ (semantic = {} => \A d \in Indices : counted[d] = Len(text[d]))
        BY DEF ChunkInv, ChunkTypes, Counted
      <3> QED  BY <1>4, <1>5, <2>2, <3>1, <3>2 DEF Counted
    <2> QED  BY <2>1, <2>2
  <1> QED  BY <1>10, <1>15, <1>16, <1>17 DEF ChunkInv

\* A delta of text.
LEMMA DeliverTextKeepsInv ==
  ASSUME ChunkInv, NEW c \in Indices, NEW piece \in Deltas, NEW last \in BOOLEAN,
         stream.form = "completion", DeliverText(c, piece, last)
  PROVE  ChunkInv'
  <1>1. PICK t : t = text[c] \o piece
    OBVIOUS
  <1>2. PICK new : new = ContentChunk(c, piece)
    OBVIOUS
  <1>3. PICK end : end = IF last THEN <<Chunk(c, "finish", <<>>)>> ELSE <<>>
    OBVIOUS
  <1>4. PICK more : more = new \o end
    OBVIOUS
  <1>5. /\ phase = "stream" /\ ~ended[c] /\ chunks' = chunks \o more
        /\ text' = [text EXCEPT ![c] = t] /\ ended' = [ended EXCEPT ![c] = last]
        /\ counted' = [counted EXCEPT ![c] = CountOf(c, t)]
        /\ UNCHANGED <<stream, phase, kind, streamed, semantic, parsed, at, closed>>
    BY <1>1, <1>2, <1>3, <1>4 DEF DeliverText, Tell
  <1>6. /\ text \in [Indices -> Seq(Pieces)] /\ kind \in [Indices -> StreamKinds]
        /\ streamed \in [Indices -> BOOLEAN] /\ semantic \subseteq Indices /\ parsed \subseteq Indices
        /\ chunks \in Seq(ChunkSet) /\ ended \in [Indices -> BOOLEAN]
        /\ semantic = {}
    BY DEF ChunkInv, ChunkTypes, ChunkPhases
  <1>7. piece \in Seq(Pieces) /\ t \in Seq(Pieces) /\ Len(text[c]) <= Len(t) /\ text[c] \o <<>> = text[c]
    <2>1. text[c] \in Seq(Pieces)
      BY <1>6
    <2>2. piece \in Seq(Pieces)
      BY DeltaPieces
    <2> QED  BY <1>1, <2>1, <2>2, GrownText, ZenonT(60)
  <1>8. /\ ~Over(c) /\ (Over(c)' <=> last)
        /\ \A d \in Indices : d # c => (Over(d)' <=> Over(d))
    BY <1>5, <1>6 DEF Over, Due
  <1>9. /\ new \in Seq(ChunkSet) /\ FinishLast(new)
        /\ \A d : ContentIn(new, d) = IF d = c THEN piece ELSE <<>>
        /\ \A d, l : Told(new, d, l) => d = c /\ l = "content"
    BY <1>2, <1>7, ContentChunkTells
  <1>10. /\ end \in Seq(ChunkSet) /\ FinishLast(end)
         /\ \A d : ContentIn(end, d) = <<>>
         /\ \A d, l : Told(end, d, l) <=> last /\ d = c /\ l = "finish"
    <2>1. CASE last
      <3>1. "finish" \in ChunkKinds /\ <<>> \in Seq(Pieces)
        BY DEF ChunkKinds
      <3>2. LET s == <<Chunk(c, "finish", <<>>)>> IN
            /\ s \in Seq(ChunkSet) /\ FinishLast(s)
            /\ \A d : /\ ContentIn(s, d) = IF c = d /\ "finish" = "content" THEN <<>> ELSE <<>>
                      /\ \A l : Told(s, d, l) <=> c = d /\ "finish" = l
        BY <3>1, OneChunk, ZenonT(60)
      <3> QED  BY <1>3, <2>1, <3>2
    <2>2. CASE ~last
      BY <1>3, <2>2, NoChunk
    <2> QED  BY <2>1, <2>2
  <1>11. /\ more \in Seq(ChunkSet) /\ FinishLast(more)
         /\ \A d : ContentIn(more, d) = IF d = c THEN piece ELSE <<>>
         /\ \A d, l : Told(more, d, l) <=> Told(new, d, l) \/ (last /\ d = c /\ l = "finish")
    <2>1. \A d, l : Told(more, d, l) <=> Told(new, d, l) \/ Told(end, d, l)
      BY <1>4, <1>9, <1>10, TwoTold
    <2>2. \A d : ContentIn(more, d) = ContentIn(new, d) \o ContentIn(end, d)
      BY <1>4, <1>9, <1>10, ContentConcat
    <2>3. \A d : ContentIn(new, d) \o <<>> = ContentIn(new, d)
      BY <1>9, ContentSequence
    <2>4. \A d : \A k \in Finishes : ~Told(new, d, k)
      BY <1>9 DEF Finishes
    <2>5. FinishLast(new \o end)
      BY <1>9, <1>10, <2>4, TwoTold
    <2>6. new \o end \in Seq(ChunkSet)
      BY <1>9, <1>10
    <2>7. \A d : ContentIn(more, d) = ContentIn(new, d)
      BY <1>10, <2>2, <2>3
    <2> QED  BY <1>4, <1>9, <1>10, <2>1, <2>5, <2>6, <2>7
  <1>12. ASSUME NEW d \in Indices, d # c PROVE Answered(d)'
    <2>1. Answered(d)
      BY DEF ChunkInv
    <2>2. /\ text'[d] = text[d] /\ kind'[d] = kind[d] /\ streamed'[d] = streamed[d]
          /\ semantic' = semantic /\ parsed' = parsed
      BY <1>5, <1>6, <1>12
    <2>3. ContentIn(more, d) = <<>> /\ \A l : ~Told(more, d, l)
      BY <1>9, <1>11, <1>12
    <2>4. Over(d)' <=> Over(d)
      BY <1>8, <1>12
    <2> QED  BY <1>5, <1>6, <1>11, <2>1, <2>2, <2>3, <2>4, ChoiceKept
  <1>13. Answered(c)'
    <2>1. /\ Answered(c) /\ Content(c) = text[c] /\ ~Told(chunks, c, "call") /\ ~Told(chunks, c, "finishCalls")
          /\ \A k \in Finishes : ~Told(chunks, c, k)
      BY <1>8 DEF ChunkInv, Answered
    <2>2. \A l : Told(chunks', c, l) <=> Told(chunks, c, l) \/ Told(more, c, l)
      BY <1>5, <1>6, <1>11, TwoTold
    <2>3. /\ ~Told(more, c, "call") /\ ~Told(more, c, "finishCalls") /\ (Told(more, c, "finish") <=> last)
      <3>1. \A l : Told(new, c, l) => l \notin {"call", "finish", "finishCalls"}
        BY <1>9
      <3>2. ~Told(new, c, "call") /\ ~Told(new, c, "finishCalls") /\ ~Told(new, c, "finish")
        BY <3>1, Zenon
      <3> QED  BY <1>11, <3>2
    <2>4. Content(c)' = t
      <3>1. ContentIn(chunks \o more, c) = ContentIn(chunks, c) \o ContentIn(more, c)
        BY <1>6, <1>11, ContentConcat
      <3>2. ContentIn(more, c) = piece
        BY <1>11
      <3> QED  BY <1>1, <1>5, <2>1, <3>1, <3>2 DEF Content
    <2>5. text'[c] = t
      BY <1>5, <1>6
    <2>6. Over(c)' <=> \E k \in Finishes : Told(chunks', c, k)
      BY <1>8, <2>1, <2>2, <2>3 DEF Finishes
    <2>7. ~Told(chunks', c, "call") /\ ~Told(chunks', c, "finishCalls")
      BY <2>1, <2>2, <2>3
    <2> QED  BY <1>5, <2>4, <2>5, <2>6, <2>7 DEF Answered
  <1>14. ChunkTypes' /\ ChunkPhases' /\ ChunkEnds'
    <2>1. /\ kind' \in [Indices -> StreamKinds]
          /\ streamed' \in [Indices -> BOOLEAN] /\ semantic' \subseteq Indices /\ parsed' \subseteq Indices
          /\ semantic' = {}
      BY <1>5, <1>6
    <2>2. \A d, l : Told(more, d, l) => d = c /\ l \in {"content", "call", "finish"}
      BY <1>9, <1>11
    <2> QED  BY <1>1, <1>5, <1>8, <1>11, <2>1, <2>2, DeliveredTypes
  <1>15. Counted'
    <2>1. CountOf(c, t) = Len(t)
      BY <1>7, CountGrows
    <2>2. counted \in [Indices -> Nat] /\ \A d \in Indices : counted[d] = Len(text[d])
      BY <1>6 DEF ChunkInv, ChunkTypes, Counted
    <2> QED  BY <1>5, <1>6, <2>1, <2>2 DEF Counted
  <1> QED  BY <1>12, <1>13, <1>14, <1>15 DEF ChunkInv

\* Every step of the stream preserves its inductive invariant.
LEMMA ChunkInvStep ==
  ASSUME ChunkInv, [ChunksNext]_chunksVars
  PROVE  ChunkInv'
  <1>1. ASSUME NEW c \in Indices, NEW piece \in Deltas, NEW last \in BOOLEAN,
               IF stream.form = "completion"
               THEN DeliverText(c, piece, last)
               ELSE \E call \in BOOLEAN : Deliver(c, piece, call, last)
        PROVE  ChunkInv'
    BY <1>1, DeliverKeepsInv, DeliverTextKeepsInv
  <1>2. CASE Open \/ LeaveEarly
    BY <1>2, OpenKeepsInv
  <1>3. CASE Exhausted
    BY <1>3, ExhaustedKeepsInv
  <1>4. CASE CloseChoice
    BY <1>4, CloseChoiceKeepsInv
  <1>5. CASE CloseRefused \/ EngineError
    BY <1>5, FailedKeepsInv
  <1>6. CASE CloseCollected
    BY <1>6, CloseCollectedKeepsInv
  <1>7. CASE Usage
    BY <1>7, UsageKeepsInv
  <1>8. CASE Done
    BY <1>8, DoneKeepsInv
  <1>9. CASE Disconnect
    BY <1>9, DisconnectKeepsInv
  <1>11. CASE SkipUnseen
    BY <1>11, SkipUnseenKeepsInv
  <1>10. CASE UNCHANGED chunksVars
    <2>1. UNCHANGED <<stream, state, at, chunks>> /\ phase' = phase /\ closed' = closed
      BY <1>10 DEF chunksVars
    <2>2. /\ (\A c \in Indices : Answered(c))' /\ Counted' /\ FinishLast(chunks') /\ EndLast(chunks')
          /\ \A c \in Indices : Over(c)' <=> Over(c)
          /\ \A c, k : Told(chunks', c, k) <=> Told(chunks, c, k)
      BY <2>1, SilentKeepsInv
    <2>3. ChunkTypes'
      BY <2>1, QuietTypes DEF ChunkInv, ChunkTypes
    <2>4. ChunkPhases'
      BY <2>1, <2>2 DEF ChunkInv, ChunkPhases, Due, state
    <2>5. ChunkEnds'
      BY <2>1, <2>2 DEF ChunkInv, ChunkEnds, state
    <2> QED  BY <2>2, <2>3, <2>4, <2>5 DEF ChunkInv
  <1> QED  BY <1>1, <1>2, <1>3, <1>4, <1>5, <1>6, <1>7, <1>8, <1>9, <1>10,
         <1>11 DEF ChunksNext

\* The invariant of a stream of chunks.
THEOREM ChunkInvariant == ChunksSpec => []ChunkInv
  BY ChunkInvInit, ChunkInvStep, PTL DEF ChunksSpec

\* Every choice is finished at most once and nothing of it follows its finish chunk;
\* the sentinel comes last, once every choice it waits for is finished, and after no
\* error; the usage reported is the number of tokens (streaming_events, stream_completion).
THEOREM ChunksEndOnce == ChunksSpec => []StreamEndsOnce
  <1>1. ChunkInv => StreamEndsOnce
    BY ChunkInvImplies
  <1> QED  BY <1>1, ChunkInvariant, PTL

\* A choice that ends without calls has told its text in order, what was kept back as
\* a possible call included: the whole of it in a text completion, elsewhere all but
\* blanks it begins with, missing only when other text follows
\* (AssistantOutputStreamState.update).  One that becomes a call has told no markup.
THEOREM ChunksDeliver == ChunksSpec => []ContentDelivered
  <1>1. ChunkInv => ContentDelivered
    BY ChunkInvImplies
  <1> QED  BY <1>1, ChunkInvariant, PTL

\* The finish reason of a choice says whether a call of it was told, but for a round
\* of the tool loop whose parser saw the call only at the end.
THEOREM ChunksTellCalls == ChunksSpec => []CallsTold
  <1>1. ChunkInv => CallsTold
    BY ChunkInvImplies
  <1> QED  BY <1>1, ChunkInvariant, PTL

-----------------------------------------------------------------------------
(* Sequences put one after the other. *)

\* What holds of the empty sequence, and of a sequence with one more element when
\* it holds of the sequence, holds of all; the set is of those of which it holds.
LEMMA SequencesFromAppend ==
  ASSUME NEW X, NEW T, <<>> \in T,
         \A s \in Seq(X) : s \in T => \A x \in X : Append(s, x) \in T
  PROVE  \A s \in Seq(X) : s \in T
  <1> SUFFICES ASSUME NEW s \in Seq(X), s \notin T PROVE FALSE
    OBVIOUS
  <1> DEFINE part(n) == SubSeq(s, 1, n)
             S == {n \in 0..Len(s) : part(n) \notin T}
  <1>1. Len(s) \in Nat /\ part(Len(s)) = s
    BY LenProperties
  <1>2. S \subseteq Nat /\ S # {}
    <2>1. Len(s) \in 0..Len(s)
      BY <1>1
    <2>2. Len(s) \in S
      BY <1>1, <2>1
    <2> QED  BY <2>2
  <1> HIDE DEF S
  <1>3. PICK n \in S : \A k \in S : n <= k
    BY <1>2, LeastExists
  <1>4. n \in 0..Len(s) /\ part(n) \notin T
    BY <1>3 DEF S
  <1>5. n # 0
    <2>1. part(0) = <<>>
      BY <1>1
    <2> HIDE DEF part
    <2> QED  BY <1>4, <2>1
  <1>6. /\ n - 1 \in 0..Len(s) /\ n - 1 \notin S /\ n \in 1..Len(s)
        /\ part(n - 1) \in Seq(X) /\ s[n] \in X /\ part(n) = Append(part(n - 1), s[n])
    <2>1. n - 1 \in 0..Len(s) /\ n \in 1..Len(s) /\ n - 1 < n
      BY <1>1, <1>4, <1>5
    <2>2. n - 1 \notin S
      BY <1>1, <1>3, <1>4, <2>1
    <2> QED  BY <1>1, <2>1, <2>2, ElementOfSeq
  <1>7. part(n - 1) \in T
    BY <1>6 DEF S
  <1> HIDE DEF part
  <1> QED  BY <1>4, <1>6, <1>7

\* u adds up the first n parts.
AddsUp(u, parts, n) ==
  u[0] = <<>> /\ \A i \in 1..n : u[i] = u[i - 1] \o parts[i]

\* Two ways to add up the same parts agree.
LEMMA AddsUpOnce ==
  ASSUME NEW u, NEW v, NEW parts, NEW more, NEW n \in Nat,
         AddsUp(u, parts, n), AddsUp(v, more, n), \A i \in 1..n : parts[i] = more[i]
  PROVE  \A i \in 0..n : u[i] = v[i]
  <1> DEFINE S == {i \in 0..n : u[i] # v[i]}
  <1> SUFFICES ASSUME S # {} PROVE FALSE
    OBVIOUS
  <1>1. S \subseteq Nat
    OBVIOUS
  <1> HIDE DEF S
  <1>2. PICK i \in S : \A j \in S : i <= j
    BY <1>1, LeastExists
  <1>3. i \in 0..n /\ u[i] # v[i]
    BY <1>2 DEF S
  <1>4. i # 0
    BY <1>3 DEF AddsUp
  <1>5. i - 1 \in 0..n /\ i - 1 \notin S /\ i \in 1..n
    BY <1>2, <1>3, <1>4
  <1>6. u[i - 1] = v[i - 1]
    BY <1>5 DEF S
  <1>7. u[i] = u[i - 1] \o parts[i] /\ v[i] = v[i - 1] \o more[i] /\ parts[i] = more[i]
    BY <1>5 DEF AddsUp
  <1> QED  BY <1>3, <1>6, <1>7

\* There is such a function, defined for each n.
LEMMA AddsUpExists ==
  ASSUME NEW X, NEW parts \in Seq(Seq(X))
  PROVE  \E u \in [0..Len(parts) -> Seq(X)] : AddsUp(u, parts, Len(parts))
  <1> DEFINE T == {s \in Seq(Seq(X)) : \E u \in [0..Len(s) -> Seq(X)] : AddsUp(u, s, Len(s))}
  <1>1. <<>> \in T
    <2>1. PICK none : none = <<>>
      OBVIOUS
    <2>2. none \in Seq(Seq(X)) /\ Len(none) = 0 /\ none \in Seq(X)
      BY <2>1
    <2>3. PICK u : u = [i \in 0..0 |-> none]
      OBVIOUS
    <2>4. u \in [0..0 -> Seq(X)] /\ u[0] = none
      BY <2>2, <2>3
    <2>5. AddsUp(u, none, 0)
      BY <2>1, <2>4 DEF AddsUp
    <2> QED  BY <2>1, <2>2, <2>4, <2>5
  <1>2. ASSUME NEW s \in Seq(Seq(X)), s \in T, NEW p \in Seq(X) PROVE Append(s, p) \in T
    <2>1. PICK u \in [0..Len(s) -> Seq(X)] : AddsUp(u, s, Len(s))
      BY <1>2
    <2>2. PICK n, t : n = Len(s) /\ t = Append(s, p)
      OBVIOUS
    <2>3. n \in Nat /\ t \in Seq(Seq(X)) /\ Len(t) = n + 1 /\ t[n + 1] = p /\ \A i \in 1..n : t[i] = s[i]
      BY <2>2, LenProperties
    <2>4. PICK v : v = [i \in 0..n + 1 |-> IF i = n + 1 THEN u[n] \o p ELSE u[i]]
      OBVIOUS
    <2>5. n \in 0..n /\ n + 1 \in 0..n + 1 /\ 0 \in 0..n /\ \A i \in 0..n : i \in 0..n + 1 /\ i # n + 1
      BY <2>3
    <2>6. u[n] \o p \in Seq(X)
      BY <2>1, <2>2, <2>5
    <2>7. v[n + 1] = u[n] \o p /\ \A i \in 0..n : v[i] = u[i]
      BY <2>4, <2>5, Zenon
    <2>8. v \in [0..n + 1 -> Seq(X)]
      <3>1. \A i \in 0..n + 1 : (IF i = n + 1 THEN u[n] \o p ELSE u[i]) \in Seq(X)
        <4> TAKE i \in 0..n + 1
        <4>1. CASE i = n + 1
          BY <2>6, <4>1, Zenon
        <4>2. CASE i # n + 1
          <5>1. i \in 0..n
            BY <2>3, <4>2
          <5>2. u[i] \in Seq(X)
            BY <2>1, <2>2, <5>1
          <5> QED  BY <4>2, <5>2, Zenon
        <4> QED  BY <4>1, <4>2
      <3> QED  BY <2>4, <3>1, Zenon
    <2>9. AddsUp(v, t, n + 1)
      <3>1. v[0] = <<>>
        BY <2>1, <2>5, <2>7, Zenon DEF AddsUp
      <3>2. ASSUME NEW i \in 1..n + 1 PROVE v[i] = v[i - 1] \o t[i]
        <4>1. i - 1 \in 0..n
          BY <2>3
        <4>2. v[i - 1] = u[i - 1]
          BY <2>7, <4>1
        <4>3. CASE i = n + 1
          <5>1. i - 1 = n
            BY <2>3, <4>3
          <5> QED  BY <2>3, <2>7, <4>2, <4>3, <5>1
        <4>4. CASE i # n + 1
          <5>1. i \in 1..n /\ i \in 0..n
            BY <2>3, <4>4
          <5>2. u[i] = u[i - 1] \o s[i]
            BY <2>1, <2>2, <5>1 DEF AddsUp
          <5> QED  BY <2>3, <2>7, <4>2, <5>1, <5>2
        <4> QED  BY <4>3, <4>4
      <3> QED  BY <3>1, <3>2 DEF AddsUp
    <2>10. t \in T
      BY <2>3, <2>8, <2>9
    <2> QED  BY <2>2, <2>10
  <1> HIDE DEF T
  <1>3. \A s \in Seq(Seq(X)) : s \in T
    BY <1>1, <1>2, SequencesFromAppend
  <1>4. parts \in T
    BY <1>3
  <1> QED  BY <1>4 DEF T

\* Joined adds the parts up.
LEMMA JoinedAddsUp ==
  ASSUME NEW X, NEW parts \in Seq(Seq(X))
  PROVE  \E u \in [0..Len(parts) -> Seq(X)] :
            AddsUp(u, parts, Len(parts)) /\ Joined(parts) = u[Len(parts)]
  <1>1. PICK u \in [0..Len(parts) -> Seq(X)] : AddsUp(u, parts, Len(parts))
    BY AddsUpExists
  <1>2. Len(parts) \in Nat
    BY LenProperties
  <1> DEFINE Sums(v) == v = [i \in 0..Len(parts) |-> IF i = 0 THEN <<>> ELSE v[i - 1] \o parts[i]]
             upTo == CHOOSE v : Sums(v)
  <1>3. Sums(u)
    <2>1. u = [i \in 0..Len(parts) |-> u[i]]
      BY <1>1
    <2>2. ASSUME NEW i \in 0..Len(parts)
          PROVE  u[i] = IF i = 0 THEN <<>> ELSE u[i - 1] \o parts[i]
      <3>1. CASE i = 0
        BY <1>1, <3>1, Zenon DEF AddsUp
      <3>2. CASE i # 0
        <4>1. i \in 1..Len(parts)
          BY <1>2, <3>2
        <4>2. u[i] = u[i - 1] \o parts[i]
          BY <1>1, <4>1, Zenon DEF AddsUp
        <4> QED  BY <3>2, <4>2, Zenon
      <3> QED  BY <3>1, <3>2
    <2> QED  BY <2>1, <2>2, Zenon
  <1>4. Sums(upTo)
    <2> HIDE DEF Sums
    <2> QED  BY <1>3
  <1>5. Joined(parts) = upTo[Len(parts)]
    BY DEF Joined
  <1> HIDE DEF upTo
  <1>6. AddsUp(upTo, parts, Len(parts))
    <2>1. 0 \in 0..Len(parts)
      BY <1>2
    <2>2. \A i \in 0..Len(parts) : upTo[i] = IF i = 0 THEN <<>> ELSE upTo[i - 1] \o parts[i]
      BY <1>4
    <2>3. \A i \in 1..Len(parts) : i \in 0..Len(parts) /\ i # 0
      BY <1>2
    <2> HIDE DEF Sums
    <2> QED  BY <2>1, <2>2, <2>3 DEF AddsUp
  <1>7. Len(parts) \in 0..Len(parts)
    BY <1>2
  <1>8. upTo[Len(parts)] = u[Len(parts)]
    <2>1. \A i \in 0..Len(parts) : upTo[i] = u[i]
      <3>1. \A i \in 1..Len(parts) : parts[i] = parts[i]
        OBVIOUS
      <3> HIDE DEF Sums
      <3> QED  BY <1>1, <1>2, <1>6, <3>1, AddsUpOnce
    <2> QED  BY <1>7, <2>1
  <1> QED  BY <1>1, <1>5, <1>8

\* Joining nothing, and one part more.
LEMMA JoinedParts ==
  ASSUME NEW X, NEW parts \in Seq(Seq(X)), NEW p \in Seq(X)
  PROVE  /\ Joined(<<>>) = <<>>
         /\ Joined(parts) \in Seq(X)
         /\ Joined(Append(parts, p)) = Joined(parts) \o p
  <1>1. Joined(<<>>) = <<>>
    <2>1. PICK none : none = <<>>
      OBVIOUS
    <2>2. none \in Seq(Seq(X)) /\ Len(none) = 0
      BY <2>1
    <2>3. PICK u \in [0..Len(none) -> Seq(X)] : AddsUp(u, none, Len(none)) /\ Joined(none) = u[Len(none)]
      BY <2>2, JoinedAddsUp
    <2> QED  BY <2>1, <2>2, <2>3 DEF AddsUp
  <1>2. PICK n, t : n = Len(parts) /\ t = Append(parts, p)
    OBVIOUS
  <1>3. n \in Nat /\ t \in Seq(Seq(X)) /\ Len(t) = n + 1 /\ t[n + 1] = p /\ \A i \in 1..n : parts[i] = t[i]
    BY <1>2, LenProperties
  <1>4. PICK u \in [0..n -> Seq(X)] : AddsUp(u, parts, n) /\ Joined(parts) = u[n]
    BY <1>2, JoinedAddsUp
  <1>5. PICK v \in [0..n + 1 -> Seq(X)] : AddsUp(v, t, n + 1) /\ Joined(t) = v[n + 1]
    BY <1>3, JoinedAddsUp
  <1>6. n \in 0..n /\ n + 1 \in 1..n + 1 /\ (n + 1) - 1 = n
    BY <1>3
  <1>7. AddsUp(v, t, n)
    <2>1. \A i \in 1..n : i \in 1..n + 1
      BY <1>3
    <2> QED  BY <1>5, <2>1 DEF AddsUp
  <1>8. u[n] = v[n]
    <2>1. \A i \in 1..n : parts[i] = t[i]
      BY <1>3
    <2>2. \A i \in 0..n : u[i] = v[i]
      <3>1. n \in Nat
        BY <1>3
      <3>2. AddsUp(u, parts, n)
        BY <1>4
      <3>3. PICK m, a, b, c, d : m = n /\ a = u /\ b = v /\ c = parts /\ d = t
        OBVIOUS
      <3>4. m \in Nat /\ AddsUp(a, c, m) /\ AddsUp(b, d, m) /\ \A i \in 1..m : c[i] = d[i]
        BY <1>7, <2>1, <3>1, <3>2, <3>3
      <3>5. \A i \in 0..m : a[i] = b[i]
        BY <3>4, AddsUpOnce
      <3> QED  BY <3>3, <3>5
    <2> QED  BY <1>6, <2>2
  <1>9. v[n + 1] = v[n] \o p
    <2>1. v[n + 1] = v[(n + 1) - 1] \o t[n + 1]
      BY <1>5, <1>6 DEF AddsUp
    <2> QED  BY <1>3, <1>6, <2>1
  <1> QED  BY <1>1, <1>2, <1>4, <1>5, <1>6, <1>8, <1>9

\* Choosing from one element more.
LEMMA ChosenParts ==
  ASSUME NEW X, NEW s \in Seq(X), NEW P
  PROVE  /\ Chosen(<<>>, P) = <<>>
         /\ Chosen(s, P) \in Seq(X)
         /\ \A x \in X :
              Chosen(Append(s, x), P) = Chosen(s, P) \o (IF Len(s) + 1 \in P THEN <<x>> ELSE <<>>)
         /\ \A Q : (\A i \in 1..Len(s) : i \in P <=> i \in Q) => Chosen(s, Q) = Chosen(s, P)
  <1> DEFINE piece(t, R) == [i \in DOMAIN t |-> IF i \in R THEN <<t[i]>> ELSE <<>>]
  <1>1. ASSUME NEW t \in Seq(X), NEW R PROVE piece(t, R) \in Seq(Seq(X)) /\ Len(piece(t, R)) = Len(t)
    <2>1. Len(t) \in Nat /\ DOMAIN t = 1..Len(t)
      BY LenProperties
    <2>2. \A i \in 1..Len(t) : (IF i \in R THEN <<t[i]>> ELSE <<>>) \in Seq(X)
      <3> TAKE i \in 1..Len(t)
      <3>1. t[i] \in X
        BY ElementOfSeq
      <3>2. <<t[i]>> \in Seq(X) /\ <<>> \in Seq(X)
        BY <3>1
      <3> QED  BY <3>2
    <2>3. piece(t, R) \in [1..Len(t) -> Seq(X)]
      BY <2>1, <2>2
    <2> HIDE DEF piece
    <2> QED  BY <2>1, <2>3
  <1>2. \A t, R : Chosen(t, R) = Joined(piece(t, R))
    BY DEF Chosen
  <1>3. Chosen(<<>>, P) = <<>>
    <2>1. PICK none : none = <<>>
      OBVIOUS
    <2>2. none \in Seq(X) /\ none \in Seq(Seq(X)) /\ Len(none) = 0
      BY <2>1
    <2>3. piece(none, P) \in Seq(Seq(X)) /\ Len(piece(none, P)) = 0
      BY <1>1, <2>2
    <2> HIDE DEF piece
    <2>4. piece(none, P) = <<>>
      BY <2>3, EmptySeq
    <2>5. Joined(<<>>) = <<>>
      BY <2>2, JoinedParts
    <2> QED  BY <1>2, <2>1, <2>4, <2>5
  <1>4. Chosen(s, P) \in Seq(X)
    <2>1. piece(s, P) \in Seq(Seq(X))
      BY <1>1
    <2>2. <<>> \in Seq(X)
      OBVIOUS
    <2> HIDE DEF piece
    <2> QED  BY <1>2, <2>1, <2>2, JoinedParts
  <1>5. ASSUME NEW x \in X
        PROVE  Chosen(Append(s, x), P) = Chosen(s, P) \o (IF Len(s) + 1 \in P THEN <<x>> ELSE <<>>)
    <2>1. PICK t, n, p : t = Append(s, x) /\ n = Len(s) /\ p = IF n + 1 \in P THEN <<x>> ELSE <<>>
      OBVIOUS
    <2>2. /\ n \in Nat /\ t \in Seq(X) /\ Len(t) = n + 1 /\ t[n + 1] = x /\ p \in Seq(X)
          /\ \A i \in 1..n : t[i] = s[i]
          /\ DOMAIN s = 1..n /\ DOMAIN t = 1..n + 1
      BY <2>1, LenProperties
    <2>3. PICK u, v : u = piece(s, P) /\ v = piece(t, P)
      OBVIOUS
    <2>4. u \in Seq(Seq(X)) /\ Len(u) = n /\ v \in Seq(Seq(X)) /\ Len(v) = n + 1
      BY <1>1, <2>1, <2>2, <2>3
    <2>5. \A i \in 1..n : v[i] = u[i]
      <3> TAKE i \in 1..n
      <3>1. i \in 1..n + 1
        BY <2>2
      <3>2. v[i] = IF i \in P THEN <<t[i]>> ELSE <<>>
        BY <2>2, <2>3, <3>1, Zenon
      <3>3. u[i] = IF i \in P THEN <<s[i]>> ELSE <<>>
        BY <2>2, <2>3, Zenon
      <3> QED  BY <2>2, <3>2, <3>3
    <2>6. v[n + 1] = p
      <3>1. n + 1 \in 1..n + 1
        BY <2>2
      <3>2. v[n + 1] = IF n + 1 \in P THEN <<t[n + 1]>> ELSE <<>>
        BY <2>2, <2>3, <3>1, Zenon
      <3> QED  BY <2>1, <2>2, <3>2
    <2>7. v = Append(u, p)
      <3>1. Append(u, p) \in Seq(Seq(X)) /\ Len(Append(u, p)) = n + 1
            /\ \A i \in 1..n + 1 : Append(u, p)[i] = v[i]
        BY <2>2, <2>4, <2>5, <2>6
      <3> QED  BY <2>4, <3>1, SeqEqual
    <2> HIDE DEF piece
    <2> QED  BY <1>2, <2>1, <2>2, <2>3, <2>4, <2>7, JoinedParts
  <1>6. ASSUME NEW Q, \A i \in 1..Len(s) : i \in P <=> i \in Q PROVE Chosen(s, Q) = Chosen(s, P)
    <2>1. DOMAIN s = 1..Len(s)
      BY LenProperties
    <2>2. piece(s, Q) = piece(s, P)
      BY <1>6, <2>1
    <2> HIDE DEF piece
    <2> QED  BY <1>2, <2>2
  <1> QED  BY <1>3, <1>4, <1>5, <1>6

-----------------------------------------------------------------------------
(* Messages. *)

CallIds == [turn : Turns, no : {1, 2}, mcp : BOOLEAN]
Messages ==
  [role : {"system", "user", "assistant", "tool"}, turn : Turns, own : BOOLEAN, calls : SUBSET CallIds]

\* The calls of one message are numbered.
CallSets ==
  {calls \in SUBSET CallIds :
     \/ calls = {}
     \/ \E t \in Turns, b \in BOOLEAN : calls = {CallOf(t, 1, b)}
     \/ \E t \in Turns : calls = {CallOf(t, 1, FALSE), CallOf(t, 2, FALSE)}}

\* The system messages of a conversation are the instructions of requests.
Spoken ==
  {m \in Messages : (m.own <=> m.role = "system") /\ (m.role = "assistant" => m.calls \in CallSets)}

Once(s) == \A i, j \in 1..Len(s) : s[i].own /\ s[j].own => i = j

\* A result stands behind a message that made its call.
Matched(s) ==
  \A i \in 1..Len(s) : s[i].role = "tool" =>
    \E j \in 1..i - 1 : s[j].role = "assistant" /\ s[i].calls \subseteq s[j].calls

\* Calls of the server's tools have their results.
Resolved(s) ==
  \A m \in Range(s) : m.role = "assistant" =>
    \A c \in m.calls : c.mcp => \E r \in Range(s) : r.role = "tool" /\ r.calls = {c}

\* One message makes these calls.
Carries(s, calls) == calls = {} \/ \E m \in Range(s) : m.role = "assistant" /\ calls \subseteq m.calls

\* The range of a sequence with one element more, or of two.
LEMMA RangeParts ==
  ASSUME NEW X, NEW s \in Seq(X)
  PROVE  /\ Range(s) = {s[i] : i \in 1..Len(s)} /\ Range(s) \subseteq X
         /\ Range(<<>>) = {}
         /\ \A x \in X : Append(s, x) \in Seq(X) /\ Range(Append(s, x)) = Range(s) \cup {x}
         /\ \A t \in Seq(X) : s \o t \in Seq(X) /\ Range(s \o t) = Range(s) \cup Range(t)
         /\ Range(s) = {} <=> s = <<>>
  <1>1. Range(s) = {s[i] : i \in 1..Len(s)} /\ Range(s) \subseteq X
    BY RangeEquality, RangeOfSeq
  <1>2. Range(<<>>) = {}
    <2>1. PICK none : none = <<>>
      OBVIOUS
    <2>2. none \in Seq(X) /\ Len(none) = 0
      BY <2>1
    <2>3. Range(none) = {none[i] : i \in 1..0}
      BY <2>2, RangeEquality
    <2> QED  BY <2>1, <2>3
  <1>3. \A t \in Seq(X) : s \o t \in Seq(X) /\ Range(s \o t) = Range(s) \cup Range(t)
    BY RangeConcatenation
  <1>4. ASSUME NEW x \in X PROVE Append(s, x) \in Seq(X) /\ Range(Append(s, x)) = Range(s) \cup {x}
    <2>1. PICK t : t = <<x>>
      OBVIOUS
    <2>2. t \in Seq(X) /\ Len(t) = 1 /\ t[1] = x /\ Append(s, x) = s \o t
      BY <2>1
    <2>3. Range(t) = {t[i] : i \in 1..1}
      BY <2>2, RangeEquality
    <2>4. Range(t) = {x}
      BY <2>2, <2>3
    <2> QED  BY <1>3, <2>2, <2>4
  <1>5. Range(s) = {} <=> s = <<>>
    <2>1. Len(s) \in Nat /\ (Len(s) = 0 => s = <<>>)
      BY LenProperties, EmptySeq
    <2>2. Len(s) # 0 => s[1] \in Range(s)
      BY <1>1, <2>1
    <2> QED  BY <1>2, <2>1, <2>2
  <1> QED  BY <1>1, <1>2, <1>3, <1>4, <1>5

\* What is kept for the next turn, what truncation keeps, and what it may drop: one
\* element more is added to them or not.
LEMMA FiltersFit ==
  ASSUME NEW s \in Seq(Spoken)
  PROVE  /\ ForContinuation(<<>>) = <<>> /\ SystemOf(<<>>) = <<>> /\ OthersOf(<<>>) = <<>>
         /\ ForContinuation(s) \in Seq(Spoken) /\ SystemOf(s) \in Seq(Spoken)
         /\ OthersOf(s) \in Seq(Spoken)
  BY ChosenParts DEF ForContinuation, SystemOf, OthersOf

\* What one message more adds to each selection of messages.
LEMMA FiltersAppend ==
  ASSUME NEW s \in Seq(Spoken), NEW x \in Spoken
  PROVE  /\ ForContinuation(Append(s, x)) = ForContinuation(s) \o (IF x.own THEN <<>> ELSE <<x>>)
         /\ SystemOf(Append(s, x)) = SystemOf(s) \o (IF IsSystem(x) THEN <<x>> ELSE <<>>)
         /\ OthersOf(Append(s, x)) = OthersOf(s) \o (IF IsSystem(x) THEN <<>> ELSE <<x>>)
  <1> DEFINE F(t) == {i \in DOMAIN t : ~t[i].own}
             S(t) == {i \in DOMAIN t : IsSystem(t[i])}
             O(t) == {i \in DOMAIN t : ~IsSystem(t[i])}
  <1>1. PICK t, n : t = Append(s, x) /\ n = Len(s)
    OBVIOUS
  <1>2. /\ n \in Nat /\ t \in Seq(Spoken) /\ Len(t) = n + 1 /\ t[n + 1] = x
        /\ \A i \in 1..n : t[i] = s[i]
        /\ DOMAIN s = 1..n /\ DOMAIN t = 1..n + 1
    BY <1>1, LenProperties
  <1>3. /\ \A i \in 1..n : (i \in F(s) <=> i \in F(t)) /\ (i \in S(s) <=> i \in S(t)) /\ (i \in O(s) <=> i \in O(t))
        /\ n + 1 \in F(t) <=> ~x.own
        /\ n + 1 \in S(t) <=> IsSystem(x)
        /\ n + 1 \in O(t) <=> ~IsSystem(x)
    <2>1. n + 1 \in 1..n + 1 /\ \A i \in 1..n : i \in 1..n + 1
      BY <1>2
    <2> QED  BY <1>2, <2>1
  <1>4. /\ ForContinuation(s) = Chosen(s, F(s)) /\ ForContinuation(t) = Chosen(t, F(t))
        /\ SystemOf(s) = Chosen(s, S(s)) /\ SystemOf(t) = Chosen(t, S(t))
        /\ OthersOf(s) = Chosen(s, O(s)) /\ OthersOf(t) = Chosen(t, O(t))
    BY DEF ForContinuation, SystemOf, OthersOf
  <1>6. PICK fs, ft, ss, st, os, ot :
          fs = F(s) /\ ft = F(t) /\ ss = S(s) /\ st = S(t) /\ os = O(s) /\ ot = O(t)
    OBVIOUS
  <1>7. /\ \A i \in 1..n : (i \in fs <=> i \in ft) /\ (i \in ss <=> i \in st) /\ (i \in os <=> i \in ot)
        /\ n + 1 \in ft <=> ~x.own
        /\ n + 1 \in st <=> IsSystem(x)
        /\ n + 1 \in ot <=> ~IsSystem(x)
        /\ ForContinuation(s) = Chosen(s, fs) /\ ForContinuation(t) = Chosen(t, ft)
        /\ SystemOf(s) = Chosen(s, ss) /\ SystemOf(t) = Chosen(t, st)
        /\ OthersOf(s) = Chosen(s, os) /\ OthersOf(t) = Chosen(t, ot)
    BY <1>3, <1>4, <1>6
  <1> HIDE DEF F, S, O
  <1>8. \A P : /\ Chosen(s, P) \in Seq(Spoken)
               /\ Chosen(t, P) = Chosen(s, P) \o (IF n + 1 \in P THEN <<x>> ELSE <<>>)
               /\ \A Q : (\A i \in 1..n : i \in P <=> i \in Q) => Chosen(s, Q) = Chosen(s, P)
    BY <1>1, ChosenParts, SMTT(40)
  <1>9. Chosen(s, ft) = Chosen(s, fs) /\ Chosen(s, st) = Chosen(s, ss) /\ Chosen(s, ot) = Chosen(s, os)
    <2>1. \A i \in 1..n : i \in fs <=> i \in ft
      BY <1>7
    <2>2. \A i \in 1..n : i \in ss <=> i \in st
      BY <1>7
    <2>3. \A i \in 1..n : i \in os <=> i \in ot
      BY <1>7
    <2> QED  BY <1>8, <2>1, <2>2, <2>3
  <1>11. ForContinuation(t) = ForContinuation(s) \o (IF x.own THEN <<>> ELSE <<x>>)
    <2>1. ForContinuation(t) = Chosen(s, ft) \o (IF n + 1 \in ft THEN <<x>> ELSE <<>>)
      BY <1>7, <1>8
    <2> QED  BY <1>7, <1>9, <2>1
  <1>12. SystemOf(t) = SystemOf(s) \o (IF IsSystem(x) THEN <<x>> ELSE <<>>)
    <2>1. SystemOf(t) = Chosen(s, st) \o (IF n + 1 \in st THEN <<x>> ELSE <<>>)
      BY <1>7, <1>8
    <2> QED  BY <1>7, <1>9, <2>1
  <1>13. OthersOf(t) = OthersOf(s) \o (IF IsSystem(x) THEN <<>> ELSE <<x>>)
    <2>1. OthersOf(t) = Chosen(s, ot) \o (IF n + 1 \in ot THEN <<x>> ELSE <<>>)
      BY <1>7, <1>8
    <2> QED  BY <1>7, <1>9, <2>1
  <1> QED  BY <1>1, <1>11, <1>12, <1>13

\* A result is behind its call, also with a message more.
LEMMA MatchedAppend ==
  ASSUME NEW X, NEW s \in Seq(X), NEW x \in X
  PROVE  /\ Matched(<<>>)
         /\ Matched(Append(s, x)) <=>
              /\ Matched(s)
              /\ x.role = "tool" => \E m \in Range(s) : m.role = "assistant" /\ x.calls \subseteq m.calls
  <1>1. PICK t, n : t = Append(s, x) /\ n = Len(s)
    OBVIOUS
  <1>2. /\ n \in Nat /\ Len(t) = n + 1 /\ t[n + 1] = x
        /\ \A i \in 1..n : t[i] = s[i]
        /\ Range(s) = {s[i] : i \in 1..n}
    BY <1>1, LenProperties, RangeParts
  <1>3. Matched(<<>>)
    <2>1. PICK none : none = <<>>
      OBVIOUS
    <2>2. Len(none) = 0
      BY <2>1
    <2> QED  BY <2>1, <2>2 DEF Matched
  <1>4. (\E m \in Range(s) : m.role = "assistant" /\ x.calls \subseteq m.calls)
          <=> \E j \in 1..n : s[j].role = "assistant" /\ x.calls \subseteq s[j].calls
    BY <1>2
  <1>5. ASSUME Matched(t)
        PROVE  /\ Matched(s)
               /\ x.role = "tool" => \E j \in 1..n : s[j].role = "assistant" /\ x.calls \subseteq s[j].calls
    <2>1. ASSUME NEW i \in 1..n, s[i].role = "tool"
          PROVE  \E j \in 1..i - 1 : s[j].role = "assistant" /\ s[i].calls \subseteq s[j].calls
      <3>1. i \in 1..n + 1 /\ t[i] = s[i] /\ \A j \in 1..i - 1 : j \in 1..n
        BY <1>2
      <3>2. PICK j \in 1..i - 1 : t[j].role = "assistant" /\ t[i].calls \subseteq t[j].calls
        BY <1>2, <1>5, <2>1, <3>1 DEF Matched
      <3> QED  BY <1>2, <3>1, <3>2
    <2>2. ASSUME x.role = "tool"
          PROVE  \E j \in 1..n : s[j].role = "assistant" /\ x.calls \subseteq s[j].calls
      <3>1. n + 1 \in 1..n + 1 /\ (n + 1) - 1 = n
        BY <1>2
      <3>2. PICK j \in 1..n : t[j].role = "assistant" /\ t[n + 1].calls \subseteq t[j].calls
        BY <1>2, <1>5, <2>2, <3>1 DEF Matched
      <3> QED  BY <1>2, <3>2
    <2> QED  BY <1>1, <2>1, <2>2 DEF Matched
  <1>6. ASSUME Matched(s),
               x.role = "tool" => \E j \in 1..n : s[j].role = "assistant" /\ x.calls \subseteq s[j].calls
        PROVE  Matched(t)
    <2>1. ASSUME NEW i \in 1..n + 1, t[i].role = "tool"
          PROVE  \E j \in 1..i - 1 : t[j].role = "assistant" /\ t[i].calls \subseteq t[j].calls
      <3>1. CASE i = n + 1
        <4>1. (n + 1) - 1 = n
          BY <1>2
        <4> QED  BY <1>2, <1>6, <2>1, <3>1, <4>1
      <3>2. CASE i # n + 1
        <4>1. i \in 1..n /\ t[i] = s[i] /\ \A j \in 1..i - 1 : j \in 1..n
          BY <1>2, <3>2
        <4>2. PICK j \in 1..i - 1 : s[j].role = "assistant" /\ s[i].calls \subseteq s[j].calls
          BY <1>1, <1>6, <2>1, <4>1 DEF Matched
        <4> QED  BY <1>2, <4>1, <4>2
      <3> QED  BY <3>1, <3>2
    <2> QED  BY <1>2, <2>1 DEF Matched
  <1> QED  BY <1>1, <1>3, <1>4, <1>5, <1>6

\* Results stay behind their calls when a sequence goes on.
LEMMA MatchedConcat ==
  ASSUME NEW X, NEW s \in Seq(X), NEW t \in Seq(X), Matched(s),
         \/ Matched(t)
         \/ \A m \in Range(t) : m.role = "tool" =>
              \E a \in Range(s) : a.role = "assistant" /\ m.calls \subseteq a.calls
  PROVE  Matched(s \o t)
  <1> DEFINE Answers1(u) == \A m \in Range(u) : m.role = "tool" =>
                              \E a \in Range(s) : a.role = "assistant" /\ m.calls \subseteq a.calls
             T == {u \in Seq(X) : Matched(u) \/ Answers1(u) => Matched(s \o u)}
  <1>1. <<>> \in T
    <2>1. s \o <<>> = s /\ <<>> \in Seq(X)
      OBVIOUS
    <2> QED  BY <2>1
  <1>2. ASSUME NEW u \in Seq(X), u \in T, NEW x \in X PROVE Append(u, x) \in T
    <2>1. PICK v : v = Append(u, x)
      OBVIOUS
    <2>2. v \in Seq(X) /\ Range(v) = Range(u) \cup {x} /\ s \o v = Append(s \o u, x) /\ s \o u \in Seq(X)
      BY <2>1, RangeParts
    <2>3. Range(s \o u) = Range(s) \cup Range(u)
      BY RangeParts
    <2>4. ASSUME Matched(v) \/ Answers1(v) PROVE Matched(s \o v)
      <3>1. Matched(v) => Matched(u) /\ (x.role = "tool" =>
              \E m \in Range(u) : m.role = "assistant" /\ x.calls \subseteq m.calls)
        BY <2>1, MatchedAppend, SMTT(40)
      <3>2. Answers1(v) => Answers1(u) /\ (x.role = "tool" =>
              \E m \in Range(s) : m.role = "assistant" /\ x.calls \subseteq m.calls)
        BY <2>2
      <3>3. Matched(u) \/ Answers1(u)
        <4> HIDE DEF Answers1
        <4> QED  BY <2>4, <3>1, <3>2
      <3>4. Matched(s \o u)
        <4> HIDE DEF Answers1
        <4> QED  BY <1>2, <3>3
      <3>5. x.role = "tool" => \E m \in Range(s \o u) : m.role = "assistant" /\ x.calls \subseteq m.calls
        <4> HIDE DEF Answers1
        <4> QED  BY <2>3, <2>4, <3>1, <3>2
      <3>6. PICK w : w = s \o u
        OBVIOUS
      <3>7. w \in Seq(X) /\ s \o v = Append(w, x) /\ Matched(w)
            /\ (x.role = "tool" => \E m \in Range(w) : m.role = "assistant" /\ x.calls \subseteq m.calls)
        BY <2>2, <3>4, <3>5, <3>6
      <3>8. Matched(Append(w, x))
        BY <3>7, MatchedAppend
      <3> QED  BY <3>7, <3>8
    <2> HIDE DEF Answers1
    <2> QED  BY <2>1, <2>2, <2>4
  <1> HIDE DEF T
  <1>3. \A u \in Seq(X) : u \in T
    BY <1>1, <1>2, SequencesFromAppend
  <1> QED  BY <1>3 DEF T

\* Instructions stand once in a conversation that had none.
LEMMA OnceParts ==
  ASSUME NEW X, NEW s \in Seq(X), NEW t \in Seq(X)
  PROVE  /\ (\A m \in Range(s) : ~m.own) => Once(s)
         /\ Once(s) /\ (\A m \in Range(t) : ~m.own) => Once(s \o t)
         /\ (\A m \in Range(s) : ~m.own) /\ Once(t) => Once(s \o t)
         /\ \A x \in X : Once(<<x>>)
         /\ \A x \in X : Once(Append(s, x)) => Once(s) /\ (x.own => \A m \in Range(s) : ~m.own)
  <1>1. /\ Len(s) \in Nat /\ Len(t) \in Nat
        /\ Range(s) = {s[i] : i \in 1..Len(s)} /\ Range(t) = {t[i] : i \in 1..Len(t)}
    BY LenProperties, RangeParts
  <1>2. PICK u, m, n : u = s \o t /\ m = Len(s) /\ n = Len(t)
    OBVIOUS
  <1>3. /\ Len(u) = m + n
        /\ \A i \in 1..m + n : IF i <= m THEN i \in 1..m /\ u[i] = s[i]
                               ELSE i - m \in 1..n /\ u[i] = t[i - m]
    BY <1>1, <1>2
  <1>4. (\A k \in Range(s) : ~k.own) => Once(s)
    BY <1>1 DEF Once
  <1>5. ASSUME Once(s), \A k \in Range(t) : ~k.own PROVE Once(u)
    <2>1. \A i \in 1..n : ~t[i].own
      BY <1>1, <1>2, <1>5
    <2>2. ASSUME NEW i \in 1..m + n, u[i].own PROVE i \in 1..m /\ s[i].own
      BY <1>3, <2>1, <2>2
    <2> QED  BY <1>2, <1>3, <1>5, <2>2 DEF Once
  <1>6. ASSUME \A k \in Range(s) : ~k.own, Once(t) PROVE Once(u)
    <2>1. \A i \in 1..m : ~s[i].own
      BY <1>1, <1>2, <1>6
    <2>2. ASSUME NEW i \in 1..m + n, u[i].own PROVE i - m \in 1..n /\ t[i - m].own
      BY <1>3, <2>1, <2>2
    <2>3. ASSUME NEW i \in 1..m + n, NEW j \in 1..m + n, u[i].own, u[j].own PROVE i = j
      <3>1. i - m = j - m
        BY <1>2, <1>6, <2>2, <2>3 DEF Once
      <3> QED  BY <1>1, <1>2, <3>1
    <2> QED  BY <1>3, <2>3 DEF Once
  <1>7. ASSUME NEW x \in X PROVE Once(<<x>>)
    <2>1. Len(<<x>>) = 1
      OBVIOUS
    <2> QED  BY <2>1 DEF Once
  <1>8. ASSUME NEW x \in X, Once(Append(s, x))
        PROVE  Once(s) /\ (x.own => \A k \in Range(s) : ~k.own)
    <2>1. PICK v : v = Append(s, x)
      OBVIOUS
    <2>2. Len(v) = m + 1 /\ v[m + 1] = x /\ (\A i \in 1..m : v[i] = s[i] /\ i \in 1..m + 1 /\ i # m + 1)
          /\ m + 1 \in 1..m + 1
      BY <1>1, <1>2, <2>1
    <2>3. \A i, j \in 1..m + 1 : v[i].own /\ v[j].own => i = j
      BY <1>8, <2>1, <2>2 DEF Once
    <2>4. Once(s)
      BY <1>2, <2>2, <2>3 DEF Once
    <2>5. x.own => \A i \in 1..m : ~s[i].own
      BY <2>2, <2>3
    <2> QED  BY <1>1, <1>2, <2>4, <2>5
  <1> QED  BY <1>2, <1>4, <1>5, <1>6, <1>7, <1>8

\* What is kept for the next turn is all but the instructions, in order.
LEMMA ContinuationKeeps ==
  ASSUME NEW s \in Seq(Spoken)
  PROVE  /\ ForContinuation(s) \in Seq(Spoken)
         /\ Range(ForContinuation(s)) = {m \in Range(s) : ~m.own}
         /\ Matched(s) => Matched(ForContinuation(s))
         /\ (\A m \in Range(s) : ~m.own) => ForContinuation(s) = s
  <1> DEFINE Fits(u) == /\ Range(ForContinuation(u)) = {m \in Range(u) : ~m.own}
                        /\ Matched(u) => Matched(ForContinuation(u))
                        /\ (\A m \in Range(u) : ~m.own) => ForContinuation(u) = u
             T == {u \in Seq(Spoken) : Fits(u)}
  <1>1. <<>> \in T
    <2>1. <<>> \in Seq(Spoken) /\ Range(<<>>) = {}
      BY RangeParts
    <2>2. ForContinuation(<<>>) = <<>>
      BY <2>1, FiltersFit
    <2> QED  BY <2>1, <2>2
  <1>2. ASSUME NEW u \in Seq(Spoken), u \in T, NEW x \in Spoken PROVE Append(u, x) \in T
    <2>1. PICK v, f, g : v = Append(u, x) /\ f = ForContinuation(u) /\ g = ForContinuation(v)
      OBVIOUS
    <2>2. v \in Seq(Spoken) /\ Range(v) = Range(u) \cup {x}
      BY <2>1, RangeParts
    <2>3. f \in Seq(Spoken) /\ g = f \o (IF x.own THEN <<>> ELSE <<x>>)
      BY <2>1, FiltersAppend, FiltersFit
    <2>4. /\ Range(f) = {m \in Range(u) : ~m.own}
          /\ Matched(u) => Matched(f)
          /\ (\A m \in Range(u) : ~m.own) => f = u
      BY <1>2, <2>1
    <2>5. Matched(v) => Matched(u) /\ (x.role = "tool" =>
             \E m \in Range(u) : m.role = "assistant" /\ x.calls \subseteq m.calls)
      BY <2>1, MatchedAppend
    <2>6. CASE x.own
      <3>1. g = f
        BY <2>3, <2>6
      <3>2. {m \in Range(v) : ~m.own} = {m \in Range(u) : ~m.own}
        BY <2>2, <2>6
      <3>3. ~(\A m \in Range(v) : ~m.own)
        BY <2>2, <2>6
      <3> QED  BY <2>1, <2>2, <2>4, <2>5, <3>1, <3>2, <3>3
    <2>7. CASE ~x.own
      <3>1. g = Append(f, x)
        BY <2>3, <2>7
      <3>2. Range(g) = {m \in Range(v) : ~m.own}
        <4>1. Range(g) = Range(f) \cup {x}
          <5>1. \A y \in Spoken : Range(Append(f, y)) = Range(f) \cup {y}
            BY <2>3, RangeParts
          <5> QED  BY <3>1, <5>1
        <4> QED  BY <2>2, <2>4, <2>7, <4>1
      <3>3. Matched(v) => Matched(g)
        <4> SUFFICES ASSUME Matched(v) PROVE Matched(g)
          OBVIOUS
        <4>1. \A m \in Range(u) : m.role = "assistant" => m \in Range(f)
          <5>1. \A m \in Spoken : m.role = "assistant" => ~m.own
            BY DEF Spoken
          <5>2. Range(u) \subseteq Spoken
            BY RangeParts
          <5> QED  BY <2>4, <5>1, <5>2
        <4>2. x.role = "tool" => \E m \in Range(f) : m.role = "assistant" /\ x.calls \subseteq m.calls
          BY <2>5, <4>1
        <4> QED  BY <2>3, <2>4, <2>5, <3>1, <4>2, MatchedAppend
      <3>4. (\A m \in Range(v) : ~m.own) => g = v
        BY <2>1, <2>2, <2>4, <3>1
      <3> QED  BY <2>1, <2>2, <3>2, <3>3, <3>4
    <2> QED  BY <2>6, <2>7
  <1> HIDE DEF T
  <1>3. \A u \in Seq(Spoken) : u \in T
    BY <1>1, <1>2, SequencesFromAppend
  <1>4. Fits(s)
    BY <1>3 DEF T
  <1>5. ForContinuation(s) \in Seq(Spoken)
    BY FiltersFit
  <1> QED  BY <1>4, <1>5

\* Truncation divides a conversation into instructions and the rest.
LEMMA TruncationDivides ==
  ASSUME NEW s \in Seq(Spoken)
  PROVE  /\ SystemOf(s) \in Seq(Spoken) /\ OthersOf(s) \in Seq(Spoken)
         /\ Range(SystemOf(s)) = {m \in Range(s) : IsSystem(m)}
         /\ Range(OthersOf(s)) = {m \in Range(s) : ~IsSystem(m)}
         /\ Len(SystemOf(s)) + Len(OthersOf(s)) = Len(s)
         /\ OthersOf(s) = <<>> => SystemOf(s) = s
         /\ Once(s) => Len(SystemOf(s)) <= 1
  <1> DEFINE Fits(u) == /\ Range(SystemOf(u)) = {m \in Range(u) : IsSystem(m)}
                        /\ Range(OthersOf(u)) = {m \in Range(u) : ~IsSystem(m)}
                        /\ Len(SystemOf(u)) + Len(OthersOf(u)) = Len(u)
                        /\ OthersOf(u) = <<>> => SystemOf(u) = u
                        /\ Once(u) => Len(SystemOf(u)) <= 1
             T == {u \in Seq(Spoken) : Fits(u)}
  <1>1. <<>> \in T
    <2>1. PICK none : none = <<>>
      OBVIOUS
    <2>2. none \in Seq(Spoken) /\ Range(none) = {} /\ Len(none) = 0
      <3>1. none \in Seq(Spoken) /\ Len(none) = 0
        BY <2>1
      <3> QED  BY <2>1, <3>1, RangeParts
    <2>3. SystemOf(none) = none /\ OthersOf(none) = none
      BY <2>1, <2>2, FiltersFit
    <2>4. none \in T
      BY <2>2, <2>3
    <2> QED  BY <2>1, <2>4
  <1>2. ASSUME NEW u \in Seq(Spoken), u \in T, NEW x \in Spoken PROVE Append(u, x) \in T
    <2>1. PICK v, s0, s1, o0, o1 : /\ v = Append(u, x) /\ s0 = SystemOf(u) /\ s1 = SystemOf(v)
                                   /\ o0 = OthersOf(u) /\ o1 = OthersOf(v)
      OBVIOUS
    <2>2. v \in Seq(Spoken) /\ Range(v) = Range(u) \cup {x} /\ Len(v) = Len(u) + 1 /\ Len(u) \in Nat
      BY <2>1, LenProperties, RangeParts
    <2>3. /\ s0 \in Seq(Spoken) /\ o0 \in Seq(Spoken)
          /\ s1 = s0 \o (IF IsSystem(x) THEN <<x>> ELSE <<>>)
          /\ o1 = o0 \o (IF IsSystem(x) THEN <<>> ELSE <<x>>)
      BY <2>1, FiltersAppend, FiltersFit
    <2>4. /\ Range(s0) = {m \in Range(u) : IsSystem(m)} /\ Range(o0) = {m \in Range(u) : ~IsSystem(m)}
          /\ Len(s0) + Len(o0) = Len(u)
          /\ o0 = <<>> => s0 = u
          /\ Once(u) => Len(s0) <= 1
      BY <1>2, <2>1
    <2>5. Len(s0) \in Nat /\ Len(o0) \in Nat
      BY <2>3, LenProperties
    <2>6. Once(v) => Once(u) /\ (x.own => \A m \in Range(u) : ~m.own)
      BY <2>1, OnceParts
    <2>7. CASE IsSystem(x)
      <3>1. s1 = Append(s0, x) /\ o1 = o0
        BY <2>3, <2>7
      <3>2. Range(s1) = {m \in Range(v) : IsSystem(m)}
        <4>1. \A y \in Spoken : Range(Append(s0, y)) = Range(s0) \cup {y}
          BY <2>3, RangeParts
        <4> QED  BY <2>2, <2>4, <2>7, <3>1, <4>1
      <3>3. Range(o1) = {m \in Range(v) : ~IsSystem(m)}
        BY <2>2, <2>4, <2>7, <3>1
      <3>4. Len(s1) + Len(o1) = Len(v)
        <4>1. Len(s1) = Len(s0) + 1 /\ Len(o1) = Len(o0)
          <5>1. s0 \in Seq(Spoken)
            BY <2>3
          <5> QED  BY <3>1, <5>1
        <4>2. Len(s0) + Len(o0) = Len(u) /\ Len(v) = Len(u) + 1
          BY <2>2, <2>4
        <4> QED  BY <2>5, <4>1, <4>2, SMTT(40)
      <3>5. o1 = <<>> => s1 = v
        BY <2>1, <2>4, <3>1
      <3>6. Once(v) => Len(s1) <= 1
        <4> SUFFICES ASSUME Once(v) PROVE Len(s1) <= 1
          OBVIOUS
        <4>1. x.own /\ \A m \in Spoken : IsSystem(m) => m.own
          BY <2>7 DEF Spoken, IsSystem
        <4>2. Range(s0) = {}
          <5>1. Range(u) \subseteq Spoken
            BY RangeParts
          <5> QED  BY <2>4, <2>6, <4>1, <5>1
        <4>3. s0 = <<>>
          BY <2>3, <4>2, RangeParts
        <4>4. Len(s0) = 0
          BY <4>3
        <4> QED  BY <2>3, <3>1, <4>4
      <3> QED  BY <2>1, <2>2, <3>2, <3>3, <3>4, <3>5, <3>6
    <2>8. CASE ~IsSystem(x)
      <3>1. s1 = s0 /\ o1 = Append(o0, x)
        BY <2>3, <2>8
      <3>2. Range(o1) = {m \in Range(v) : ~IsSystem(m)}
        <4>1. \A y \in Spoken : Range(Append(o0, y)) = Range(o0) \cup {y}
          BY <2>3, RangeParts
        <4> QED  BY <2>2, <2>4, <2>8, <3>1, <4>1
      <3>3. Range(s1) = {m \in Range(v) : IsSystem(m)}
        BY <2>2, <2>4, <2>8, <3>1
      <3>4. Len(o1) = Len(o0) + 1 /\ o1 # <<>>
        <4>1. Len(o1) = Len(o0) + 1
          BY <2>3, <3>1
        <4> QED  BY <2>5, <4>1
      <3>5. Len(s1) + Len(o1) = Len(v)
        <4>1. Len(s0) + Len(o0) = Len(u) /\ Len(v) = Len(u) + 1 /\ s1 = s0
          BY <2>2, <2>4, <3>1
        <4> QED  BY <2>5, <3>4, <4>1
      <3>6. Once(v) => Len(s1) <= 1
        BY <2>4, <2>6, <3>1
      <3> QED  BY <2>1, <2>2, <3>2, <3>3, <3>4, <3>5, <3>6
    <2> QED  BY <2>7, <2>8
  <1> HIDE DEF T
  <1>3. \A u \in Seq(Spoken) : u \in T
    BY <1>1, <1>2, SequencesFromAppend
  <1>4. Fits(s)
    BY <1>3 DEF T
  <1> QED  BY <1>4, FiltersFit

\* Dropping the oldest n messages that are no instructions.
LEMMA DroppedFits ==
  ASSUME NEW s \in Seq(Spoken), NEW n \in Nat
  PROVE  /\ Dropped(s, n) \in Seq(Spoken)
         /\ Range(Dropped(s, n)) \subseteq Range(s)
         /\ \A m \in Range(s) : IsSystem(m) => m \in Range(Dropped(s, n))
         /\ Once(s) => Once(Dropped(s, n))
         /\ n <= Len(OthersOf(s)) => Len(Dropped(s, n)) = Len(s) - n
         /\ n >= Len(OthersOf(s)) => Dropped(s, n) = SystemOf(s)
  <1>1. PICK sys, oth, d, rest :
          /\ sys = SystemOf(s) /\ oth = OthersOf(s) /\ d = Dropped(s, n)
          /\ rest = SubSeq(oth, n + 1, Len(oth))
    OBVIOUS
  <1>2. /\ sys \in Seq(Spoken) /\ oth \in Seq(Spoken)
        /\ Range(sys) = {m \in Range(s) : IsSystem(m)}
        /\ Range(oth) = {m \in Range(s) : ~IsSystem(m)}
        /\ Len(sys) + Len(oth) = Len(s)
        /\ Once(s) => Len(sys) <= 1
    BY <1>1, TruncationDivides
  <1>3. Len(sys) \in Nat /\ Len(oth) \in Nat /\ Len(s) \in Nat
    BY <1>2, LenProperties
  <1>4. d = sys \o rest
    BY <1>1 DEF Dropped
  <1>5. /\ rest \in Seq(Spoken)
        /\ Len(rest) = (IF n < Len(oth) THEN Len(oth) - n ELSE 0)
        /\ \A i \in 1..Len(rest) : rest[i] = oth[i + n] /\ i + n \in 1..Len(oth)
    <2>1. \A i \in n + 1..Len(oth) : oth[i] \in Spoken
      BY <1>2, <1>3, ElementOfSeq
    <2>2. rest = SubSeq(oth, n + 1, Len(oth))
      BY <1>1
    <2> QED  BY <1>2, <1>3, <2>1, <2>2, SubSeqProperties
  <1>6. Range(rest) \subseteq Range(oth)
    <2>1. Range(rest) = {rest[i] : i \in 1..Len(rest)} /\ Range(oth) = {oth[i] : i \in 1..Len(oth)}
      BY <1>2, <1>5, RangeParts
    <2> QED  BY <1>5, <2>1
  <1>7. d \in Seq(Spoken) /\ Range(d) = Range(sys) \cup Range(rest) /\ Len(d) = Len(sys) + Len(rest)
    <2>1. d \in Seq(Spoken) /\ Range(d) = Range(sys) \cup Range(rest)
      BY <1>2, <1>4, <1>5, RangeParts
    <2>2. Len(d) = Len(sys) + Len(rest)
      <3>1. sys \in Seq(Spoken) /\ rest \in Seq(Spoken)
        BY <1>2, <1>5
      <3> QED  BY <1>4, <3>1
    <2> QED  BY <2>1, <2>2
  <1>8. Once(s) => Once(d)
    <2> SUFFICES ASSUME Once(s) PROVE Once(d)
      OBVIOUS
    <2>1. Once(sys)
      <3>1. \A i, j \in 1..Len(sys) : i = j
        BY <1>2, <1>3
      <3> QED  BY <3>1 DEF Once
    <2>2. \A m \in Range(rest) : ~m.own
      <3>1. \A m \in Spoken : ~IsSystem(m) => ~m.own
        BY DEF Spoken, IsSystem
      <3>2. Range(s) \subseteq Spoken
        BY RangeParts
      <3> QED  BY <1>2, <1>6, <3>1, <3>2
    <2> QED  BY <1>2, <1>4, <1>5, <2>1, <2>2, OnceParts
  <1>9. n >= Len(oth) => d = sys
    <2>1. n >= Len(oth) => Len(rest) = 0
      BY <1>3, <1>5
    <2>2. Len(rest) = 0 => rest = <<>>
      BY <1>5, EmptySeq
    <2>3. sys \o <<>> = sys
      BY <1>2
    <2> QED  BY <1>4, <2>1, <2>2, <2>3
  <1>10. n <= Len(oth) => Len(d) = Len(s) - n
    <2>1. Len(sys) + Len(oth) = Len(s) /\ Len(d) = Len(sys) + Len(rest)
          /\ Len(rest) = (IF n < Len(oth) THEN Len(oth) - n ELSE 0)
      BY <1>2, <1>5, <1>7
    <2> QED  BY <1>3, <2>1
  <1> QED  BY <1>1, <1>2, <1>6, <1>7, <1>8, <1>9, <1>10

\* A truncated conversation keeps its instructions, fits or has nothing else left, and
\* lost no more than it had to; one that lost nothing is as it was.
LEMMA TruncateFits ==
  ASSUME NEW s \in Seq(Spoken), Once(s)
  PROVE  /\ Truncate(s) \in Seq(Spoken) /\ Once(Truncate(s))
         /\ Range(Truncate(s)) \subseteq Range(s)
         /\ \A m \in Range(s) : IsSystem(m) => m \in Range(Truncate(s))
         /\ Len(Truncate(s)) < Len(s) \/ Truncate(s) = s
         /\ Room > 0 => \/ Size(Truncate(s)) <= Room
                        \/ \A m \in Range(Truncate(s)) : IsSystem(m)
         /\ Room > 0 /\ Len(Truncate(s)) < Len(s) => Size(Truncate(s)) >= Room
  <1> DEFINE least == {n \in 1..Len(s) : Size(Dropped(s, n)) <= Room}
             first == CHOOSE n \in least : \A k \in least : n <= k
  <1>1. Room \in Nat /\ Len(s) \in Nat
    BY TurnsAssumption, LenProperties DEF Room
  <1>2. PICK k : k = Truncate(s)
    OBVIOUS
  <1>3. k = IF Room = 0 \/ Size(s) <= Room THEN s
            ELSE IF least = {} THEN SystemOf(s) ELSE Dropped(s, first)
    BY <1>2 DEF Truncate
  <1>4. least \subseteq Nat /\ \A n \in least : n \in 1..Len(s) /\ Size(Dropped(s, n)) <= Room
    BY <1>1
  <1>5. \A n \in 1..Len(s) : n \notin least => Size(Dropped(s, n)) > Room
    <2> TAKE n \in 1..Len(s)
    <2>1. Dropped(s, n) \in Seq(Spoken)
      BY DroppedFits
    <2>2. Len(Dropped(s, n)) \in Nat
      BY <2>1, LenProperties
    <2> QED  BY <1>1, <2>2 DEF Size
  <1> HIDE DEF least
  <1>6. least # {} => first \in least /\ \A n \in least : first <= n
    BY <1>4, LeastExists
  <1> HIDE DEF first
  <1>7. CASE Room = 0 \/ Size(s) <= Room
    <2>1. k = s
      BY <1>3, <1>7
    <2> QED  BY <1>1, <1>2, <1>7, <2>1 DEF Size
  <1>8. ASSUME Room # 0, ~(Size(s) <= Room)
        PROVE  \E n \in 1..Len(s) : k = Dropped(s, n) /\ (n \in least \/ n = Len(s))
                                    /\ \A i \in 1..n - 1 : i \notin least
    <2>1. CASE least = {}
      <3>1. Len(s) >= 1
        BY <1>1, <1>8 DEF Size
      <3>2. Len(OthersOf(s)) <= Len(s)
        <4>1. Len(SystemOf(s)) + Len(OthersOf(s)) = Len(s)
          BY TruncationDivides
        <4>2. Len(SystemOf(s)) \in Nat /\ Len(OthersOf(s)) \in Nat
          BY TruncationDivides, LenProperties
        <4> QED  BY <1>1, <4>1, <4>2
      <3>3. Dropped(s, Len(s)) = SystemOf(s)
        <4>1. Len(OthersOf(s)) \in Nat
          BY TruncationDivides, LenProperties
        <4> QED  BY <1>1, <3>2, <4>1, DroppedFits
      <3>4. k = Dropped(s, Len(s))
        BY <1>3, <1>8, <2>1, <3>3
      <3>5. Len(s) \in 1..Len(s)
        BY <1>1, <3>1
      <3> QED  BY <2>1, <3>4, <3>5
    <2>2. CASE least # {}
      <3>1. first \in least /\ first \in 1..Len(s) /\ k = Dropped(s, first)
        BY <1>3, <1>4, <1>6, <1>8, <2>2
      <3>2. \A i \in 1..first - 1 : i \notin least
        BY <1>1, <1>6, <2>2, <3>1
      <3> QED  BY <3>1, <3>2
    <2> QED  BY <2>1, <2>2
  <1>9. CASE ~(Room = 0 \/ Size(s) <= Room)
    <2>1. PICK n \in 1..Len(s) : /\ k = Dropped(s, n) /\ (n \in least \/ n = Len(s))
                                 /\ \A i \in 1..n - 1 : i \notin least
      BY <1>8, <1>9
    <2>2. PICK oth : oth = Len(OthersOf(s)) /\ oth \in Nat /\ oth <= Len(s)
      <3>1. Len(SystemOf(s)) + Len(OthersOf(s)) = Len(s)
        BY TruncationDivides
      <3>2. Len(SystemOf(s)) \in Nat /\ Len(OthersOf(s)) \in Nat
        BY TruncationDivides, LenProperties
      <3> QED  BY <1>1, <3>1, <3>2
    <2>3. n \in Nat
      BY <1>1
    <2>4. /\ k \in Seq(Spoken) /\ Range(k) \subseteq Range(s) /\ Once(k)
          /\ \A m \in Range(s) : IsSystem(m) => m \in Range(k)
      BY <2>1, <2>3, DroppedFits
    <2>5. Len(k) \in Nat
      BY <2>4, LenProperties
    <2>6. n <= oth => Len(k) = Len(s) - n
      BY <2>1, <2>2, <2>3, DroppedFits
    <2>7. n >= oth => k = SystemOf(s)
      BY <2>1, <2>2, <2>3, DroppedFits
    <2>8. k = SystemOf(s) => Len(k) = Len(s) - oth /\ (\A m \in Range(k) : IsSystem(m))
                             /\ (oth = 0 => k = s)
      <3>1. /\ Len(SystemOf(s)) + oth = Len(s)
            /\ Range(SystemOf(s)) = {m \in Range(s) : IsSystem(m)}
            /\ OthersOf(s) = <<>> => SystemOf(s) = s
        BY <2>2, TruncationDivides
      <3>2. oth = 0 => OthersOf(s) = <<>>
        BY <2>2, TruncationDivides, EmptySeq
      <3> QED  BY <1>1, <2>2, <2>5, <3>1, <3>2
    <2>9. Len(k) < Len(s) \/ k = s
      BY <1>1, <2>2, <2>3, <2>5, <2>6, <2>7, <2>8
    <2>10. Size(k) <= Room \/ \A m \in Range(k) : IsSystem(m)
      <3>1. CASE n \in least
        BY <1>4, <2>1, <3>1
      <3>2. CASE n = Len(s)
        BY <2>2, <2>7, <2>8, <3>2
      <3> QED  BY <2>1, <3>1, <3>2
    <2>11. Len(k) < Len(s) => Size(k) >= Room
      <3> SUFFICES ASSUME Len(k) < Len(s) PROVE Size(k) >= Room
        OBVIOUS
      <3>1. Room \in Nat /\ Size(s) > Room /\ Size(s) = Len(s) + 1 /\ Size(k) = Len(k) + 1
        BY <1>1, <1>9 DEF Size
      <3>2. CASE n = 1 \/ n > oth
        <4>1. CASE n = 1 /\ n <= oth
          BY <1>1, <2>5, <2>6, <3>1, <4>1
        <4>2. CASE n > oth /\ oth = 0
          BY <1>1, <2>2, <2>3, <2>5, <2>7, <2>8, <4>2
        <4>3. CASE n > oth /\ oth > 0
          <5>1. n - 1 \in 1..n - 1 /\ n - 1 \in 1..Len(s) /\ n - 1 >= oth /\ n - 1 \in Nat
            BY <1>1, <2>2, <2>3, <4>3
          <5>2. n - 1 \notin least
            BY <2>1, <5>1
          <5>3. Dropped(s, n - 1) = SystemOf(s)
            BY <2>2, <5>1, DroppedFits
          <5>4. k = SystemOf(s)
            BY <2>2, <2>3, <2>7, <4>3
          <5>5. Size(Dropped(s, n - 1)) > Room
            BY <1>5, <5>1, <5>2
          <5> QED  BY <1>1, <2>5, <3>1, <5>3, <5>4, <5>5
        <4> QED  BY <2>2, <2>3, <3>2, <4>1, <4>2, <4>3
      <3>3. CASE ~(n = 1 \/ n > oth)
        <4>1. n - 1 \in 1..n - 1 /\ n - 1 \in 1..Len(s) /\ n - 1 <= oth /\ n - 1 \in Nat /\ n <= oth
          BY <1>1, <2>2, <2>3, <3>3
        <4>2. n - 1 \notin least
          BY <2>1, <4>1
        <4>3. Len(Dropped(s, n - 1)) = Len(s) - (n - 1)
          BY <2>2, <4>1, DroppedFits
        <4>4. Size(Dropped(s, n - 1)) > Room
          BY <1>5, <4>1, <4>2
        <4>5. Len(k) = Len(s) - n
          BY <2>6, <4>1
        <4> QED  BY <1>1, <2>3, <3>1, <4>3, <4>4, <4>5 DEF Size
      <3> QED  BY <3>2, <3>3
    <2> QED  BY <1>2, <2>4, <2>9, <2>10, <2>11
  <1> QED  BY <1>7, <1>9

-----------------------------------------------------------------------------
(* Items that are listed. *)

\* The calls of a message are as many as its highest number.
LEMMA CallsNumbered ==
  ASSUME NEW calls \in CallSets, calls # {}
  PROVE  /\ Cardinality(calls) \in Nat
         /\ \A c \in calls : c.no \in 1..Cardinality(calls)
         /\ 1 \in 1..Cardinality(calls) /\ calls \in SUBSET CallIds
  <1>1. CASE \E t \in Turns, b \in BOOLEAN : calls = {CallOf(t, 1, b)}
    <2>1. PICK t \in Turns, b \in BOOLEAN : calls = {CallOf(t, 1, b)}
      BY <1>1
    <2>2. PICK c : c = CallOf(t, 1, b) /\ calls = {c}
      BY <2>1
    <2>3. c.no = 1 /\ c \in CallIds
      BY <2>2 DEF CallOf, CallIds
    <2>4. Cardinality(calls) = 1
      BY <2>2, FS_Singleton
    <2> QED  BY <2>2, <2>3, <2>4
  <1>2. CASE \E t \in Turns : calls = {CallOf(t, 1, FALSE), CallOf(t, 2, FALSE)}
    <2>1. PICK t \in Turns : calls = {CallOf(t, 1, FALSE), CallOf(t, 2, FALSE)}
      BY <1>2
    <2>2. PICK c, d : c = CallOf(t, 1, FALSE) /\ d = CallOf(t, 2, FALSE) /\ calls = {c, d}
      BY <2>1
    <2>3. c.no = 1 /\ d.no = 2 /\ c \in CallIds /\ d \in CallIds
      BY <2>2 DEF CallOf, CallIds
    <2>4. Cardinality({c}) = 1 /\ IsFiniteSet({c})
      BY FS_Singleton
    <2>5. d \notin {c}
      BY <2>3
    <2>6. Cardinality({c} \cup {d}) = Cardinality({c}) + 1
      BY <2>4, <2>5, FS_AddElement, Zenon
    <2>7. Cardinality(calls) = 2
      <3>1. calls = {c} \cup {d}
        BY <2>2
      <3> QED  BY <2>4, <2>6, <3>1
    <2>8. ASSUME NEW e \in calls PROVE e.no \in 1..2 /\ e \in CallIds
      <3>1. e = c \/ e = d
        BY <2>2
      <3>2. CASE e = c
        BY <2>3, <3>2
      <3>3. CASE e = d
        BY <2>3, <3>3
      <3> QED  BY <3>1, <3>2, <3>3
    <2> QED  BY <2>7, <2>8
  <1>3. \/ \E t \in Turns, b \in BOOLEAN : calls = {CallOf(t, 1, b)}
        \/ \E t \in Turns : calls = {CallOf(t, 1, FALSE), CallOf(t, 2, FALSE)}
    BY DEF CallSets
  <1> QED  BY <1>1, <1>2, <1>3

\* The parts of a message tell its calls, its role and its turn.
LEMMA PartsFit ==
  ASSUME NEW m \in Spoken
  PROVE  /\ PartsOf(m) \in Seq(Messages)
         /\ UNION {p.calls : p \in Range(PartsOf(m))} = m.calls
         /\ {<<p.role, p.turn>> : p \in Range(PartsOf(m))} = {<<m.role, m.turn>>}
  <1>1. m \in Messages
    BY DEF Spoken
  <1>2. CASE m.role = "assistant" /\ m.calls # {}
    <2>1. PICK n, parts : /\ n = Cardinality(m.calls)
                          /\ parts = [i \in 1..n |-> [m EXCEPT !.calls = {c \in m.calls : c.no = i}]]
      OBVIOUS
    <2>2. PartsOf(m) = parts
      BY <1>2, <2>1 DEF PartsOf
    <2>3. n \in Nat /\ (\A c \in m.calls : c.no \in 1..n) /\ 1 \in 1..n
      BY <1>2, <2>1, CallsNumbered DEF Spoken
    <2>4. \A i \in 1..n : /\ parts[i] = [m EXCEPT !.calls = {c \in m.calls : c.no = i}]
                          /\ parts[i] \in Messages
                          /\ parts[i].calls = {c \in m.calls : c.no = i}
                          /\ parts[i].role = m.role /\ parts[i].turn = m.turn
      BY <1>1, <2>1 DEF Messages
    <2>5. parts \in Seq(Messages) /\ Len(parts) = n
      <3>1. parts \in [1..n -> Messages]
        BY <2>1, <2>4
      <3> QED  BY <2>3, <3>1
    <2>6. Range(parts) = {parts[i] : i \in 1..n}
      BY <2>5, RangeParts
    <2>7. UNION {p.calls : p \in Range(parts)} = m.calls
      <3>1. \A c : c \in m.calls <=> \E i \in 1..n : c \in parts[i].calls
        BY <2>3, <2>4
      <3>2. \A c : c \in UNION {p.calls : p \in Range(parts)} <=> \E i \in 1..n : c \in parts[i].calls
        BY <2>6
      <3> QED  BY <3>1, <3>2
    <2>8. {<<p.role, p.turn>> : p \in Range(parts)} = {<<m.role, m.turn>>}
      <3>1. ASSUME NEW p \in Range(parts) PROVE p.role = m.role /\ p.turn = m.turn
        <4>1. PICK i \in 1..n : p = parts[i]
          BY <2>6
        <4> QED  BY <2>4, <4>1
      <3>2. parts[1] \in Range(parts)
        BY <2>3, <2>6
      <3> QED  BY <3>1, <3>2
    <2> QED  BY <2>2, <2>5, <2>7, <2>8
  <1>3. CASE ~(m.role = "assistant" /\ m.calls # {})
    <2>1. PartsOf(m) = <<m>>
      BY <1>3 DEF PartsOf
    <2>2. <<m>> \in Seq(Messages) /\ Range(<<m>>) = {m}
      <3>1. PICK none : none = <<>>
        OBVIOUS
      <3>2. none \in Seq(Messages) /\ Append(none, m) = <<m>> /\ Range(none) = {}
        <4>1. none \in Seq(Messages) /\ Append(none, m) = <<m>>
          BY <3>1
        <4> QED  BY <3>1, <4>1, RangeParts
      <3>3. \A x \in Messages : Append(none, x) \in Seq(Messages) /\ Range(Append(none, x)) = Range(none) \cup {x}
        BY <3>2, RangeParts
      <3>4. Range(<<m>>) = {} \cup {m} /\ <<m>> \in Seq(Messages)
        BY <1>1, <3>2, <3>3
      <3> QED  BY <3>4
    <2> QED  BY <2>1, <2>2
  <1> QED  BY <1>2, <1>3

\* The items of a conversation have numbers of their own and tell its calls, roles and
\* turns.
LEMMA ItemsFit ==
  ASSUME NEW s \in Seq(Spoken)
  PROVE  LET its == ItemsOf(s) IN
         /\ \A i, j \in DOMAIN its : its[i].id = its[j].id => i = j
         /\ UNION {x.calls : x \in Range(its)} = UNION {m.calls : m \in Range(s)}
         /\ {<<x.role, x.turn>> : x \in Range(its)} = {<<m.role, m.turn>> : m \in Range(s)}
  <1> DEFINE parts(u) == [i \in DOMAIN u |-> PartsOf(u[i])]
             Fits(u) == /\ UNION {x.calls : x \in Range(Joined(parts(u)))} = UNION {m.calls : m \in Range(u)}
                        /\ {<<x.role, x.turn>> : x \in Range(Joined(parts(u)))}
                             = {<<m.role, m.turn>> : m \in Range(u)}
             T == {u \in Seq(Spoken) : Fits(u)}
  <1>1. ASSUME NEW u \in Seq(Spoken) PROVE parts(u) \in Seq(Seq(Messages)) /\ Len(parts(u)) = Len(u)
    <2>1. Len(u) \in Nat /\ DOMAIN u = 1..Len(u)
      BY LenProperties
    <2>2. \A i \in 1..Len(u) : PartsOf(u[i]) \in Seq(Messages)
      BY PartsFit, ElementOfSeq
    <2>3. parts(u) \in [1..Len(u) -> Seq(Messages)]
      BY <2>1, <2>2
    <2> HIDE DEF parts
    <2> QED  BY <2>1, <2>3
  <1>2. <<>> \in T
    <2>1. PICK none : none = <<>>
      OBVIOUS
    <2>2. none \in Seq(Spoken) /\ Len(none) = 0 /\ none \in Seq(Messages)
      BY <2>1
    <2>3. parts(none) \in Seq(Seq(Messages)) /\ Len(parts(none)) = 0
      BY <1>1, <2>2
    <2>4. parts(none) = <<>>
      <3> HIDE DEF parts
      <3> QED  BY <2>3, EmptySeq
    <2>5. Joined(<<>>) = <<>> /\ Range(none) = {}
      <3>1. \A q \in Seq(Seq(Messages)), p \in Seq(Messages) : Joined(<<>>) = <<>>
        BY JoinedParts
      <3>2. Joined(<<>>) = <<>>
        BY <2>2, <2>3, <3>1
      <3> QED  BY <2>1, <2>2, <3>2, RangeParts
    <2>6. Fits(none)
      <3> HIDE DEF parts
      <3> QED  BY <2>1, <2>4, <2>5
    <2> QED  BY <2>1, <2>2, <2>6
  <1>3. ASSUME NEW u \in Seq(Spoken), u \in T, NEW x \in Spoken PROVE Append(u, x) \in T
    <2>1. PICK v, n, q, r : v = Append(u, x) /\ n = Len(u) /\ q = parts(u) /\ r = parts(v)
      OBVIOUS
    <2>2. /\ v \in Seq(Spoken) /\ Range(v) = Range(u) \cup {x} /\ n \in Nat /\ Len(v) = n + 1
          /\ v[n + 1] = x /\ \A i \in 1..n : v[i] = u[i]
          /\ DOMAIN u = 1..n /\ DOMAIN v = 1..n + 1
      BY <2>1, LenProperties, RangeParts
    <2>3. /\ q \in Seq(Seq(Messages)) /\ Len(q) = n /\ r \in Seq(Seq(Messages)) /\ Len(r) = n + 1
      BY <1>1, <2>1, <2>2
    <2>4. r[n + 1] = PartsOf(x) /\ \A i \in 1..n : r[i] = q[i]
      <3>1. n + 1 \in 1..n + 1 /\ \A i \in 1..n : i \in 1..n + 1
        BY <2>2
      <3>2. \A i \in 1..n + 1 : r[i] = PartsOf(v[i])
        BY <2>1, <2>2, Zenon
      <3>3. \A i \in 1..n : q[i] = PartsOf(u[i])
        BY <2>1, <2>2, Zenon
      <3> QED  BY <2>2, <3>1, <3>2, <3>3
    <2>5. PICK p : p = PartsOf(x) /\ p \in Seq(Messages)
      BY PartsFit
    <2>6. r = Append(q, p)
      <3>1. Append(q, p) \in Seq(Seq(Messages)) /\ Len(Append(q, p)) = n + 1
            /\ \A i \in 1..n + 1 : Append(q, p)[i] = r[i]
        BY <2>2, <2>3, <2>4, <2>5
      <3> QED  BY <2>3, <3>1, SeqEqual
    <2>7. /\ Joined(q) \in Seq(Messages) /\ Joined(r) = Joined(q) \o p
      BY <2>3, <2>5, <2>6, JoinedParts
    <2>8. Range(Joined(r)) = Range(Joined(q)) \cup Range(p)
      BY <2>5, <2>7, RangeParts
    <2>9. /\ UNION {y.calls : y \in Range(p)} = x.calls
          /\ {<<y.role, y.turn>> : y \in Range(p)} = {<<x.role, x.turn>>}
      BY <2>5, PartsFit
    <2>10. /\ UNION {y.calls : y \in Range(Joined(q))} = UNION {m.calls : m \in Range(u)}
           /\ {<<y.role, y.turn>> : y \in Range(Joined(q))} = {<<m.role, m.turn>> : m \in Range(u)}
      BY <1>3, <2>1
    <2> HIDE DEF parts
    <2>11. UNION {y.calls : y \in Range(Joined(r))} = UNION {m.calls : m \in Range(v)}
      <3>1. PICK A, B, C, D, E : /\ A = Range(Joined(r)) /\ B = Range(Joined(q)) /\ C = Range(p)
                                 /\ D = Range(v) /\ E = Range(u)
        OBVIOUS
      <3>2. /\ A = B \cup C /\ D = E \cup {x}
            /\ UNION {y.calls : y \in C} = x.calls
            /\ UNION {y.calls : y \in B} = UNION {m.calls : m \in E}
        BY <2>2, <2>8, <2>9, <2>10, <3>1
      <3>3. \A c : (\E y \in A : c \in y.calls) <=> (\E y \in B : c \in y.calls) \/ (\E y \in C : c \in y.calls)
        BY <3>2
      <3>4. \A c : /\ (\E y \in B : c \in y.calls) <=> \E y \in E : c \in y.calls
                   /\ (\E y \in C : c \in y.calls) <=> c \in x.calls
        <4> TAKE c
        <4>1. /\ c \in UNION {y.calls : y \in B} <=> \E y \in B : c \in y.calls
              /\ c \in UNION {y.calls : y \in C} <=> \E y \in C : c \in y.calls
              /\ c \in UNION {y.calls : y \in E} <=> \E y \in E : c \in y.calls
          OBVIOUS
        <4> QED  BY <3>2, <4>1
      <3>5. \A c : (\E y \in D : c \in y.calls) <=> (\E y \in E : c \in y.calls) \/ c \in x.calls
        BY <3>2
      <3>6. \A c : (\E y \in A : c \in y.calls) <=> \E y \in D : c \in y.calls
        BY <3>3, <3>4, <3>5
      <3>7. UNION {y.calls : y \in A} = UNION {m.calls : m \in D}
        BY <3>6
      <3> QED  BY <3>1, <3>7
    <2>12. {<<y.role, y.turn>> : y \in Range(Joined(r))} = {<<m.role, m.turn>> : m \in Range(v)}
      <3>1. {<<y.role, y.turn>> : y \in Range(Joined(r))}
              = {<<y.role, y.turn>> : y \in Range(Joined(q))} \cup {<<y.role, y.turn>> : y \in Range(p)}
        BY <2>8
      <3>2. {<<m.role, m.turn>> : m \in Range(v)} = {<<m.role, m.turn>> : m \in Range(u)} \cup {<<x.role, x.turn>>}
        BY <2>2
      <3> QED  BY <2>9, <2>10, <3>1, <3>2
    <2> QED  BY <2>1, <2>2, <2>11, <2>12
  <1>4. s \in T
    <2> HIDE DEF T
    <2>1. \A u \in Seq(Spoken) : u \in T
      BY <1>2, <1>3, SequencesFromAppend
    <2> QED  BY <2>1
  <1>5. PICK all, its : all = Joined(parts(s)) /\ its = ItemsOf(s)
    OBVIOUS
  <1>6. all \in Seq(Messages)
    <2>1. <<>> \in Seq(Messages)
      OBVIOUS
    <2>2. parts(s) \in Seq(Seq(Messages))
      BY <1>1
    <2> HIDE DEF parts
    <2> QED  BY <1>5, <2>1, <2>2, JoinedParts
  <1>7. its = [i \in DOMAIN all |-> Item(i - 1, all[i])]
    BY <1>5 DEF ItemsOf
  <1>8. /\ UNION {x.calls : x \in Range(all)} = UNION {m.calls : m \in Range(s)}
        /\ {<<x.role, x.turn>> : x \in Range(all)} = {<<m.role, m.turn>> : m \in Range(s)}
    BY <1>4, <1>5
  <1> HIDE DEF parts, T
  <1>9. DOMAIN all = 1..Len(all) /\ Len(all) \in Nat
    BY <1>6, LenProperties
  <1>10. DOMAIN its = 1..Len(all) /\ \A i \in 1..Len(all) :
           /\ its[i].id = i - 1 /\ its[i].role = all[i].role /\ its[i].turn = all[i].turn
           /\ its[i].calls = all[i].calls
    BY <1>7, <1>9 DEF Item
  <1>11. Range(its) = {its[i] : i \in 1..Len(all)} /\ Range(all) = {all[i] : i \in 1..Len(all)}
    BY <1>9, <1>10 DEF Range
  <1>12. {<<x.role, x.turn>> : x \in Range(its)} = {<<x.role, x.turn>> : x \in Range(all)}
    <2>1. \A x \in Range(its) : \E y \in Range(all) : x.role = y.role /\ x.turn = y.turn
      BY <1>10, <1>11
    <2>2. \A y \in Range(all) : \E x \in Range(its) : x.role = y.role /\ x.turn = y.turn
      BY <1>10, <1>11
    <2> QED  BY <2>1, <2>2
  <1>13. UNION {x.calls : x \in Range(its)} = UNION {x.calls : x \in Range(all)}
    <2>1. \A x \in Range(its) : \E y \in Range(all) : x.calls = y.calls
      BY <1>10, <1>11
    <2>2. \A y \in Range(all) : \E x \in Range(its) : x.calls = y.calls
      BY <1>10, <1>11
    <2> QED  BY <2>1, <2>2
  <1>14. \A i, j \in DOMAIN its : its[i].id = its[j].id => i = j
    BY <1>9, <1>10
  <1> QED  BY <1>5, <1>8, <1>12, <1>13, <1>14

-----------------------------------------------------------------------------
(* What a turn adds to the conversation. *)

\* A message that is not an instruction.
LEMMA MsgFits ==
  ASSUME NEW t \in Turns, NEW role \in {"user", "assistant", "tool"}, NEW calls \in SUBSET CallIds,
         role = "assistant" => calls \in CallSets
  PROVE  LET m == Msg(role, t, calls) IN
         m \in Spoken /\ m.role = role /\ m.calls = calls /\ m.turn = t /\ ~m.own
  BY DEF Msg, Spoken, Messages

\* The calls of one output.
LEMMA CallsFit ==
  ASSUME NEW t \in Turns
  PROVE  /\ \A b \in BOOLEAN : CallOf(t, 1, b) \in CallIds /\ {CallOf(t, 1, b)} \in CallSets
         /\ CallOf(t, 2, FALSE) \in CallIds
         /\ {CallOf(t, 1, FALSE), CallOf(t, 2, FALSE)} \in CallSets
         /\ {CallOf(t, i, FALSE) : i \in 1..2} = {CallOf(t, 1, FALSE), CallOf(t, 2, FALSE)}
         /\ {} \in CallSets
         /\ \A i \in {1, 2}, b \in BOOLEAN : CallOf(t, i, b).mcp = b
  <1>1. \A i \in {1, 2}, b \in BOOLEAN : CallOf(t, i, b) \in CallIds /\ CallOf(t, i, b).mcp = b
    BY DEF CallOf, CallIds
  <1>2. \A b \in BOOLEAN : {CallOf(t, 1, b)} \in CallSets
    BY <1>1 DEF CallSets
  <1>3. {CallOf(t, 1, FALSE), CallOf(t, 2, FALSE)} \in CallSets
    BY <1>1 DEF CallSets
  <1>4. {CallOf(t, i, FALSE) : i \in 1..2} = {CallOf(t, 1, FALSE), CallOf(t, 2, FALSE)}
    <2>1. 1..2 = {1, 2}
      OBVIOUS
    <2> QED  BY <2>1
  <1>5. {} \in CallSets
    BY DEF CallSets
  <1> QED  BY <1>1, <1>2, <1>3, <1>4, <1>5

\* The range of short sequences.
LEMMA RangeOfOne ==
  ASSUME NEW X, NEW x \in X
  PROVE  <<x>> \in Seq(X) /\ Range(<<x>>) = {x}
  <1>1. PICK none, a : none = <<>> /\ a = <<x>>
    OBVIOUS
  <1>2. none \in Seq(X) /\ a = Append(none, x)
    BY <1>1
  <1>3. a \in Seq(X) /\ Range(none) = {}
    <2>1. Range(none) = {}
      BY <1>1, <1>2, RangeParts
    <2> QED  BY <1>2, <2>1
  <1>4. \A k \in X : Range(Append(none, k)) = Range(none) \cup {k}
    BY <1>2, RangeParts
  <1>5. Range(a) = {x}
    BY <1>2, <1>3, <1>4
  <1> QED  BY <1>1, <1>3, <1>5

\* What stands in two sequences, one after the other.
LEMMA RangeOfTwo ==
  ASSUME NEW X, NEW x \in X, NEW y \in X
  PROVE  <<x, y>> \in Seq(X) /\ Range(<<x, y>>) = {x, y}
  <1>1. PICK a, b : a = <<x>> /\ b = <<x, y>>
    OBVIOUS
  <1>2. a \in Seq(X) /\ Range(a) = {x}
    BY <1>1, RangeOfOne
  <1>3. b = Append(a, y) /\ b \in Seq(X)
    BY <1>1, <1>2
  <1>4. \A k \in X : Range(Append(a, k)) = Range(a) \cup {k}
    BY <1>2, RangeParts
  <1>5. Range(b) = {x, y}
    BY <1>2, <1>3, <1>4
  <1> QED  BY <1>1, <1>3, <1>5

\* What stands in three.
LEMMA RangeOfThree ==
  ASSUME NEW X, NEW x \in X, NEW y \in X, NEW z \in X
  PROVE  <<x, y, z>> \in Seq(X) /\ Range(<<x, y, z>>) = {x, y, z}
  <1>1. PICK a, b : a = <<x, y>> /\ b = <<x, y, z>>
    OBVIOUS
  <1>2. a \in Seq(X) /\ Range(a) = {x, y}
    BY <1>1, RangeOfTwo
  <1>3. b = Append(a, z) /\ b \in Seq(X)
    BY <1>1, <1>2
  <1>4. \A k \in X : Range(Append(a, k)) = Range(a) \cup {k}
    BY <1>2, RangeParts
  <1>5. Range(b) = {x, y, z}
    BY <1>2, <1>3, <1>4
  <1> QED  BY <1>1, <1>3, <1>5

\* Joining few.
LEMMA JoinedFew ==
  ASSUME NEW X, NEW p \in Seq(X), NEW q \in Seq(X)
  PROVE  Joined(<<p>>) = p /\ Joined(<<p, q>>) = p \o q
  <1>1. PICK none, a, b : none = <<>> /\ a = <<p>> /\ b = <<p, q>>
    OBVIOUS
  <1>2. none \in Seq(Seq(X)) /\ a = Append(none, p) /\ b = Append(a, q)
    BY <1>1
  <1>3. a \in Seq(Seq(X))
    BY <1>2
  <1>4. Joined(none) = <<>> /\ Joined(a) = Joined(none) \o p
    BY <1>1, <1>2, JoinedParts
  <1>5. Joined(b) = Joined(a) \o q
    BY <1>2, <1>3, JoinedParts
  <1>6. <<>> \o p = p
    OBVIOUS
  <1> QED  BY <1>1, <1>4, <1>5, <1>6

\* Three sequences put one after the other.
JoinsThree(p, q, r) == Joined(<<p, q, r>>) = (p \o q) \o r

LEMMA JoinedThree ==
  ASSUME NEW X, NEW p \in Seq(X), NEW q \in Seq(X), NEW r \in Seq(X)
  PROVE  JoinsThree(p, q, r)
  <1>1. PICK b, c : b = <<p, q>> /\ c = <<p, q, r>>
    OBVIOUS
  <1>2. b \in Seq(Seq(X)) /\ c = Append(b, r)
    BY <1>1
  <1>3. Joined(b) = p \o q
    BY <1>1, JoinedFew
  <1>4. Joined(c) = Joined(b) \o r
    BY <1>2, JoinedParts
  <1> QED  BY <1>1, <1>3, <1>4 DEF JoinsThree

\* The calls that wait for the client's results.
LEMMA PendingIs ==
  ASSUME NEW t \in Turns
  PROVE  /\ Pending(<<>>) = {}
         /\ Pending(OutputOf(t, "text")) = {}
         /\ Pending(OutputOf(t, "call")) = {CallOf(t, 1, FALSE)}
         /\ Pending(OutputOf(t, "calls")) = {CallOf(t, 1, FALSE), CallOf(t, 2, FALSE)}
         /\ Pending(OutputOf(t, "toolThenText")) = {}
  <1> DEFINE I == {TextItem} \cup {CallItem(c) : c \in CallIds}
  <1>1. PICK c, d, e, x, y, z, w :
          /\ c = CallOf(t, 1, FALSE) /\ d = CallOf(t, 2, FALSE) /\ e = CallOf(t, 1, TRUE)
          /\ x = TextItem /\ y = CallItem(c) /\ z = CallItem(d) /\ w = CallItem(e)
    OBVIOUS
  <1>2. /\ x.text /\ ~y.text /\ ~z.text /\ ~w.text
        /\ y.call = c /\ z.call = d /\ w.call = e
    BY <1>1 DEF TextItem, CallItem
  <1>3. ~c.mcp /\ ~d.mcp /\ e.mcp
    BY <1>1, CallsFit
  <1>4. \A s : Pending(s) = {item.call : item \in {i \in Range(s) : ~i.text /\ ~i.call.mcp}}
    BY DEF Pending
  <1>5. Pending(<<>>) = {}
    <2>1. Range(<<>>) = {}
      <3>1. \A s \in Seq({1}) : Range(<<>>) = {}
        BY RangeParts
      <3>2. <<>> \in Seq({1})
        OBVIOUS
      <3> QED  BY <3>1, <3>2
    <2> QED  BY <1>4, <2>1
  <1>6. /\ OutputOf(t, "text") = <<x>> /\ OutputOf(t, "call") = <<y>>
        /\ OutputOf(t, "calls") = <<x, y, z>> /\ OutputOf(t, "toolThenText") = <<w, x>>
    BY <1>1 DEF OutputOf
  <1>7. PICK Y : Y = {x, y, z, w}
    OBVIOUS
  <1>8. /\ Range(<<x>>) = {x} /\ Range(<<y>>) = {y} /\ Range(<<x, y, z>>) = {x, y, z}
        /\ Range(<<w, x>>) = {w, x}
    <2>1. x \in Y /\ y \in Y /\ z \in Y /\ w \in Y
      BY <1>7
    <2>2. Range(<<x>>) = {x} /\ Range(<<y>>) = {y}
      BY RangeOfOne
    <2>3. Range(<<w, x>>) = {w, x}
      BY <2>1, RangeOfTwo
    <2>4. Range(<<x, y, z>>) = {x, y, z}
      BY <2>1, RangeOfThree
    <2> QED  BY <2>2, <2>3, <2>4, Zenon
  <1>9. Pending(<<x>>) = {}
    <2>1. {i \in {x} : ~i.text /\ ~i.call.mcp} = {}
      BY <1>2
    <2> QED  BY <1>4, <1>8, <2>1
  <1>10. Pending(<<y>>) = {c}
    <2>1. {i \in {y} : ~i.text /\ ~i.call.mcp} = {y}
      BY <1>2, <1>3
    <2> QED  BY <1>2, <1>4, <1>8, <2>1
  <1>11. Pending(<<x, y, z>>) = {c, d}
    <2>1. {i \in {x, y, z} : ~i.text /\ ~i.call.mcp} = {y, z}
      BY <1>2, <1>3
    <2> QED  BY <1>2, <1>4, <1>8, <2>1
  <1>12. Pending(<<w, x>>) = {}
    <2>1. {i \in {w, x} : ~i.text /\ ~i.call.mcp} = {}
      BY <1>2, <1>3
    <2> QED  BY <1>4, <1>8, <2>1
  <1> QED  BY <1>1, <1>5, <1>6, <1>9, <1>10, <1>11, <1>12

\* The messages of the loop: results stand behind their calls, and the client's calls
\* are those of one message.
LEMMA AddedFits ==
  ASSUME NEW t \in Turns, NEW a \in Answers
  PROVE  LET added == AddedBy(t, a) IN
         /\ added \in Seq(Spoken) /\ added # <<>>
         /\ \A m \in Range(added) : ~m.own
         /\ Matched(added) /\ Resolved(added)
         /\ Carries(added, Pending(OutputOf(t, a)))
  <1>1. PICK c, d, e : c = CallOf(t, 1, FALSE) /\ d = CallOf(t, 2, FALSE) /\ e = CallOf(t, 1, TRUE)
    OBVIOUS
  <1>2. /\ {c} \in CallSets /\ {c, d} \in CallSets /\ {e} \in CallSets /\ {} \in CallSets
        /\ ~c.mcp /\ ~d.mcp /\ e.mcp /\ c \in CallIds /\ d \in CallIds /\ e \in CallIds
        /\ {CallOf(t, i, FALSE) : i \in 1..2} = {c, d}
    BY <1>1, CallsFit
  <1>3. PICK x, y, z, u, v : /\ x = Msg("assistant", t, {}) /\ y = Msg("assistant", t, {c})
                             /\ z = Msg("assistant", t, {c, d}) /\ u = Msg("assistant", t, {e})
                             /\ v = Msg("tool", t, {e})
    OBVIOUS
  <1>4. /\ x \in Spoken /\ x.role = "assistant" /\ x.calls = {} /\ ~x.own
        /\ y \in Spoken /\ y.role = "assistant" /\ y.calls = {c} /\ ~y.own
        /\ z \in Spoken /\ z.role = "assistant" /\ z.calls = {c, d} /\ ~z.own
        /\ u \in Spoken /\ u.role = "assistant" /\ u.calls = {e} /\ ~u.own
        /\ v \in Spoken /\ v.role = "tool" /\ v.calls = {e} /\ ~v.own
    <2>1. \A k \in CallSets : LET m == Msg("assistant", t, k) IN
                              m \in Spoken /\ m.role = "assistant" /\ m.calls = k /\ ~m.own
      <3> TAKE k \in CallSets
      <3>1. k \in SUBSET CallIds
        BY DEF CallSets
      <3> QED  BY <3>1, MsgFits
    <2>2. LET m == Msg("tool", t, {e}) IN m \in Spoken /\ m.role = "tool" /\ m.calls = {e} /\ ~m.own
      <3>1. {e} \in SUBSET CallIds
        BY <1>2
      <3> QED  BY <3>1, MsgFits
    <2> QED  BY <1>2, <1>3, <2>1, <2>2, Zenon
  <1>5. ASSUME NEW s, s \in Seq(Spoken), NEW R, Range(s) = R, R # {},
               \A m \in R : ~m.own /\ m.role = "assistant" /\ \A k \in m.calls : ~k.mcp
        PROVE  s # <<>> /\ Matched(s) /\ Resolved(s)
    <2>1. s # <<>>
      BY <1>5, RangeParts
    <2>2. \A i \in 1..Len(s) : s[i] \in R
      BY <1>5, RangeParts
    <2> QED  BY <1>5, <2>1, <2>2 DEF Matched, Resolved
  <1>6. CASE a = "text"
    <2>1. AddedBy(t, a) = <<x>> /\ Pending(OutputOf(t, a)) = {}
      BY <1>3, <1>6, PendingIs DEF AddedBy
    <2>2. <<x>> \in Seq(Spoken) /\ Range(<<x>>) = {x}
      BY <1>4, RangeOfOne
    <2>3. <<x>> # <<>> /\ Matched(<<x>>) /\ Resolved(<<x>>)
      BY <1>4, <1>5, <2>2
    <2> QED  BY <1>4, <2>1, <2>2, <2>3 DEF Carries
  <1>7. CASE a = "call"
    <2>1. AddedBy(t, a) = <<y>> /\ Pending(OutputOf(t, a)) = {c}
      BY <1>1, <1>3, <1>7, PendingIs DEF AddedBy
    <2>2. <<y>> \in Seq(Spoken) /\ Range(<<y>>) = {y}
      BY <1>4, RangeOfOne
    <2>3. <<y>> # <<>> /\ Matched(<<y>>) /\ Resolved(<<y>>)
      <3>1. \A m \in {y} : ~m.own /\ m.role = "assistant" /\ \A k \in m.calls : ~k.mcp
        BY <1>2, <1>4
      <3>2. {y} # {}
        OBVIOUS
      <3> QED  BY <1>5, <2>2, <3>1, <3>2
    <2> QED  BY <1>4, <2>1, <2>2, <2>3 DEF Carries
  <1>8. CASE a = "calls"
    <2>1. AddedBy(t, a) = <<z>> /\ Pending(OutputOf(t, a)) = {c, d}
      BY <1>1, <1>2, <1>3, <1>8, PendingIs DEF AddedBy
    <2>2. <<z>> \in Seq(Spoken) /\ Range(<<z>>) = {z}
      BY <1>4, RangeOfOne
    <2>3. <<z>> # <<>> /\ Matched(<<z>>) /\ Resolved(<<z>>)
      <3>1. \A m \in {z} : ~m.own /\ m.role = "assistant" /\ \A k \in m.calls : ~k.mcp
        BY <1>2, <1>4
      <3>2. {z} # {}
        OBVIOUS
      <3> QED  BY <1>5, <2>2, <3>1, <3>2
    <2> QED  BY <1>4, <2>1, <2>2, <2>3 DEF Carries
  <1>9. CASE a = "toolThenText"
    <2>1. PICK s : s = <<u, v, x>>
      OBVIOUS
    <2>2. AddedBy(t, a) = s /\ Pending(OutputOf(t, a)) = {}
      BY <1>1, <1>3, <1>9, <2>1, PendingIs DEF AddedBy
    <2>3. s \in Seq(Spoken) /\ Range(s) = {u, v, x}
      <3>1. u \in Spoken /\ v \in Spoken /\ x \in Spoken
        BY <1>4
      <3> QED  BY <2>1, <3>1, RangeOfThree
    <2>4. s # <<>> /\ \A m \in Range(s) : ~m.own
      BY <1>4, <2>3, RangeParts
    <2>5. Matched(s)
      <3>1. Len(s) = 3 /\ s[1] = u /\ s[2] = v /\ s[3] = x
        BY <2>1
      <3>2. ASSUME NEW i \in 1..Len(s), s[i].role = "tool" PROVE i = 2
        BY <1>4, <3>1, <3>2
      <3>3. s[1].role = "assistant" /\ s[2].calls \subseteq s[1].calls /\ 1 \in 1..2 - 1
        BY <1>4, <3>1
      <3> QED  BY <3>2, <3>3 DEF Matched
    <2>6. Resolved(s)
      <3>1. v \in Range(s) /\ v.role = "tool" /\ v.calls = {e}
        BY <1>4, <2>3
      <3>2. ASSUME NEW m \in Range(s), m.role = "assistant", NEW k \in m.calls PROVE k = e
        BY <1>4, <2>3, <3>2
      <3> QED  BY <3>1, <3>2 DEF Resolved
    <2> QED  BY <2>2, <2>3, <2>4, <2>5, <2>6 DEF Carries
  <1> QED  BY <1>6, <1>7, <1>8, <1>9, TurnsAssumption

\* The messages read back from each output.
LEMMA HistoryIs ==
  ASSUME NEW t \in Turns
  PROVE  LET c == CallOf(t, 1, FALSE)
             d == CallOf(t, 2, FALSE)
             e == CallOf(t, 1, TRUE) IN
         /\ HistoryOf(t, OutputOf(t, "text")) = <<Msg("assistant", t, {})>>
         /\ HistoryOf(t, OutputOf(t, "call")) = <<Msg("assistant", t, {c})>>
         /\ HistoryOf(t, OutputOf(t, "calls"))
              = <<Msg("assistant", t, {}), Msg("assistant", t, {c, d})>>
         /\ HistoryOf(t, OutputOf(t, "toolThenText")) = <<Msg("assistant", t, {e})>>
  <1>1. PICK c, d, e, x, y, z, w :
          /\ c = CallOf(t, 1, FALSE) /\ d = CallOf(t, 2, FALSE) /\ e = CallOf(t, 1, TRUE)
          /\ x = TextItem /\ y = CallItem(c) /\ z = CallItem(d) /\ w = CallItem(e)
    OBVIOUS
  <1>2. /\ x.text /\ ~y.text /\ ~z.text /\ ~w.text
        /\ y.call = c /\ z.call = d /\ w.call = e
    BY <1>1 DEF TextItem, CallItem
  <1>3. PICK mx, my, mz, mw : /\ mx = Msg("assistant", t, {}) /\ my = Msg("assistant", t, {c})
                              /\ mz = Msg("assistant", t, {c, d}) /\ mw = Msg("assistant", t, {e})
    OBVIOUS
  <1>4. PICK M : M = {mx, my, mz, mw}
    OBVIOUS
  <1>5. <<>> \in Seq(M) /\ <<mx>> \in Seq(M) /\ <<mw>> \in Seq(M)
    BY <1>4
  <1>6. /\ OutputOf(t, "text") = <<x>> /\ OutputOf(t, "call") = <<y>>
        /\ OutputOf(t, "calls") = <<x, y, z>> /\ OutputOf(t, "toolThenText") = <<w, x>>
    BY <1>1 DEF OutputOf
  <1> DEFINE part(made, i) == IF made[i].text THEN <<Msg("assistant", t, CallsBefore(made, i))>> ELSE <<>>
             all(made) == [i \in DOMAIN made |-> part(made, i)]
             end(made) == CallsBefore(made, Len(made) + 1)
  <1>7. \A made : HistoryOf(t, made) = Joined(all(made))
                   \o (IF end(made) = {} THEN <<>> ELSE <<Msg("assistant", t, end(made))>>)
    BY DEF HistoryOf
  <1>8. \A made : CallsBefore(made, 1) = {}
    BY DEF CallsBefore
  <1>9. HistoryOf(t, <<x>>) = <<mx>>
    <2>1. PICK made : made = <<x>>
      OBVIOUS
    <2>2. Len(made) = 1 /\ made[1] = x /\ DOMAIN made = 1..1
      BY <2>1
    <2>3. end(made) = {}
      BY <1>2, <2>2 DEF CallsBefore
    <2>4. part(made, 1) = <<mx>>
      BY <1>2, <1>3, <1>8, <2>2
    <2>5. all(made) = <<<<mx>>>>
      <3> HIDE DEF part
      <3> QED  BY <2>2, <2>4
    <2>6. Joined(<<<<mx>>>>) = <<mx>>
      BY <1>5, JoinedFew
    <2> HIDE DEF all, end, part
    <2>7. HistoryOf(t, made) = <<mx>> \o <<>>
      BY <1>7, <2>3, <2>5, <2>6
    <2> QED  BY <2>1, <2>7
  <1>10. HistoryOf(t, <<y>>) = <<my>>
    <2>1. PICK made : made = <<y>>
      OBVIOUS
    <2>2. Len(made) = 1 /\ made[1] = y /\ DOMAIN made = 1..1
      BY <2>1
    <2>3. end(made) = {c}
      BY <1>2, <2>2 DEF CallsBefore
    <2>4. part(made, 1) = <<>>
      BY <1>2, <2>2
    <2>5. all(made) = <<<<>>>>
      <3> HIDE DEF part
      <3> QED  BY <2>2, <2>4
    <2>6. Joined(<<<<>>>>) = <<>>
      BY <1>5, JoinedFew
    <2> HIDE DEF all, end, part
    <2>7. HistoryOf(t, made) = <<>> \o <<my>>
      <3>1. {c} # {}
        OBVIOUS
      <3> QED  BY <1>3, <1>7, <2>3, <2>5, <2>6, <3>1
    <2> QED  BY <2>1, <2>7
  <1>11. HistoryOf(t, <<x, y, z>>) = <<mx, mz>>
    <2>1. PICK made : made = <<x, y, z>>
      OBVIOUS
    <2>2. Len(made) = 3 /\ made[1] = x /\ made[2] = y /\ made[3] = z /\ DOMAIN made = 1..3
      BY <2>1
    <2>3. end(made) = {c, d}
      <3>1. ASSUME NEW k \in 1..3
            PROVE  (\A l \in k..3 : ~made[l].text) <=> k \in {2, 3}
        BY <1>2, <2>2
      <3>2. {k \in 1..3 : \A l \in k..3 : ~made[l].text} = {2, 3}
        BY <3>1
      <3>3. end(made) = {made[j].call : j \in {2, 3}}
        BY <2>2, <3>2 DEF CallsBefore
      <3> HIDE DEF end
      <3> QED  BY <1>2, <2>2, <3>3
    <2>4. part(made, 1) = <<mx>> /\ part(made, 2) = <<>> /\ part(made, 3) = <<>>
      BY <1>2, <1>3, <1>8, <2>2
    <2>5. all(made) = <<<<mx>>, <<>>, <<>>>>
      <3> HIDE DEF part
      <3> QED  BY <2>2, <2>4
    <2>6. Joined(<<<<mx>>, <<>>, <<>>>>) = (<<mx>> \o <<>>) \o <<>>
      <3>1. PICK p, q : p = <<mx>> /\ q = <<>>
        OBVIOUS
      <3>2. p \in Seq(M) /\ q \in Seq(M)
        BY <1>5, <3>1
      <3>3. JoinsThree(p, q, q)
        BY <3>2, JoinedThree
      <3> QED  BY <3>1, <3>3 DEF JoinsThree
    <2> HIDE DEF all, end, part
    <2>7. HistoryOf(t, made) = ((<<mx>> \o <<>>) \o <<>>) \o <<mz>>
      BY <1>3, <1>7, <2>3, <2>5, <2>6
    <2> QED  BY <2>1, <2>7
  <1>12. HistoryOf(t, <<w, x>>) = <<mw>>
    <2>1. PICK made : made = <<w, x>>
      OBVIOUS
    <2>2. Len(made) = 2 /\ made[1] = w /\ made[2] = x /\ DOMAIN made = 1..2
      BY <2>1
    <2>3. end(made) = {}
      <3>1. \A k \in 1..2 : ~(\A l \in k..2 : ~made[l].text)
        BY <1>2, <2>2
      <3> QED  BY <2>2, <3>1 DEF CallsBefore
    <2>4. part(made, 1) = <<>>
      BY <1>2, <2>2
    <2>5. part(made, 2) = <<mw>>
      <3>1. CallsBefore(made, 2) = {e}
        BY <1>2, <2>2 DEF CallsBefore
      <3> QED  BY <1>2, <1>3, <2>2, <3>1
    <2>6. all(made) = <<<<>>, <<mw>>>>
      <3> HIDE DEF part
      <3> QED  BY <2>2, <2>4, <2>5
    <2>7. Joined(<<<<>>, <<mw>>>>) = <<>> \o <<mw>>
      BY <1>5, JoinedFew
    <2> HIDE DEF all, end, part
    <2>8. HistoryOf(t, made) = (<<>> \o <<mw>>) \o <<>>
      BY <1>7, <2>1, <2>3, <2>6, <2>7
    <2> QED  BY <2>1, <2>8
  <1> QED  BY <1>1, <1>3, <1>6, <1>9, <1>10, <1>11, <1>12

\* The messages read back from an output: no results, and the client's calls are those
\* of one message.
LEMMA HistoryFits ==
  ASSUME NEW t \in Turns, NEW a \in Answers
  PROVE  LET h == HistoryOf(t, OutputOf(t, a)) IN
         /\ h \in Seq(Spoken) /\ h # <<>>
         /\ \A m \in Range(h) : ~m.own /\ m.role = "assistant"
         /\ Carries(h, Pending(OutputOf(t, a)))
         /\ a # "toolThenText" => Resolved(h)
  <1>1. PICK c, d, e : c = CallOf(t, 1, FALSE) /\ d = CallOf(t, 2, FALSE) /\ e = CallOf(t, 1, TRUE)
    OBVIOUS
  <1>2. /\ {c} \in CallSets /\ {c, d} \in CallSets /\ {e} \in CallSets /\ {} \in CallSets
        /\ ~c.mcp /\ ~d.mcp
    BY <1>1, CallsFit
  <1>3. PICK x, y, z, w : /\ x = Msg("assistant", t, {}) /\ y = Msg("assistant", t, {c})
                          /\ z = Msg("assistant", t, {c, d}) /\ w = Msg("assistant", t, {e})
    OBVIOUS
  <1>4. /\ x \in Spoken /\ x.role = "assistant" /\ x.calls = {} /\ ~x.own
        /\ y \in Spoken /\ y.role = "assistant" /\ y.calls = {c} /\ ~y.own
        /\ z \in Spoken /\ z.role = "assistant" /\ z.calls = {c, d} /\ ~z.own
        /\ w \in Spoken /\ w.role = "assistant" /\ w.calls = {e} /\ ~w.own
    <2>1. \A k \in CallSets : LET m == Msg("assistant", t, k) IN
                              m \in Spoken /\ m.role = "assistant" /\ m.calls = k /\ ~m.own
      <3> TAKE k \in CallSets
      <3>1. k \in SUBSET CallIds
        BY DEF CallSets
      <3> QED  BY <3>1, MsgFits
    <2> QED  BY <1>2, <1>3, <2>1, Zenon
  <1>5. ASSUME NEW h, h \in Seq(Spoken), NEW R, Range(h) = R, R # {},
               \A m \in R : ~m.own /\ m.role = "assistant"
        PROVE  /\ h # <<>> /\ \A m \in Range(h) : ~m.own /\ m.role = "assistant"
               /\ (\A m \in R : \A k \in m.calls : ~k.mcp) => Resolved(h)
    <2>1. h # <<>>
      BY <1>5, RangeParts
    <2> QED  BY <1>5, <2>1 DEF Resolved
  <1>6. CASE a = "text"
    <2>1. HistoryOf(t, OutputOf(t, a)) = <<x>> /\ Pending(OutputOf(t, a)) = {}
      BY <1>3, <1>6, PendingIs, HistoryIs
    <2>2. <<x>> \in Seq(Spoken) /\ Range(<<x>>) = {x}
      BY <1>4, RangeOfOne
    <2>3. \A m \in {x} : ~m.own /\ m.role = "assistant" /\ \A k \in m.calls : ~k.mcp
      BY <1>4
    <2>4. {x} # {}
      OBVIOUS
    <2>5. <<x>> # <<>> /\ (\A m \in Range(<<x>>) : ~m.own /\ m.role = "assistant") /\ Resolved(<<x>>)
      BY <1>5, <2>2, <2>3, <2>4
    <2> QED  BY <2>1, <2>2, <2>5 DEF Carries
  <1>7. CASE a = "call"
    <2>1. HistoryOf(t, OutputOf(t, a)) = <<y>> /\ Pending(OutputOf(t, a)) = {c}
      BY <1>1, <1>3, <1>7, PendingIs, HistoryIs
    <2>2. <<y>> \in Seq(Spoken) /\ Range(<<y>>) = {y}
      BY <1>4, RangeOfOne
    <2>3. \A m \in {y} : ~m.own /\ m.role = "assistant" /\ \A k \in m.calls : ~k.mcp
      BY <1>2, <1>4
    <2>4. {y} # {}
      OBVIOUS
    <2>5. <<y>> # <<>> /\ (\A m \in Range(<<y>>) : ~m.own /\ m.role = "assistant") /\ Resolved(<<y>>)
      BY <1>5, <2>2, <2>3, <2>4
    <2> QED  BY <1>4, <2>1, <2>2, <2>5 DEF Carries
  <1>8. CASE a = "calls"
    <2>1. HistoryOf(t, OutputOf(t, a)) = <<x, z>> /\ Pending(OutputOf(t, a)) = {c, d}
      BY <1>1, <1>3, <1>8, PendingIs, HistoryIs
    <2>2. <<x, z>> \in Seq(Spoken) /\ Range(<<x, z>>) = {x, z}
      BY <1>4, RangeOfTwo
    <2>3. \A m \in {x, z} : ~m.own /\ m.role = "assistant" /\ \A k \in m.calls : ~k.mcp
      BY <1>2, <1>4
    <2>4. {x, z} # {} /\ z \in {x, z}
      OBVIOUS
    <2>5. <<x, z>> # <<>> /\ (\A m \in Range(<<x, z>>) : ~m.own /\ m.role = "assistant") /\ Resolved(<<x, z>>)
      BY <1>5, <2>2, <2>3, <2>4
    <2> QED  BY <1>4, <2>1, <2>2, <2>4, <2>5 DEF Carries
  <1>9. CASE a = "toolThenText"
    <2>1. HistoryOf(t, OutputOf(t, a)) = <<w>> /\ Pending(OutputOf(t, a)) = {}
      BY <1>1, <1>3, <1>9, PendingIs, HistoryIs
    <2>2. <<w>> \in Seq(Spoken) /\ Range(<<w>>) = {w}
      BY <1>4, RangeOfOne
    <2>3. \A m \in {w} : ~m.own /\ m.role = "assistant"
      BY <1>4
    <2>4. {w} # {}
      OBVIOUS
    <2>5. <<w>> # <<>> /\ \A m \in Range(<<w>>) : ~m.own /\ m.role = "assistant"
      BY <1>5, <2>2, <2>3, <2>4
    <2> QED  BY <1>9, <2>1, <2>2, <2>5 DEF Carries
  <1> QED  BY <1>6, <1>7, <1>8, <1>9, TurnsAssumption

\* What waits for the client is the calls of one output.
LEMMA PendingFits ==
  ASSUME NEW t \in Turns, NEW a \in Answers
  PROVE  Pending(OutputOf(t, a)) \in CallSets /\ Pending(<<>>) \in CallSets
  <1>1. a \in {"text", "call", "calls", "toolThenText"}
    BY TurnsAssumption
  <1>2. /\ Pending(<<>>) = {} /\ Pending(OutputOf(t, "text")) = {}
        /\ Pending(OutputOf(t, "call")) = {CallOf(t, 1, FALSE)}
        /\ Pending(OutputOf(t, "calls")) = {CallOf(t, 1, FALSE), CallOf(t, 2, FALSE)}
        /\ Pending(OutputOf(t, "toolThenText")) = {}
    BY PendingIs
  <1>3. {} \in CallSets /\ {CallOf(t, 1, FALSE)} \in CallSets
        /\ {CallOf(t, 1, FALSE), CallOf(t, 2, FALSE)} \in CallSets
    BY CallsFit
  <1>4. CASE a = "text"
    BY <1>2, <1>3, <1>4
  <1>5. CASE a = "call"
    BY <1>2, <1>3, <1>5
  <1>6. CASE a = "calls"
    BY <1>2, <1>3, <1>6
  <1>7. CASE a = "toolThenText"
    BY <1>2, <1>3, <1>7
  <1> QED  BY <1>1, <1>4, <1>5, <1>6, <1>7

\* What a client says: no instructions and nothing of the model; its results are for
\* calls that wait.
LEMMA InputsFit ==
  ASSUME NEW t \in Turns, NEW made, Pending(made) \in CallSets, NEW input \in Inputs(t, made)
  PROVE  /\ input \in Seq(Spoken)
         /\ \A m \in Range(input) : /\ ~m.own /\ m.role # "assistant"
                                    /\ m.role = "tool" => m.calls \subseteq Pending(made)
  <1>1. PICK calls : calls = Pending(made) /\ calls \in CallSets
    OBVIOUS
  <1>2. input = <<Msg("user", t, {})>> \/ (calls # {} /\ input = ResultsFor(t, calls))
    BY <1>1 DEF Inputs
  <1>3. CASE input = <<Msg("user", t, {})>>
    <2>1. PICK m : m = Msg("user", t, {})
      OBVIOUS
    <2>2. m \in Spoken /\ m.role = "user" /\ ~m.own
      <3>1. {} \in SUBSET CallIds
        OBVIOUS
      <3>2. LET k == Msg("user", t, {}) IN k \in Spoken /\ k.role = "user" /\ ~k.own
        BY <3>1, MsgFits
      <3> QED  BY <2>1, <3>2
    <2>3. input \in Seq(Spoken) /\ Range(input) = {m}
      BY <1>3, <2>1, <2>2, RangeOfOne
    <2> QED  BY <2>2, <2>3
  <1>4. CASE calls # {} /\ input = ResultsFor(t, calls)
    <2>1. PICK n : n = Cardinality(calls) /\ n \in Nat
      BY <1>1, <1>4, CallsNumbered
    <2>2. input = [i \in 1..n |-> Msg("tool", t, {c \in calls : c.no = i})]
      BY <1>4, <2>1 DEF ResultsFor
    <2>3. ASSUME NEW i \in 1..n
          PROVE  /\ input[i] \in Spoken /\ ~input[i].own /\ input[i].role = "tool"
                 /\ input[i].calls \subseteq calls
      <3>1. PICK k : k = {c \in calls : c.no = i}
        OBVIOUS
      <3>2. k \in SUBSET CallIds /\ k \subseteq calls
        BY <1>1, <3>1 DEF CallSets
      <3>3. LET m == Msg("tool", t, k) IN m \in Spoken /\ m.role = "tool" /\ m.calls = k /\ ~m.own
        BY <3>2, MsgFits
      <3>4. input[i] = Msg("tool", t, k)
        BY <2>2, <3>1
      <3> QED  BY <3>2, <3>3, <3>4
    <2>4. input \in Seq(Spoken) /\ Len(input) = n
      <3>1. input \in [1..n -> Spoken]
        BY <2>2, <2>3
      <3> QED  BY <2>1, <3>1
    <2>5. Range(input) = {input[i] : i \in 1..n}
      BY <2>4, RangeParts
    <2>6. ASSUME NEW m \in Range(input)
          PROVE  ~m.own /\ m.role = "tool" /\ m.calls \subseteq calls
      BY <2>3, <2>5
    <2> QED  BY <1>1, <2>4, <2>6
  <1> QED  BY <1>2, <1>3, <1>4

\* What is kept of two parts is what is kept of each.
LEMMA ContinuationConcat ==
  ASSUME NEW s \in Seq(Spoken), NEW t \in Seq(Spoken)
  PROVE  ForContinuation(s \o t) = ForContinuation(s) \o ForContinuation(t)
  <1> DEFINE T == {u \in Seq(Spoken) : ForContinuation(s \o u) = ForContinuation(s) \o ForContinuation(u)}
  <1>1. <<>> \in T
    <2>1. s \o <<>> = s /\ <<>> \in Seq(Spoken)
      OBVIOUS
    <2>2. ForContinuation(s) \in Seq(Spoken) /\ ForContinuation(<<>>) = <<>>
      BY FiltersFit
    <2>3. ForContinuation(s) \o <<>> = ForContinuation(s)
      BY <2>2
    <2> QED  BY <2>1, <2>2, <2>3
  <1>2. ASSUME NEW u \in Seq(Spoken), u \in T, NEW x \in Spoken PROVE Append(u, x) \in T
    <2>1. PICK v, w, su : v = Append(u, x) /\ su = s \o u /\ w = s \o v
      OBVIOUS
    <2>2. v \in Seq(Spoken) /\ su \in Seq(Spoken) /\ w = Append(su, x)
      BY <2>1
    <2>3. PICK fs, fu, p : fs = ForContinuation(s) /\ fu = ForContinuation(u)
                           /\ p = IF x.own THEN <<>> ELSE <<x>>
      OBVIOUS
    <2>4. fs \in Seq(Spoken) /\ fu \in Seq(Spoken)
      BY <2>3, FiltersFit
    <2>5. p \in Seq(Spoken)
      BY <2>3
    <2>6. ForContinuation(v) = fu \o p
      BY <2>1, <2>3, FiltersAppend
    <2>7. ForContinuation(w) = ForContinuation(su) \o p
      <3>1. ForContinuation(Append(su, x)) = ForContinuation(su) \o (IF x.own THEN <<>> ELSE <<x>>)
        BY <2>2, FiltersAppend
      <3> QED  BY <2>2, <2>3, <3>1
    <2>8. ForContinuation(su) = fs \o fu
      BY <1>2, <2>1, <2>3
    <2>9. (fs \o fu) \o p = fs \o (fu \o p)
      BY <2>4, <2>5, ConcatAssociative, SMTT(40)
    <2>10. ForContinuation(w) = fs \o ForContinuation(v)
      BY <2>6, <2>7, <2>8, <2>9
    <2> QED  BY <2>1, <2>2, <2>3, <2>10
  <1> HIDE DEF T
  <1>3. \A u \in Seq(Spoken) : u \in T
    BY <1>1, <1>2, SequencesFromAppend
  <1> QED  BY <1>3 DEF T

\* The results of the server's calls are kept together and stay.
LEMMA ResolvedConcat ==
  ASSUME NEW s \in Seq(Spoken), NEW t \in Seq(Spoken), Resolved(s), Resolved(t)
  PROVE  Resolved(s \o t)
  <1>1. Range(s \o t) = Range(s) \cup Range(t)
    BY RangeParts
  <1>2. ASSUME NEW m \in Range(s \o t), m.role = "assistant", NEW c \in m.calls, c.mcp
        PROVE  \E r \in Range(s \o t) : r.role = "tool" /\ r.calls = {c}
    <2>1. CASE m \in Range(s)
      BY <1>1, <1>2, <2>1 DEF Resolved
    <2>2. CASE m \in Range(t)
      BY <1>1, <1>2, <2>2 DEF Resolved
    <2> QED  BY <1>1, <2>1, <2>2
  <1> QED  BY <1>2 DEF Resolved

\* Leaving out instructions separates no call of the server from its result.
LEMMA ResolvedKept ==
  ASSUME NEW s \in Seq(Spoken), Resolved(s)
  PROVE  Resolved(ForContinuation(s))
  <1>1. PICK f : f = ForContinuation(s) /\ Range(f) = {m \in Range(s) : ~m.own}
    BY ContinuationKeeps
  <1>2. \A m \in Range(s) : m.role = "tool" => ~m.own
    <2>1. Range(s) \subseteq Spoken
      BY RangeParts
    <2>2. \A m \in Spoken : m.role = "tool" => ~m.own
      BY DEF Spoken
    <2> QED  BY <2>1, <2>2
  <1>3. Resolved(f)
    BY <1>1, <1>2 DEF Resolved
  <1> QED  BY <1>1, <1>3

\* The instructions of a request are a system message of its own.
LEMMA InstructionsFit ==
  ASSUME NEW t \in Turns, NEW instr, instr = <<>> \/ instr = <<Instructions(t)>>
  PROVE  /\ instr \in Seq(Spoken) /\ Once(instr) /\ Matched(instr) /\ Resolved(instr)
         /\ ForContinuation(instr) = <<>>
         /\ \A m \in Range(instr) : m.turn = t
         /\ instr # <<>> => Instructions(t) \in Range(instr)
  <1>1. PICK i : i = Instructions(t)
    OBVIOUS
  <1>2. i \in Spoken /\ i.own /\ i.turn = t /\ i.role = "system"
    BY <1>1 DEF Instructions, Msg, Spoken, Messages
  <1>3. PICK none : none = <<>>
    OBVIOUS
  <1>4. none \in Seq(Spoken) /\ Len(none) = 0 /\ Append(none, i) = <<i>> /\ none \o none = none
    BY <1>3
  <1>5. Range(none) = {}
    <2>1. Range(<<>>) = {}
      BY <1>4, RangeParts
    <2> QED  BY <1>3, <2>1
  <1>6. /\ Once(none) /\ Matched(none) /\ Resolved(none) /\ ForContinuation(none) = <<>>
    <2>1. Once(none) /\ Matched(none)
      BY <1>4 DEF Once, Matched
    <2>2. Resolved(none)
      BY <1>5 DEF Resolved
    <2>3. ForContinuation(none) = <<>>
      BY <1>3, <1>4, FiltersFit
    <2> QED  BY <2>1, <2>2, <2>3
  <1>7. CASE instr = <<Instructions(t)>>
    <2>1. PICK s : s = <<i>>
      OBVIOUS
    <2>2. s \in Seq(Spoken) /\ Range(s) = {i} /\ Len(s) = 1 /\ s[1] = i
      <3>1. s \in Seq(Spoken) /\ Range(s) = {i}
        BY <1>2, <2>1, RangeOfOne
      <3> QED  BY <2>1, <3>1
    <2>3. Once(s) /\ Matched(s)
      BY <1>2, <2>2 DEF Once, Matched
    <2>4. Resolved(s)
      BY <1>2, <2>2 DEF Resolved
    <2>5. ForContinuation(s) = <<>>
      <3>1. ForContinuation(Append(none, i)) = ForContinuation(none) \o (IF i.own THEN <<>> ELSE <<i>>)
        BY <1>2, <1>4, FiltersAppend
      <3> QED  BY <1>2, <1>3, <1>4, <1>6, <2>1, <3>1
    <2>6. instr = s
      BY <1>1, <1>7, <2>1
    <2> QED  BY <1>1, <1>2, <2>2, <2>3, <2>4, <2>5, <2>6
  <1>8. CASE instr = <<>>
    <2>1. instr = none
      BY <1>3, <1>8
    <2> QED  BY <1>4, <1>5, <1>6, <1>8, <2>1
  <1> QED  BY <1>7, <1>8

\* The conversation of a turn: what is known of the one it continues holds of it, its
\* instructions are its own, and it goes on with what the client says.
Continues(t, h, instr, input, all) ==
  /\ all \in Seq(Spoken) /\ Once(all)
  /\ \A m \in Range(all) : m.own => m.turn = t
  /\ Matched(h) => Matched(all)
  /\ Resolved(h) => Resolved(all)
  /\ ForContinuation(all) = h \o input
  /\ instr # <<>> => Instructions(t) \in Range(all)

\* A history, instructions and an input put together are what a turn should be asked with.
LEMMA ConversationFits ==
  ASSUME NEW t \in Turns, NEW h \in Seq(Spoken), NEW made, NEW input \in Inputs(t, made), Pending(made) \in CallSets,
         \A m \in Range(h) : ~m.own, Carries(h, Pending(made)),
         NEW instr, instr = <<>> \/ instr = <<Instructions(t)>>, NEW all, all = h \o instr \o input
  PROVE  Continues(t, h, instr, input, all)
  <1>2. /\ instr \in Seq(Spoken) /\ Once(instr) /\ Matched(instr) /\ Resolved(instr)
        /\ ForContinuation(instr) = <<>>
        /\ \A m \in Range(instr) : m.turn = t
        /\ instr # <<>> => Instructions(t) \in Range(instr)
    BY InstructionsFit
  <1>3. /\ input \in Seq(Spoken)
        /\ \A m \in Range(input) : /\ ~m.own /\ m.role # "assistant"
                                   /\ m.role = "tool" => m.calls \subseteq Pending(made)
    BY InputsFit
  <1>4. PICK hi, msgs : hi = h \o instr /\ msgs = hi \o input
    OBVIOUS
  <1>5. hi \in Seq(Spoken) /\ Range(hi) = Range(h) \cup Range(instr)
    BY <1>2, <1>4, RangeParts
  <1>6. msgs \in Seq(Spoken) /\ Range(msgs) = Range(hi) \cup Range(input)
    <2>1. input \in Seq(Spoken) /\ hi \in Seq(Spoken)
      BY <1>3, <1>5
    <2>2. hi \o input \in Seq(Spoken) /\ Range(hi \o input) = Range(hi) \cup Range(input)
      BY <2>1, RangeParts
    <2> QED  BY <1>4, <2>2
  <1>7. Once(msgs)
    <2>1. Once(hi)
      BY <1>2, <1>4, OnceParts
    <2>2. \A m \in Range(input) : ~m.own
      BY <1>3
    <2>3. Once(hi \o input)
      BY <1>3, <1>5, <2>1, <2>2, OnceParts
    <2> QED  BY <1>4, <2>3
  <1>8. \A m \in Range(msgs) : m.own => m.turn = t
    BY <1>2, <1>3, <1>5, <1>6
  <1>9. ASSUME Matched(h) PROVE Matched(msgs)
    <2>1. Matched(hi)
      BY <1>2, <1>4, <1>9, MatchedConcat
    <2>2. \A m \in Range(input) : m.role = "tool" =>
            \E a \in Range(hi) : a.role = "assistant" /\ m.calls \subseteq a.calls
      <3> SUFFICES ASSUME NEW m \in Range(input), m.role = "tool"
                   PROVE  \E a \in Range(hi) : a.role = "assistant" /\ m.calls \subseteq a.calls
        OBVIOUS
      <3>1. m.calls \subseteq Pending(made)
        BY <1>3
      <3>2. CASE Pending(made) = {}
        <4>1. input = <<Msg("user", t, {})>>
          BY <3>2 DEF Inputs
        <4>2. Msg("user", t, {}) \in Spoken /\ Msg("user", t, {}).role = "user"
          <5>1. {} \in SUBSET CallIds
            OBVIOUS
          <5>2. LET k == Msg("user", t, {}) IN k \in Spoken /\ k.role = "user"
            BY <5>1, MsgFits
          <5> QED  BY <5>2
        <4>3. PICK u : u = Msg("user", t, {}) /\ u \in Spoken /\ u.role = "user" /\ input = <<u>>
          BY <4>1, <4>2
        <4>4. Range(input) = {u}
          BY <4>3, RangeOfOne
        <4> QED  BY <4>3, <4>4
      <3>3. CASE Pending(made) # {}
        <4>1. PICK a \in Range(h) : a.role = "assistant" /\ Pending(made) \subseteq a.calls
          BY <3>3 DEF Carries
        <4> QED  BY <1>5, <3>1, <4>1
      <3> QED  BY <3>2, <3>3
    <2>3. Matched(hi \o input)
      BY <1>3, <1>5, <2>1, <2>2, MatchedConcat
    <2> QED  BY <1>4, <2>3
  <1>10. ASSUME Resolved(h) PROVE Resolved(msgs)
    <2>1. Resolved(hi)
      BY <1>2, <1>4, <1>10, ResolvedConcat
    <2>2. Resolved(input)
      BY <1>3 DEF Resolved
    <2>3. Resolved(hi \o input)
      BY <1>3, <1>5, <2>1, <2>2, ResolvedConcat
    <2> QED  BY <1>4, <2>3
  <1>11. ForContinuation(msgs) = h \o input
    <2>1. ForContinuation(h) = h
      BY ContinuationKeeps
    <2>2. ForContinuation(input) = input
      BY <1>3, ContinuationKeeps
    <2>3. ForContinuation(hi) = h
      <3>1. ForContinuation(h \o instr) = ForContinuation(h) \o ForContinuation(instr)
        BY <1>2, ContinuationConcat
      <3>2. h \o <<>> = h
        OBVIOUS
      <3> QED  BY <1>2, <1>4, <2>1, <3>1, <3>2
    <2>4. ForContinuation(hi \o input) = ForContinuation(hi) \o ForContinuation(input)
      BY <1>3, <1>5, ContinuationConcat
    <2> QED  BY <1>4, <2>2, <2>3, <2>4
  <1>12. instr # <<>> => Instructions(t) \in Range(msgs)
    BY <1>2, <1>5, <1>6
  <1>13. all = msgs
    BY <1>4
  <1> QED  BY <1>6, <1>7, <1>8, <1>9, <1>10, <1>11, <1>12, <1>13 DEF Continues

\* The conversation with its answer, as it is kept for the next turn.
LEMMA KeptFits ==
  ASSUME NEW s \in Seq(Spoken), NEW added \in Seq(Spoken), NEW calls,
         added # <<>>, \A m \in Range(added) : ~m.own, Carries(added, calls),
         Matched(added), Resolved(added)
  PROVE  LET kept == ForContinuation(s \o added) IN
         /\ kept \in Seq(Spoken) /\ kept # <<>>
         /\ \A m \in Range(kept) : ~m.own
         /\ Carries(kept, calls)
         /\ Matched(s) => Matched(kept)
         /\ Resolved(s) => Resolved(kept)
         /\ kept = ForContinuation(s) \o added
  <1>1. PICK both, kept : both = s \o added /\ kept = ForContinuation(both)
    OBVIOUS
  <1>2. both \in Seq(Spoken) /\ Range(both) = Range(s) \cup Range(added)
    BY <1>1, RangeParts
  <1>3. kept \in Seq(Spoken) /\ Range(kept) = {m \in Range(both) : ~m.own}
    BY <1>1, <1>2, ContinuationKeeps
  <1>4. Range(added) \subseteq Range(kept) /\ Range(added) # {}
    <2>1. Range(added) # {}
      BY RangeParts
    <2> QED  BY <1>2, <1>3, <2>1
  <1>5. kept # <<>>
    <2>1. Range(kept) # {}
      BY <1>4
    <2> QED  BY <1>3, <2>1, RangeParts
  <1>6. Carries(kept, calls)
    BY <1>4 DEF Carries
  <1>7. ASSUME Matched(s) PROVE Matched(kept)
    <2>1. Matched(both)
      BY <1>1, <1>7, MatchedConcat
    <2> QED  BY <1>1, <1>2, <2>1, ContinuationKeeps
  <1>8. ASSUME Resolved(s) PROVE Resolved(kept)
    <2>1. Resolved(both)
      BY <1>1, <1>8, ResolvedConcat
    <2> QED  BY <1>1, <1>2, <2>1, ResolvedKept
  <1>9. kept = ForContinuation(s) \o added
    <2>1. ForContinuation(added) = added
      BY ContinuationKeeps
    <2> QED  BY <1>1, <2>1, ContinuationConcat
  <1> QED  BY <1>1, <1>3, <1>5, <1>6, <1>7, <1>8, <1>9
-----------------------------------------------------------------------------
(* The inductive invariant of the turns. *)

Stages == Midway \cup {"idle", "previous", "enqueue", "generate", "storeResponse",
                       "done", "failed", "refused", "dead", "deleted"}

\* Turns that have an output.
Produced(t) ==
  stage[t] \in {"storeResponse", "storeContext", "storeItems", "done", "dead", "deleteContext", "deleted"}

Typed ==
  /\ shared \in BOOLEAN
  /\ stage \in [Turns -> Stages]
  /\ cur \in [Turns -> [prev : Nat, instructions : BOOLEAN, auto : BOOLEAN, mode : Modes]]
  /\ conv \in [Turns -> Seq(Spoken)] /\ final \in [Turns -> Seq(Spoken)]
  /\ context \in [Turns -> Seq(Spoken)] /\ said \in [Turns -> Seq(Spoken)]
  /\ resp \in [Turns -> {"none", "queued", "completed", "failed", "deleted"}]
  /\ cut \in [Turns -> BOOLEAN]
  /\ seen = [t \in Turns |-> seen[t]] /\ output = [t \in Turns |-> output[t]]
  /\ items = [t \in Turns |-> items[t]]

\* With one worker one handler is midway.
OneMidway == ~shared => \A t, u \in Turns : stage[t] \in Midway /\ stage[u] \in Midway => t = u

\* Where a handler is, what its response is, and what it has of the one it continues.
Placed(t) ==
  /\ cur[t].prev \in 0..t - 1
  /\ cur[t].prev # 0 => Sent(cur[t].prev)
  /\ ~Sent(t) => resp[t] = "none"
  /\ resp[t] = "completed" => stage[t] \in {"storeContext", "storeItems", "done", "dead"}
  /\ resp[t] = "queued" \/ stage[t] = "enqueue" => cur[t].mode = "background"
  /\ stage[t] = "context" =>
       cur[t].prev # 0 /\ Produced(cur[t].prev) /\ seen[t] = output[cur[t].prev]

\* With one worker the response that is continued stays as it is, with its context.
Lone(t) ==
  ~shared =>
    /\ stage[t] # "dead"
    /\ stage[t] = "context" => stage[cur[t].prev] = "done"
    /\ stage[t] \in {"storeItems", "done"} => context[t] # <<>>

\* A conversation that was or will be stored for the next turn.
Kept(t, s) ==
  /\ s # <<>> /\ \A m \in Range(s) : ~m.own
  /\ Carries(s, Pending(output[t]))
  /\ ~cut[t] => Matched(s)
  /\ ~cut[t] /\ ~shared => Resolved(s) /\ s = said[t]

\* What a turn has answered and stored.
Stored(t) ==
  /\ Produced(t) => \E a \in Answers : output[t] = OutputOf(t, a)
  /\ stage[t] \in {"storeResponse", "storeContext"} => Kept(t, final[t])
  /\ context[t] # <<>> => stage[t] \in {"storeItems", "done", "dead", "deleteContext"}
  /\ context[t] # <<>> => Kept(t, context[t])
  /\ items[t] # <<>> => Sent(t) /\ items[t] = ItemsOf(conv[t])

\* The conversation of a turn.
Asked(t) ==
  /\ Once(conv[t]) /\ \A m \in Range(conv[t]) : m.own => m.turn = t
  /\ Sent(t) /\ ~cut[t] => Matched(conv[t]) /\ (~shared => Resolved(conv[t]))
  /\ ~shared /\ stage[t] \in {"enqueue", "generate"} /\ ~cut[t] => ForContinuation(conv[t]) = said[t]

\* The conversation of a turn that may be truncated.
Least(t) ==
  Sent(t) /\ cur[t].auto /\ Room > 0 =>
    /\ Size(conv[t]) <= Room \/ \A m \in Range(conv[t]) : IsSystem(m)
    /\ cur[t].instructions => Instructions(t) \in Range(conv[t])
    /\ cut[t] /\ (cur[t].prev = 0 \/ ~cut[cur[t].prev]) => Size(conv[t]) >= Room

\* The inductive invariant.
TurnsInv ==
  Typed /\ OneMidway /\ \A t \in Turns : Placed(t) /\ Lone(t) /\ Stored(t) /\ Asked(t) /\ Least(t)

\* It holds before the first request.
LEMMA TurnsBegin ==
  ASSUME TurnsInit PROVE TurnsInv
  <1>1. PICK none : none = <<>>
    OBVIOUS
  <1>2. none \in Seq(Spoken) /\ Len(none) = 0
    BY <1>1
  <1>3. Range(none) = {}
    BY <1>1, <1>2, RangeParts
  <1>4. \A t \in Turns : /\ stage[t] = "idle" /\ cur[t] = NoRequest /\ resp[t] = "none"
                         /\ conv[t] = none /\ context[t] = none /\ items[t] = none /\ cut[t] = FALSE
    BY <1>1 DEF TurnsInit, NoContext
  <1>5. Typed
    <2>1. shared \in BOOLEAN /\ stage \in [Turns -> Stages] /\ cut \in [Turns -> BOOLEAN]
      BY DEF TurnsInit, Stages
    <2>2. cur \in [Turns -> [prev : Nat, instructions : BOOLEAN, auto : BOOLEAN, mode : Modes]]
      <3>1. NoRequest \in [prev : Nat, instructions : BOOLEAN, auto : BOOLEAN, mode : Modes]
        BY DEF NoRequest, Modes
      <3> QED  BY <3>1 DEF TurnsInit
    <2>3. /\ conv \in [Turns -> Seq(Spoken)] /\ final \in [Turns -> Seq(Spoken)]
          /\ context \in [Turns -> Seq(Spoken)] /\ said \in [Turns -> Seq(Spoken)]
      BY <1>1, <1>2 DEF TurnsInit, NoContext
    <2>4. resp \in [Turns -> {"none", "queued", "completed", "failed", "deleted"}]
      BY DEF TurnsInit
    <2>5. /\ seen = [t \in Turns |-> seen[t]] /\ output = [t \in Turns |-> output[t]]
          /\ items = [t \in Turns |-> items[t]]
      BY DEF TurnsInit
    <2> QED  BY <2>1, <2>2, <2>3, <2>4, <2>5 DEF Typed
  <1>6. OneMidway
    BY <1>4 DEF OneMidway, Midway
  <1>7. ASSUME NEW t \in Turns PROVE Placed(t) /\ Lone(t) /\ Stored(t) /\ Asked(t) /\ Least(t)
    <2>1. ~Sent(t) /\ ~Produced(t)
      BY <1>4 DEF Sent, Produced
    <2>2. Placed(t)
      <3>1. t \in Nat \ {0}
        BY TurnsAssumption
      <3>2. cur[t].prev = 0 /\ 0 \in 0..t - 1
        BY <1>4, <3>1 DEF NoRequest
      <3> QED  BY <1>4, <2>1, <3>2 DEF Placed
    <2>3. Lone(t)
      BY <1>4 DEF Lone
    <2>4. Stored(t)
      BY <1>1, <1>4, <2>1 DEF Stored
    <2>5. Asked(t)
      BY <1>2, <1>3, <1>4, <2>1 DEF Asked, Once
    <2>6. Least(t)
      BY <2>1 DEF Least
    <2> QED  BY <2>2, <2>3, <2>4, <2>5, <2>6
  <1> QED  BY <1>5, <1>6, <1>7 DEF TurnsInv

\* A step of one turn changes nothing of the others.
Apart(t) ==
  /\ shared' = shared
  /\ \A u \in Turns \ {t} :
       /\ stage'[u] = stage[u] /\ cur'[u] = cur[u] /\ seen'[u] = seen[u] /\ conv'[u] = conv[u]
       /\ final'[u] = final[u] /\ output'[u] = output[u] /\ resp'[u] = resp[u]
       /\ context'[u] = context[u] /\ items'[u] = items[u] /\ said'[u] = said[u] /\ cut'[u] = cut[u]

\* What the others may rely on of a turn that takes a step.
Goodwill(t) ==
  /\ Sent(t) => Sent(t)' /\ cut'[t] = cut[t]
  /\ Produced(t) => Produced(t)' /\ output'[t] = output[t]
  /\ ~shared /\ (stage[t] = "done" \/ (stage[t] \notin Midway /\ stage'[t] \in Midway)) =>
       \A u \in Turns \ {t} : stage[u] \notin Midway

\* So the invariant is kept by a step that keeps it for its own turn.
LEMMA TurnsKeep ==
  ASSUME TurnsInv, NEW t \in Turns, Typed', Apart(t), Goodwill(t),
         Placed(t)', Lone(t)', Stored(t)', Asked(t)', Least(t)'
  PROVE  TurnsInv'
  <1>1. OneMidway'
    <2> SUFFICES ASSUME ~shared, NEW u \in Turns, NEW v \in Turns,
                        stage'[u] \in Midway, stage'[v] \in Midway
                 PROVE  u = v
      BY DEF OneMidway, Apart
    <2>1. ASSUME NEW w \in Turns \ {t}, stage'[w] \in Midway PROVE stage'[t] \notin Midway
      <3>1. stage[w] \in Midway
        BY <2>1 DEF Apart
      <3> QED  BY <3>1 DEF Goodwill, TurnsInv, OneMidway
    <2>2. CASE u # t /\ v # t
      BY <2>2 DEF Apart, TurnsInv, OneMidway
    <2> QED  BY <2>1, <2>2
  <1>2. ASSUME NEW u \in Turns, u # t PROVE Placed(u)' /\ Lone(u)' /\ Stored(u)' /\ Asked(u)' /\ Least(u)'
    <2>1. /\ stage'[u] = stage[u] /\ cur'[u] = cur[u] /\ seen'[u] = seen[u] /\ conv'[u] = conv[u]
          /\ final'[u] = final[u] /\ output'[u] = output[u] /\ resp'[u] = resp[u]
          /\ context'[u] = context[u] /\ items'[u] = items[u] /\ said'[u] = said[u] /\ cut'[u] = cut[u]
          /\ shared' = shared
      BY <1>2 DEF Apart
    <2>2. Placed(u) /\ Lone(u) /\ Stored(u) /\ Asked(u) /\ Least(u)
      BY DEF TurnsInv
    <2>3. PICK p : p = cur[u].prev
      OBVIOUS
    <2>4. p = 0 \/ p \in Turns
      <3>1. u \in Nat /\ 1..u - 1 \subseteq Turns
        BY TurnsAssumption
      <3>2. p \in 0..u - 1
        BY <2>2, <2>3 DEF Placed
      <3> QED  BY <3>1, <3>2
    <2>5. p # 0 => /\ Sent(p) /\ Sent(p)' /\ cut'[p] = cut[p]
                   /\ Produced(p) => Produced(p)' /\ output'[p] = output[p]
      <3> SUFFICES ASSUME p # 0 PROVE /\ Sent(p) /\ Sent(p)' /\ cut'[p] = cut[p]
                                      /\ Produced(p) => Produced(p)' /\ output'[p] = output[p]
        OBVIOUS
      <3>1. Sent(p)
        BY <2>2, <2>3 DEF Placed
      <3>2. CASE p = t
        BY <3>1, <3>2 DEF Goodwill
      <3>3. CASE p # t
        <4>1. stage'[p] = stage[p] /\ cut'[p] = cut[p] /\ output'[p] = output[p]
          BY <2>4, <3>3 DEF Apart
        <4> QED  BY <3>1, <4>1 DEF Sent, Produced
      <3> QED  BY <3>2, <3>3
    <2>6. (Sent(u)' <=> Sent(u)) /\ (Produced(u)' <=> Produced(u))
      BY <2>1 DEF Sent, Produced
    <2>7. Placed(u)'
      BY <2>1, <2>2, <2>3, <2>5, <2>6 DEF Placed
    <2>8. Lone(u)'
      <3> SUFFICES ASSUME ~shared PROVE Lone(u)'
        BY <2>1 DEF Lone
      <3>1. stage[u] = "context" => stage'[p] = "done"
        <4> SUFFICES ASSUME stage[u] = "context" PROVE stage'[p] = "done"
          OBVIOUS
        <4>1. stage[p] = "done" /\ p # 0
          BY <2>2, <2>3 DEF Lone, Placed
        <4>2. p # t
          <5>1. stage[u] \in Midway /\ u \in Turns \ {t}
            BY <1>2 DEF Midway
          <5> QED  BY <4>1, <5>1 DEF Goodwill
        <4> QED  BY <2>4, <4>1, <4>2 DEF Apart
      <3> QED  BY <2>1, <2>2, <2>3, <3>1 DEF Lone
    <2>9. Stored(u)'
      <3>1. \A s : Kept(u, s) => Kept(u, s)'
        BY <2>1 DEF Kept
      <3>2. PICK f, c : f = final[u] /\ c = context[u]
        OBVIOUS
      <3>3. (Kept(u, f) => Kept(u, f)') /\ (Kept(u, c) => Kept(u, c)')
        BY <3>1
      <3>4. (Kept(u, final[u])' <=> Kept(u, f)') /\ (Kept(u, context[u])' <=> Kept(u, c)')
        BY <2>1, <3>2 DEF Kept
      <3> QED  BY <2>1, <2>2, <2>6, <3>2, <3>3, <3>4 DEF Stored
    <2>10. Asked(u)'
      BY <2>1, <2>2, <2>6 DEF Asked
    <2>11. Least(u)'
      BY <2>1, <2>2, <2>3, <2>5, <2>6 DEF Least
    <2> QED  BY <2>7, <2>8, <2>9, <2>10, <2>11
  <1> QED  BY <1>1, <1>2 DEF TurnsInv

\* The one a turn continues is an earlier turn.
LEMMA PrevFits ==
  ASSUME TurnsInv, NEW t \in Turns, cur[t].prev # 0
  PROVE  cur[t].prev \in Turns /\ cur[t].prev # t /\ Sent(cur[t].prev)
  <1>1. t \in Nat \ {0} /\ 1..t - 1 \subseteq Turns
    BY TurnsAssumption
  <1>2. cur[t].prev \in 0..t - 1 /\ Sent(cur[t].prev)
    BY DEF TurnsInv, Placed
  <1>3. PICK p : p = cur[t].prev
    OBVIOUS
  <1>4. p \in 1..t - 1 /\ p # t
    BY <1>1, <1>2, <1>3
  <1> QED  BY <1>1, <1>2, <1>3, <1>4

\* A step that leaves the request and its conversation as they are.
LEMMA TurnsGoOn ==
  ASSUME TurnsInv, NEW t \in Turns, Typed', Apart(t), Sent(t), Sent(t)',
         cur'[t] = cur[t], conv'[t] = conv[t], cut'[t] = cut[t],
         stage'[t] \notin {"context", "enqueue"},
         stage'[t] = "generate" => stage[t] = "enqueue" /\ said'[t] = said[t],
         resp'[t] = "completed" => stage'[t] \in {"storeContext", "storeItems", "done", "dead"},
         resp'[t] = "queued" => cur[t].mode = "background",
         Produced(t) => Produced(t)' /\ output'[t] = output[t],
         ~shared /\ (stage[t] = "done" \/ (stage[t] \notin Midway /\ stage'[t] \in Midway)) =>
           \A u \in Turns \ {t} : stage[u] \notin Midway,
         ~shared => stage'[t] # "dead" /\ (stage'[t] \in {"storeItems", "done"} => context'[t] # <<>>),
         Stored(t)'
  PROVE  TurnsInv'
  <1>1. Placed(t) /\ Asked(t) /\ Least(t)
    BY DEF TurnsInv
  <1>2. shared' = shared
    BY DEF Apart
  <1>3. PICK p : p = cur[t].prev
    OBVIOUS
  <1>4. p # 0 => Sent(p)' /\ cut'[p] = cut[p]
    <2> SUFFICES ASSUME p # 0 PROVE Sent(p)' /\ cut'[p] = cut[p]
      OBVIOUS
    <2>1. p \in Turns \ {t} /\ Sent(p)
      BY <1>3, PrevFits
    <2> QED  BY <2>1 DEF Apart, Sent
  <1>5. Placed(t)'
    BY <1>1, <1>3, <1>4 DEF Placed
  <1>6. Lone(t)'
    BY <1>2 DEF Lone
  <1>7. Asked(t)'
    BY <1>1, <1>2 DEF Asked
  <1>8. Least(t)'
    BY <1>1, <1>3, <1>4 DEF Least
  <1>9. Goodwill(t)
    BY DEF Goodwill
  <1> QED  BY <1>5, <1>6, <1>7, <1>8, <1>9, TurnsKeep

\* What was kept stays so.
LEMMA KeptStays ==
  ASSUME NEW t, shared' = shared, output'[t] = output[t], cut'[t] = cut[t], said'[t] = said[t]
  PROVE  \A s : Kept(t, s) => Kept(t, s)'
  BY DEF Kept

\* A step that leaves what is kept as it is.
LEMMA StoredStays ==
  ASSUME TurnsInv, NEW t \in Turns, shared' = shared, output'[t] = output[t], cut'[t] = cut[t],
         said'[t] = said[t], final'[t] = final[t], context'[t] = context[t], conv'[t] = conv[t],
         Produced(t)' => Produced(t),
         stage'[t] \in {"storeResponse", "storeContext"} => stage[t] \in {"storeResponse", "storeContext"},
         stage[t] \in {"storeItems", "done", "dead", "deleteContext"} =>
           stage'[t] \in {"storeItems", "done", "dead", "deleteContext"},
         items'[t] # <<>> => Sent(t)' /\ items'[t] = ItemsOf(conv[t])
  PROVE  Stored(t)'
  <1>1. Stored(t)
    BY DEF TurnsInv
  <1>2. PICK f, c : f = final[t] /\ c = context[t]
    OBVIOUS
  <1>3. (Kept(t, f) => Kept(t, f)') /\ (Kept(t, c) => Kept(t, c)')
    BY KeptStays
  <1>4. (Kept(t, final[t])' <=> Kept(t, f)') /\ (Kept(t, context[t])' <=> Kept(t, c)')
    BY <1>2 DEF Kept
  <1> QED  BY <1>1, <1>2, <1>3, <1>4 DEF Stored

\* A request is made, of a previous response that exists.
LEMMA AskStep ==
  ASSUME TurnsInv, NEW t \in Turns, Ask(t)
  PROVE  TurnsInv'
  <1>1. PICK p \in {0} \cup {q \in 1..t - 1 : resp[q] # "none"}, k \in Kinds :
          cur' = [cur EXCEPT ![t] = [prev |-> p, instructions |-> k.instructions,
                                     auto |-> k.auto, mode |-> k.mode]]
    BY DEF Ask
  <1>2. /\ stage[t] = "idle" /\ stage' = [stage EXCEPT ![t] = "previous"]
        /\ UNCHANGED <<shared, seen, conv, final, output, resp, context, items, said, cut>>
    BY DEF Ask, Move, store
  <1>3. Typed /\ Placed(t) /\ Lone(t) /\ Stored(t) /\ Asked(t) /\ Least(t)
    BY DEF TurnsInv
  <1>4. t \in Nat \ {0} /\ 1..t - 1 \subseteq Turns /\ p \in 0..t - 1 /\ p \in Nat
    <2>1. t \in Nat \ {0} /\ 1..t - 1 \subseteq Turns
      BY TurnsAssumption
    <2> QED  BY <1>1, <2>1
  <1>5. k \in [instructions : BOOLEAN, auto : BOOLEAN, mode : Modes]
    BY TurnsAssumption
  <1>6. Typed'
    <2>1. stage' \in [Turns -> Stages]
      BY <1>2, <1>3 DEF Typed, Stages
    <2>2. cur' \in [Turns -> [prev : Nat, instructions : BOOLEAN, auto : BOOLEAN, mode : Modes]]
      <3>1. [prev |-> p, instructions |-> k.instructions, auto |-> k.auto, mode |-> k.mode]
              \in [prev : Nat, instructions : BOOLEAN, auto : BOOLEAN, mode : Modes]
        BY <1>4, <1>5
      <3>2. cur \in [Turns -> [prev : Nat, instructions : BOOLEAN, auto : BOOLEAN, mode : Modes]]
        BY <1>3 DEF Typed
      <3> QED  BY <1>1, <3>1, <3>2
    <2> QED  BY <1>2, <1>3, <2>1, <2>2 DEF Typed
  <1>7. stage'[t] = "previous" /\ cur'[t].prev = p
        /\ \A u \in Turns \ {t} : stage'[u] = stage[u] /\ cur'[u] = cur[u]
    <2>1. stage'[t] = "previous" /\ \A u \in Turns \ {t} : stage'[u] = stage[u]
      BY <1>2, <1>3 DEF Typed
    <2>2. cur'[t].prev = p /\ \A u \in Turns \ {t} : cur'[u] = cur[u]
      BY <1>1, <1>3 DEF Typed
    <2> QED  BY <2>1, <2>2
  <1>8. Apart(t)
    BY <1>2, <1>7 DEF Apart
  <1>9. ~Sent(t) /\ ~Produced(t) /\ ~Sent(t)' /\ ~Produced(t)'
    BY <1>2, <1>7 DEF Sent, Produced
  <1>10. Goodwill(t)
    BY <1>2, <1>7, <1>9 DEF Goodwill, Midway
  <1>11. Placed(t)'
    <2>1. p # 0 => Sent(p)'
      <3> SUFFICES ASSUME p # 0 PROVE Sent(p)'
        OBVIOUS
      <3>1. p \in Turns \ {t} /\ resp[p] # "none"
        BY <1>1, <1>4
      <3>2. Sent(p)
        BY <3>1 DEF TurnsInv, Placed
      <3> QED  BY <1>7, <3>1, <3>2 DEF Sent
    <2>2. resp'[t] = "none"
      BY <1>2, <1>3, <1>9 DEF Placed
    <2> QED  BY <1>4, <1>7, <2>1, <2>2 DEF Placed
  <1>12. Lone(t)'
    BY <1>7 DEF Lone
  <1>13. Stored(t)'
    BY <1>2, <1>3, <1>7, <1>9 DEF Stored
  <1>14. Asked(t)'
    BY <1>2, <1>3, <1>7, <1>9 DEF Asked
  <1>15. Least(t)'
    BY <1>9 DEF Least
  <1> QED  BY <1>6, <1>8, <1>10, <1>11, <1>12, <1>13, <1>14, <1>15, TurnsKeep

\* A step from one stage to another; what is not changed keeps its type.
LEMMA StageMoves ==
  ASSUME TurnsInv, NEW t \in Turns, NEW to \in Stages, Move(t, to)
  PROVE  /\ stage' \in [Turns -> Stages] /\ stage'[t] = to
         /\ \A u \in Turns \ {t} : stage'[u] = stage[u]
  <1>1. stage \in [Turns -> Stages]
    BY DEF TurnsInv, Typed
  <1> QED  BY <1>1 DEF Move

\* With one worker, a handler that goes finds no other midway.
LEMMA GoesAlone ==
  ASSUME NEW t \in Turns, Goes(t), ~shared
  PROVE  \A u \in Turns \ {t} : stage[u] \notin Midway
  BY DEF Goes

\* A background response is queued and its items are stored.
LEMMA EnqueueStep ==
  ASSUME TurnsInv, NEW t \in Turns, Enqueue(t)
  PROVE  TurnsInv'
  <1>1. /\ stage[t] = "enqueue" /\ resp' = [resp EXCEPT ![t] = "queued"]
        /\ items' = [items EXCEPT ![t] = ItemsOf(conv[t])] /\ Move(t, "generate")
        /\ UNCHANGED <<shared, cur, seen, conv, final, output, context, said, cut>>
    BY DEF Enqueue
  <1>2. /\ stage' \in [Turns -> Stages] /\ stage'[t] = "generate"
        /\ \A u \in Turns \ {t} : stage'[u] = stage[u]
    BY <1>1, StageMoves DEF Stages
  <1>3. Typed /\ Placed(t)
    BY DEF TurnsInv
  <1>4. /\ resp' \in [Turns -> {"none", "queued", "completed", "failed", "deleted"}]
        /\ resp'[t] = "queued" /\ \A u \in Turns \ {t} : resp'[u] = resp[u]
    BY <1>1, <1>3 DEF Typed
  <1>5. /\ items' = [u \in Turns |-> items'[u]] /\ items'[t] = ItemsOf(conv[t])
        /\ \A u \in Turns \ {t} : items'[u] = items[u]
    BY <1>1, <1>3 DEF Typed
  <1>6. Typed'
    BY <1>1, <1>2, <1>3, <1>4, <1>5 DEF Typed
  <1>7. Apart(t)
    BY <1>1, <1>2, <1>4, <1>5 DEF Apart
  <1>8. Sent(t) /\ Sent(t)' /\ ~Produced(t) /\ ~Produced(t)'
    BY <1>1, <1>2 DEF Sent, Produced
  <1>9. Stored(t)'
    BY <1>1, <1>2, <1>5, <1>8, StoredStays
  <1>10. cur[t].mode = "background"
    BY <1>1, <1>3 DEF Placed
  <1> QED  BY <1>1, <1>2, <1>4, <1>6, <1>7, <1>8, <1>9, <1>10, TurnsGoOn DEF Midway

\* A generation fails.
LEMMA RespondFailsStep ==
  ASSUME TurnsInv, NEW t \in Turns, RespondFails(t)
  PROVE  TurnsInv'
  <1>1. /\ stage[t] = "generate" /\ Move(t, "failed")
        /\ resp' = [resp EXCEPT ![t] = IF cur[t].mode = "sync" THEN resp[t] ELSE "failed"]
        /\ UNCHANGED <<shared, cur, seen, conv, final, output, context, items, said, cut>>
    BY DEF RespondFails
  <1>2. /\ stage' \in [Turns -> Stages] /\ stage'[t] = "failed"
        /\ \A u \in Turns \ {t} : stage'[u] = stage[u]
    BY <1>1, StageMoves DEF Stages
  <1>3. Typed /\ Placed(t)
    BY DEF TurnsInv
  <1>4. /\ resp' \in [Turns -> {"none", "queued", "completed", "failed", "deleted"}]
        /\ resp'[t] \in {resp[t], "failed"} /\ \A u \in Turns \ {t} : resp'[u] = resp[u]
    BY <1>1, <1>3 DEF Typed
  <1>5. Typed'
    BY <1>1, <1>2, <1>3, <1>4 DEF Typed
  <1>6. Apart(t)
    BY <1>1, <1>2, <1>4 DEF Apart
  <1>7. Sent(t) /\ Sent(t)' /\ ~Produced(t) /\ ~Produced(t)'
    BY <1>1, <1>2 DEF Sent, Produced
  <1>8. Stored(t)'
    <2>1. items[t] # <<>> => items[t] = ItemsOf(conv[t])
      BY DEF TurnsInv, Stored
    <2> QED  BY <1>1, <1>2, <1>7, <2>1, StoredStays
  <1>9. resp'[t] # "completed" /\ (resp'[t] = "queued" => cur[t].mode = "background")
    BY <1>1, <1>3, <1>4 DEF Placed
  <1> QED  BY <1>1, <1>2, <1>5, <1>6, <1>7, <1>8, <1>9, TurnsGoOn DEF Midway

\* A response is stored as completed, its context is not yet.
LEMMA StoreResponseStep ==
  ASSUME TurnsInv, NEW t \in Turns, StoreResponse(t)
  PROVE  TurnsInv'
  <1>1. /\ stage[t] = "storeResponse" /\ Goes(t) /\ Move(t, "storeContext")
        /\ resp' = [resp EXCEPT ![t] = "completed"]
        /\ UNCHANGED <<shared, cur, seen, conv, final, output, context, items, said, cut>>
    BY DEF StoreResponse
  <1>2. /\ stage' \in [Turns -> Stages] /\ stage'[t] = "storeContext"
        /\ \A u \in Turns \ {t} : stage'[u] = stage[u]
    BY <1>1, StageMoves DEF Stages, Midway
  <1>3. Typed
    BY DEF TurnsInv
  <1>4. /\ resp' \in [Turns -> {"none", "queued", "completed", "failed", "deleted"}]
        /\ resp'[t] = "completed" /\ \A u \in Turns \ {t} : resp'[u] = resp[u]
    BY <1>1, <1>3 DEF Typed
  <1>5. Typed'
    BY <1>1, <1>2, <1>3, <1>4 DEF Typed
  <1>6. Apart(t)
    BY <1>1, <1>2, <1>4 DEF Apart
  <1>7. Sent(t) /\ Sent(t)' /\ Produced(t) /\ Produced(t)'
    BY <1>1, <1>2 DEF Sent, Produced
  <1>8. Stored(t)'
    <2>1. items[t] # <<>> => items[t] = ItemsOf(conv[t])
      BY DEF TurnsInv, Stored
    <2> QED  BY <1>1, <1>2, <1>7, <2>1, StoredStays
  <1>9. ~shared => \A u \in Turns \ {t} : stage[u] \notin Midway
    BY <1>1, GoesAlone
  <1> QED  BY <1>1, <1>2, <1>4, <1>5, <1>6, <1>7, <1>8, <1>9, TurnsGoOn

\* The conversation is stored for the next turn.
LEMMA StoreContextStep ==
  ASSUME TurnsInv, NEW t \in Turns, StoreContext(t)
  PROVE  TurnsInv'
  <1>1. /\ stage[t] = "storeContext" /\ Move(t, "storeItems")
        /\ context' = [context EXCEPT ![t] = final[t]] /\ final' = [final EXCEPT ![t] = <<>>]
        /\ UNCHANGED <<shared, cur, seen, conv, output, resp, items, said, cut>>
    BY DEF StoreContext
  <1>2. /\ stage' \in [Turns -> Stages] /\ stage'[t] = "storeItems"
        /\ \A u \in Turns \ {t} : stage'[u] = stage[u]
    BY <1>1, StageMoves DEF Stages, Midway
  <1>3. Typed /\ Placed(t) /\ Stored(t)
    BY DEF TurnsInv
  <1>4. /\ context' \in [Turns -> Seq(Spoken)] /\ final' \in [Turns -> Seq(Spoken)]
        /\ context'[t] = final[t]
        /\ \A u \in Turns \ {t} : context'[u] = context[u] /\ final'[u] = final[u]
    <2>0. PICK none : none = <<>>
      OBVIOUS
    <2>1. none = <<>> /\ none \in Seq(Spoken)
      BY <2>0
    <2>2. final' = [final EXCEPT ![t] = none]
      BY <1>1, <2>1
    <2>3. context \in [Turns -> Seq(Spoken)] /\ final \in [Turns -> Seq(Spoken)]
      BY <1>3 DEF Typed
    <2> QED  BY <1>1, <2>1, <2>2, <2>3
  <1>5. Typed'
    BY <1>1, <1>2, <1>3, <1>4 DEF Typed
  <1>6. Apart(t)
    BY <1>1, <1>2, <1>4 DEF Apart
  <1>7. Sent(t) /\ Sent(t)' /\ Produced(t) /\ Produced(t)'
    BY <1>1, <1>2 DEF Sent, Produced
  <1>8. Kept(t, final[t])
    BY <1>1, <1>3 DEF Stored
  <1>9. Stored(t)'
    <2>1. PICK f : f = final[t]
      OBVIOUS
    <2>2. Kept(t, f) /\ (Kept(t, f) => Kept(t, f)')
      BY <1>1, <1>8, <2>1, KeptStays
    <2>3. Kept(t, context[t])'
      BY <1>4, <2>1, <2>2 DEF Kept
    <2> QED  BY <1>1, <1>2, <1>3, <1>7, <2>3 DEF Stored
  <1>10. context'[t] # <<>>
    BY <1>4, <1>8 DEF Kept
  <1>11. (resp'[t] = "completed" => stage'[t] \in {"storeContext", "storeItems", "done", "dead"})
         /\ (resp'[t] = "queued" => cur[t].mode = "background")
    BY <1>1, <1>2, <1>3 DEF Placed
  <1>12. stage[t] \in Midway
    BY <1>1 DEF Midway
  <1> QED  BY <1>1, <1>2, <1>5, <1>6, <1>7, <1>9, <1>10, <1>11, <1>12, TurnsGoOn

\* The items are stored.
LEMMA StoreItemsStep ==
  ASSUME TurnsInv, NEW t \in Turns, StoreItems(t)
  PROVE  TurnsInv'
  <1>1. /\ stage[t] = "storeItems" /\ Move(t, "done")
        /\ items' = [items EXCEPT ![t] = ItemsOf(conv[t])]
        /\ UNCHANGED <<shared, cur, seen, conv, final, output, resp, context, said, cut>>
    BY DEF StoreItems
  <1>2. /\ stage' \in [Turns -> Stages] /\ stage'[t] = "done"
        /\ \A u \in Turns \ {t} : stage'[u] = stage[u]
    BY <1>1, StageMoves DEF Stages
  <1>3. Typed /\ Placed(t) /\ Lone(t)
    BY DEF TurnsInv
  <1>4. /\ items' = [u \in Turns |-> items'[u]] /\ items'[t] = ItemsOf(conv[t])
        /\ \A u \in Turns \ {t} : items'[u] = items[u]
    BY <1>1, <1>3 DEF Typed
  <1>5. Typed'
    BY <1>1, <1>2, <1>3, <1>4 DEF Typed
  <1>6. Apart(t)
    BY <1>1, <1>2, <1>4 DEF Apart
  <1>7. Sent(t) /\ Sent(t)' /\ Produced(t) /\ Produced(t)'
    BY <1>1, <1>2 DEF Sent, Produced
  <1>8. Stored(t)'
    BY <1>1, <1>2, <1>4, <1>7, StoredStays
  <1>9. ~shared => context'[t] # <<>>
    BY <1>1, <1>3 DEF Lone
  <1>10. (resp'[t] = "completed" => stage'[t] \in {"storeContext", "storeItems", "done", "dead"})
         /\ (resp'[t] = "queued" => cur[t].mode = "background")
    BY <1>1, <1>2, <1>3 DEF Placed
  <1>11. stage[t] \in Midway
    BY <1>1 DEF Midway
  <1> QED  BY <1>1, <1>2, <1>5, <1>6, <1>7, <1>8, <1>9, <1>10, <1>11, TurnsGoOn

\* A worker is lost before it has stored the context or the items.
LEMMA TurnCrashStep ==
  ASSUME TurnsInv, NEW t \in Turns, Crash(t)
  PROVE  TurnsInv'
  <1>1. /\ shared /\ stage[t] \in {"storeContext", "storeItems"} /\ Move(t, "dead")
        /\ UNCHANGED <<shared, cur, seen, conv, final, output, resp, context, items, said, cut>>
    BY DEF Crash, store
  <1>2. /\ stage' \in [Turns -> Stages] /\ stage'[t] = "dead"
        /\ \A u \in Turns \ {t} : stage'[u] = stage[u]
    BY <1>1, StageMoves DEF Stages
  <1>3. Typed /\ Placed(t)
    BY DEF TurnsInv
  <1>4. Typed'
    BY <1>1, <1>2, <1>3 DEF Typed
  <1>5. Apart(t)
    BY <1>1, <1>2 DEF Apart
  <1>6. Sent(t) /\ Sent(t)' /\ Produced(t) /\ Produced(t)'
    BY <1>1, <1>2 DEF Sent, Produced
  <1>7. Stored(t)'
    <2>1. items[t] # <<>> => items[t] = ItemsOf(conv[t])
      BY DEF TurnsInv, Stored
    <2> QED  BY <1>1, <1>2, <1>6, <2>1, StoredStays
  <1>8. (resp'[t] = "completed" => stage'[t] \in {"storeContext", "storeItems", "done", "dead"})
        /\ (resp'[t] = "queued" => cur[t].mode = "background")
    BY <1>1, <1>2, <1>3 DEF Placed
  <1> QED  BY <1>1, <1>2, <1>4, <1>5, <1>6, <1>7, <1>8, TurnsGoOn

\* A response is deleted, its context is not yet.
LEMMA DeleteResponseStep ==
  ASSUME TurnsInv, NEW t \in Turns, DeleteResponse(t)
  PROVE  TurnsInv'
  <1>1. /\ stage[t] = "done" /\ Goes(t) /\ Move(t, "deleteContext")
        /\ resp' = [resp EXCEPT ![t] = "deleted"]
        /\ UNCHANGED <<shared, cur, seen, conv, final, output, context, items, said, cut>>
    BY DEF DeleteResponse
  <1>2. /\ stage' \in [Turns -> Stages] /\ stage'[t] = "deleteContext"
        /\ \A u \in Turns \ {t} : stage'[u] = stage[u]
    BY <1>1, StageMoves DEF Stages, Midway
  <1>3. Typed
    BY DEF TurnsInv
  <1>4. /\ resp' \in [Turns -> {"none", "queued", "completed", "failed", "deleted"}]
        /\ resp'[t] = "deleted" /\ \A u \in Turns \ {t} : resp'[u] = resp[u]
    BY <1>1, <1>3 DEF Typed
  <1>5. Typed'
    BY <1>1, <1>2, <1>3, <1>4 DEF Typed
  <1>6. Apart(t)
    BY <1>1, <1>2, <1>4 DEF Apart
  <1>7. Sent(t) /\ Sent(t)' /\ Produced(t) /\ Produced(t)'
    BY <1>1, <1>2 DEF Sent, Produced
  <1>8. Stored(t)'
    <2>1. items[t] # <<>> => items[t] = ItemsOf(conv[t])
      BY DEF TurnsInv, Stored
    <2> QED  BY <1>1, <1>2, <1>7, <2>1, StoredStays
  <1>9. ~shared => \A u \in Turns \ {t} : stage[u] \notin Midway
    BY <1>1, GoesAlone
  <1> QED  BY <1>1, <1>2, <1>4, <1>5, <1>6, <1>7, <1>8, <1>9, TurnsGoOn

\* Its context and items are deleted.
LEMMA DeleteContextStep ==
  ASSUME TurnsInv, NEW t \in Turns, DeleteContext(t)
  PROVE  TurnsInv'
  <1>1. /\ stage[t] = "deleteContext" /\ Move(t, "deleted")
        /\ context' = [context EXCEPT ![t] = <<>>] /\ items' = [items EXCEPT ![t] = <<>>]
        /\ UNCHANGED <<shared, cur, seen, conv, final, output, resp, said, cut>>
    BY DEF DeleteContext, NoContext
  <1>2. /\ stage' \in [Turns -> Stages] /\ stage'[t] = "deleted"
        /\ \A u \in Turns \ {t} : stage'[u] = stage[u]
    BY <1>1, StageMoves DEF Stages
  <1>3. Typed /\ Placed(t) /\ Stored(t)
    BY DEF TurnsInv
  <1>4. /\ context' \in [Turns -> Seq(Spoken)] /\ context'[t] = <<>>
        /\ \A u \in Turns \ {t} : context'[u] = context[u]
    <2>0. PICK none : none = <<>>
      OBVIOUS
    <2>1. none = <<>> /\ none \in Seq(Spoken)
      BY <2>0
    <2>2. context' = [context EXCEPT ![t] = none] /\ context \in [Turns -> Seq(Spoken)]
      BY <1>1, <1>3, <2>1 DEF Typed
    <2> QED  BY <2>1, <2>2
  <1>5. /\ items' = [u \in Turns |-> items'[u]] /\ items'[t] = <<>>
        /\ \A u \in Turns \ {t} : items'[u] = items[u]
    BY <1>1, <1>3 DEF Typed
  <1>6. Typed'
    BY <1>1, <1>2, <1>3, <1>4, <1>5 DEF Typed
  <1>7. Apart(t)
    BY <1>1, <1>2, <1>4, <1>5 DEF Apart
  <1>8. Sent(t) /\ Sent(t)' /\ Produced(t) /\ Produced(t)'
    BY <1>1, <1>2 DEF Sent, Produced
  <1>9. Stored(t)'
    BY <1>1, <1>2, <1>3, <1>4, <1>5, <1>8 DEF Stored
  <1>10. resp'[t] # "completed" /\ (resp'[t] = "queued" => cur[t].mode = "background")
    BY <1>1, <1>3 DEF Placed
  <1>11. stage[t] \in Midway
    BY <1>1 DEF Midway
  <1> QED  BY <1>1, <1>2, <1>6, <1>7, <1>8, <1>9, <1>10, <1>11, TurnsGoOn

\* An answer joins the conversation it ends.
LEMMA RespondStep ==
  ASSUME TurnsInv, NEW t \in Turns, Respond(t)
  PROVE  TurnsInv'
  <1>0. PICK a \in Answers :
          LET o == OutputOf(t, a)
              d == IF cur[t].mode = "stream" /\ a # "toolThenText" THEN HistoryOf(t, o) ELSE AddedBy(t, a) IN
          /\ output' = [output EXCEPT ![t] = o]
          /\ final' = [final EXCEPT ![t] = ToStore(t, d)]
          /\ said' = [said EXCEPT ![t] = said[t] \o d]
    BY DEF Respond
  <1>18. PICK made, added :
          /\ made = OutputOf(t, a)
          /\ added = IF cur[t].mode = "stream" /\ a # "toolThenText" THEN HistoryOf(t, made) ELSE AddedBy(t, a)
    OBVIOUS
  <1>1. /\ made = OutputOf(t, a)
        /\ added = IF cur[t].mode = "stream" /\ a # "toolThenText" THEN HistoryOf(t, made) ELSE AddedBy(t, a)
        /\ output' = [output EXCEPT ![t] = made]
        /\ final' = [final EXCEPT ![t] = ToStore(t, added)]
        /\ said' = [said EXCEPT ![t] = said[t] \o added]
    BY <1>0, <1>18
  <1>2. /\ stage[t] = "generate" /\ Move(t, "storeResponse")
        /\ UNCHANGED <<shared, cur, seen, conv, resp, context, items, cut>>
    BY DEF Respond, store
  <1>3. /\ stage' \in [Turns -> Stages] /\ stage'[t] = "storeResponse"
        /\ \A u \in Turns \ {t} : stage'[u] = stage[u]
    BY <1>2, StageMoves DEF Stages
  <1>4. Typed /\ Placed(t) /\ Stored(t) /\ Asked(t)
    BY DEF TurnsInv
  <1>5. /\ added \in Seq(Spoken) /\ added # <<>> /\ (\A m \in Range(added) : ~m.own)
        /\ Carries(added, Pending(made)) /\ Matched(added) /\ Resolved(added)
    <2>1. CASE cur[t].mode = "stream" /\ a # "toolThenText"
      <3>1. added = HistoryOf(t, OutputOf(t, a))
        BY <1>1, <2>1
      <3>2. /\ added \in Seq(Spoken) /\ added # <<>>
            /\ \A m \in Range(added) : ~m.own /\ m.role = "assistant"
            /\ Carries(added, Pending(OutputOf(t, a))) /\ Resolved(added)
        BY <2>1, <3>1, HistoryFits
      <3>3. Matched(added)
        <4>1. \A i \in 1..Len(added) : added[i] \in Range(added)
          BY <3>2, RangeParts
        <4>2. \A i \in 1..Len(added) : added[i].role = "assistant"
          BY <3>2, <4>1
        <4> QED  BY <4>2 DEF Matched
      <3> QED  BY <1>1, <3>2, <3>3
    <2>2. CASE ~(cur[t].mode = "stream" /\ a # "toolThenText")
      <3>1. added = AddedBy(t, a)
        BY <1>1, <2>2
      <3> QED  BY <1>1, <3>1, AddedFits
    <2> QED  BY <2>1, <2>2
  <1>6. PICK c, kept : c = conv[t] /\ kept = ForContinuation(c \o added)
    OBVIOUS
  <1>7. c \in Seq(Spoken) /\ ToStore(t, added) = kept
    BY <1>4, <1>6 DEF Typed, ToStore
  <1>8. /\ kept \in Seq(Spoken) /\ kept # <<>>
        /\ \A m \in Range(kept) : ~m.own
        /\ Carries(kept, Pending(made))
        /\ Matched(c) => Matched(kept)
        /\ Resolved(c) => Resolved(kept)
        /\ kept = ForContinuation(c) \o added
    <2>1. PICK calls : calls = Pending(made)
      OBVIOUS
    <2>2. /\ c \in Seq(Spoken) /\ added \in Seq(Spoken) /\ added # <<>>
          /\ (\A m \in Range(added) : ~m.own) /\ Carries(added, calls)
          /\ Matched(added) /\ Resolved(added)
      BY <1>5, <1>7, <2>1
    <2>3. LET k == ForContinuation(c \o added) IN
          /\ k \in Seq(Spoken) /\ k # <<>> /\ (\A m \in Range(k) : ~m.own) /\ Carries(k, calls)
          /\ (Matched(c) => Matched(k)) /\ (Resolved(c) => Resolved(k))
          /\ k = ForContinuation(c) \o added
      BY <2>2, KeptFits
    <2> QED  BY <1>6, <2>1, <2>3
  <1>9. /\ final' \in [Turns -> Seq(Spoken)] /\ final'[t] = kept
        /\ \A u \in Turns \ {t} : final'[u] = final[u]
    BY <1>1, <1>4, <1>7, <1>8 DEF Typed
  <1>10. /\ said' \in [Turns -> Seq(Spoken)] /\ said'[t] = said[t] \o added
         /\ \A u \in Turns \ {t} : said'[u] = said[u]
    <2>1. said \in [Turns -> Seq(Spoken)]
      BY <1>4 DEF Typed
    <2>2. said[t] \o added \in Seq(Spoken)
      BY <1>5, <2>1
    <2> QED  BY <1>1, <2>1, <2>2
  <1>11. /\ output' = [u \in Turns |-> output'[u]] /\ output'[t] = made
         /\ \A u \in Turns \ {t} : output'[u] = output[u]
    BY <1>1, <1>4 DEF Typed
  <1>12. Typed'
    BY <1>2, <1>3, <1>4, <1>9, <1>10, <1>11 DEF Typed
  <1>13. Apart(t)
    BY <1>2, <1>3, <1>9, <1>10, <1>11 DEF Apart
  <1>14. Sent(t) /\ Sent(t)' /\ ~Produced(t) /\ Produced(t)'
    BY <1>2, <1>3 DEF Sent, Produced
  <1>15. Kept(t, final[t])'
    <2>1. ~cut[t] => Matched(kept)
      BY <1>4, <1>6, <1>8, <1>14 DEF Asked
    <2>2. ~cut[t] /\ ~shared => Resolved(kept)
      BY <1>4, <1>6, <1>8, <1>14 DEF Asked
    <2>3. ~cut[t] /\ ~shared => kept = said'[t]
      <3>1. ~cut[t] /\ ~shared => ForContinuation(c) = said[t]
        BY <1>2, <1>4, <1>6 DEF Asked
      <3> QED  BY <1>8, <1>10, <3>1
    <2> QED  BY <1>2, <1>8, <1>9, <1>11, <2>1, <2>2, <2>3 DEF Kept
  <1>16. Stored(t)'
    <2>1. \E b \in Answers : output'[t] = OutputOf(t, b)
      BY <1>1, <1>11
    <2>2. context'[t] = <<>>
      BY <1>2, <1>4 DEF Stored
    <2> QED  BY <1>2, <1>3, <1>4, <1>14, <1>15, <2>1, <2>2 DEF Stored
  <1>17. resp'[t] # "completed" /\ (resp'[t] = "queued" => cur[t].mode = "background")
    BY <1>2, <1>4 DEF Placed
  <1> QED  BY <1>2, <1>3, <1>12, <1>13, <1>14, <1>16, <1>17, TurnsGoOn DEF Midway

\* A turn whose conversation is made keeps the invariant: what is known of the
\* conversation it continues, or of the output it read instead, is known of its own.
LEMMA ConverseStep ==
  ASSUME TurnsInv, NEW t \in Turns, stage[t] \in {"previous", "context"},
         NEW h \in Seq(Spoken), NEW made, Converse(t, h, made), Pending(made) \in CallSets,
         \A m \in Range(h) : ~m.own, Carries(h, Pending(made)),
         cur[t].prev = 0 \/ ~cut[cur[t].prev] =>
           /\ Matched(h)
           /\ ~shared => Resolved(h) /\ h = IF cur[t].prev = 0 THEN <<>> ELSE said[cur[t].prev],
         UNCHANGED <<shared, cur, final, output, resp, context, items>>,
         seen' = [u \in Turns |-> seen'[u]], \A u \in Turns \ {t} : seen'[u] = seen[u]
  PROVE  TurnsInv'
  <1>1. Typed /\ Placed(t) /\ Stored(t)
    BY DEF TurnsInv
  <1>2. PICK p, b, auto : p = cur[t].prev /\ b = cur[t].instructions /\ auto = cur[t].auto
    OBVIOUS
  <1>24. PICK input \in Inputs(t, made) :
          LET m == h \o (IF b THEN <<Instructions(t)>> ELSE <<>>) \o input
              k == IF auto THEN Truncate(m) ELSE m IN
          /\ conv' = [conv EXCEPT ![t] = k]
          /\ cut' = [cut EXCEPT ![t] = Len(k) < Len(m) \/ (p # 0 /\ cut[p])]
          /\ said' = [said EXCEPT ![t] = (IF p = 0 THEN <<>> ELSE said[p]) \o input]
          /\ Move(t, CASE Size(k) > MaxLen -> "refused"
                       [] cur[t].mode = "background" -> "enqueue"
                       [] OTHER -> "generate")
    BY <1>2, Zenon DEF Converse
  <1>25. PICK instr, msgs, kept :
          /\ instr = IF b THEN <<Instructions(t)>> ELSE <<>>
          /\ msgs = h \o instr \o input
          /\ kept = IF auto THEN Truncate(msgs) ELSE msgs
    OBVIOUS
  <1>26. PICK to : to = CASE Size(kept) > MaxLen -> "refused"
                          [] cur[t].mode = "background" -> "enqueue"
                          [] OTHER -> "generate"
    OBVIOUS
  <1>3. /\ instr = IF b THEN <<Instructions(t)>> ELSE <<>>
        /\ msgs = h \o instr \o input
        /\ kept = IF auto THEN Truncate(msgs) ELSE msgs
        /\ conv' = [conv EXCEPT ![t] = kept]
        /\ cut' = [cut EXCEPT ![t] = Len(kept) < Len(msgs) \/ (p # 0 /\ cut[p])]
        /\ said' = [said EXCEPT ![t] = (IF p = 0 THEN <<>> ELSE said[p]) \o input]
        /\ Move(t, to)
    BY <1>24, <1>25, <1>26, Zenon
  <1>4. b \in BOOLEAN /\ auto \in BOOLEAN
    BY <1>1, <1>2 DEF Typed
  <1>5. /\ msgs \in Seq(Spoken) /\ Once(msgs)
        /\ \A m \in Range(msgs) : m.own => m.turn = t
        /\ Matched(h) => Matched(msgs)
        /\ Resolved(h) => Resolved(msgs)
        /\ ForContinuation(msgs) = h \o input
        /\ b => Instructions(t) \in Range(msgs)
    <2>1. msgs = h \o instr \o input /\ (instr = <<>> \/ instr = <<Instructions(t)>>)
      BY <1>3
    <2>2. b => instr = <<Instructions(t)>>
      BY <1>3
    <2>3. <<Instructions(t)>> # <<>>
      OBVIOUS
    <2>4. /\ h \in Seq(Spoken) /\ input \in Inputs(t, made) /\ Pending(made) \in CallSets
          /\ (\A m \in Range(h) : ~m.own) /\ Carries(h, Pending(made))
      OBVIOUS
    <2>5. Continues(t, h, instr, input, msgs)
      BY <2>1, <2>4, ConversationFits
    <2> QED  BY <2>2, <2>3, <2>5 DEF Continues
  <1>6. input \in Seq(Spoken)
    BY InputsFit
  <1>7. /\ kept \in Seq(Spoken) /\ Once(kept) /\ Range(kept) \subseteq Range(msgs)
        /\ \A m \in Range(msgs) : IsSystem(m) => m \in Range(kept)
        /\ Len(kept) < Len(msgs) \/ kept = msgs
        /\ auto /\ Room > 0 => Size(kept) <= Room \/ \A m \in Range(kept) : IsSystem(m)
        /\ auto /\ Room > 0 /\ Len(kept) < Len(msgs) => Size(kept) >= Room
    <2>1. CASE auto
      <3>1. kept = Truncate(msgs)
        BY <1>3, <2>1
      <3> QED  BY <1>5, <3>1, TruncateFits
    <2>2. CASE ~auto
      <3>1. kept = msgs
        BY <1>3, <2>2
      <3> QED  BY <1>5, <2>2, <3>1
    <2> QED  BY <2>1, <2>2
  <1>8. to \in {"refused", "enqueue", "generate"} /\ (to = "enqueue" => cur[t].mode = "background")
    BY <1>26
  <1>9. /\ stage' \in [Turns -> Stages] /\ stage'[t] = to
        /\ \A u \in Turns \ {t} : stage'[u] = stage[u]
    <2>1. to \in Stages
      BY <1>8 DEF Stages
    <2> QED  BY <1>3, <2>1, StageMoves
  <1>10. /\ conv' \in [Turns -> Seq(Spoken)] /\ conv'[t] = kept
         /\ \A u \in Turns \ {t} : conv'[u] = conv[u]
    <2>1. conv \in [Turns -> Seq(Spoken)]
      BY <1>1 DEF Typed
    <2> QED  BY <1>3, <1>7, <2>1
  <1>11. /\ cut' \in [Turns -> BOOLEAN]
         /\ cut'[t] <=> Len(kept) < Len(msgs) \/ (p # 0 /\ cut[p])
         /\ \A u \in Turns \ {t} : cut'[u] = cut[u]
    <2>1. PICK q \in BOOLEAN : q <=> Len(kept) < Len(msgs) \/ (p # 0 /\ cut[p])
      OBVIOUS
    <2>2. cut' = [cut EXCEPT ![t] = Len(kept) < Len(msgs) \/ (p # 0 /\ cut[p])]
      BY <1>3
    <2>3. cut \in [Turns -> BOOLEAN]
      BY <1>1 DEF Typed
    <2> QED  BY <2>2, <2>3
  <1>12. p # 0 => p \in Turns /\ p # t /\ Sent(p)
    BY <1>2, PrevFits
  <1>13. /\ said' \in [Turns -> Seq(Spoken)]
         /\ said'[t] = (IF p = 0 THEN <<>> ELSE said[p]) \o input
         /\ \A u \in Turns \ {t} : said'[u] = said[u]
    <2>1. said \in [Turns -> Seq(Spoken)]
      BY <1>1 DEF Typed
    <2>2. PICK s : s = IF p = 0 THEN <<>> ELSE said[p]
      OBVIOUS
    <2>3. s \in Seq(Spoken)
      <3>1. CASE p = 0
        <4>1. s = <<>>
          BY <2>2, <3>1
        <4> QED  BY <4>1
      <3>2. CASE p # 0
        BY <1>12, <2>1, <2>2, <3>2
      <3> QED  BY <3>1, <3>2
    <2>4. s \o input \in Seq(Spoken) /\ said' = [said EXCEPT ![t] = s \o input]
      BY <1>3, <1>6, <2>2, <2>3
    <2> QED  BY <2>1, <2>2, <2>4
  <1>14. Typed'
    BY <1>1, <1>9, <1>10, <1>11, <1>13 DEF Typed
  <1>15. Apart(t)
    BY <1>9, <1>10, <1>11, <1>13 DEF Apart
  <1>16. ~Sent(t) /\ ~Produced(t) /\ ~Produced(t)' /\ stage'[t] \notin Midway /\ stage[t] # "done"
    BY <1>8, <1>9 DEF Sent, Produced, Midway
  <1>17. Goodwill(t)
    BY <1>16 DEF Goodwill
  <1>18. p # 0 => Sent(p)' /\ cut'[p] = cut[p]
    BY <1>9, <1>11, <1>12 DEF Sent
  <1>19. Placed(t)'
    BY <1>1, <1>2, <1>8, <1>9, <1>16, <1>18 DEF Placed
  <1>20. Lone(t)'
    BY <1>8, <1>9 DEF Lone
  <1>21. Stored(t)'
    BY <1>1, <1>8, <1>9, <1>16 DEF Stored
  <1>22. Asked(t)'
    <2>1. \A m \in Range(kept) : m.own => m.turn = t
      BY <1>5, <1>7
    <2>2. ASSUME ~cut'[t]
          PROVE  /\ kept = msgs /\ Matched(kept)
                 /\ ~shared => Resolved(kept) /\ ForContinuation(kept) = said'[t]
      <3>1. kept = msgs /\ (p = 0 \/ ~cut[p])
        BY <1>7, <1>11, <2>2
      <3>2. Matched(h) /\ (~shared => Resolved(h) /\ h = IF p = 0 THEN <<>> ELSE said[p])
        BY <1>2, <3>1
      <3> QED  BY <1>5, <1>13, <3>1, <3>2
    <2> QED  BY <1>7, <1>10, <2>1, <2>2 DEF Asked
  <1>23. Least(t)'
    <2>1. b => Instructions(t) \in Range(kept)
      <3>1. IsSystem(Instructions(t))
        BY DEF IsSystem, Instructions, Msg
      <3> QED  BY <1>5, <1>7, <3>1
    <2>2. cut'[t] /\ (p = 0 \/ ~cut'[p]) => Len(kept) < Len(msgs)
      BY <1>11, <1>18
    <2>3. cur'[t].auto = auto /\ cur'[t].instructions = b /\ cur'[t].prev = p
      BY <1>2
    <2> QED  BY <1>7, <1>10, <2>1, <2>2, <2>3 DEF Least
  <1> QED  BY <1>14, <1>15, <1>17, <1>19, <1>20, <1>21, <1>22, <1>23, TurnsKeep

\* Nothing was said before the first turn.
LEMMA NothingFits ==
  ASSUME NEW none, none = <<>>
  PROVE  /\ none \in Seq(Spoken) /\ Range(none) = {} /\ Matched(none) /\ Resolved(none)
         /\ Pending(none) = {} /\ Pending(none) \in CallSets /\ Carries(none, Pending(none))
  <1>1. none \in Seq(Spoken) /\ Len(none) = 0
    OBVIOUS
  <1>2. Range(none) = {}
    BY <1>1, RangeParts
  <1>3. Matched(none)
    BY <1>1 DEF Matched
  <1>4. Resolved(none)
    BY <1>2 DEF Resolved
  <1>5. Pending(none) = {}
    BY <1>2 DEF Pending
  <1>6. {} \in CallSets
    BY DEF CallSets
  <1> QED  BY <1>1, <1>2, <1>3, <1>4, <1>5, <1>6 DEF Carries

\* A turn reads the response it continues, or converses without one.
LEMMA ReadPreviousStep ==
  ASSUME TurnsInv, NEW t \in Turns, ReadPrevious(t)
  PROVE  TurnsInv'
  <1>1. PICK p : p = cur[t].prev
    OBVIOUS
  <1>2. /\ stage[t] = "previous" /\ Goes(t)
        /\ UNCHANGED <<shared, cur, final, output, resp, context, items>>
    BY DEF ReadPrevious, store
  <1>3. Typed /\ Placed(t) /\ Stored(t) /\ Asked(t)
    BY DEF TurnsInv
  <1>4. ~Sent(t) /\ ~Produced(t)
    BY <1>2 DEF Sent, Produced
  <1>5. CASE p = 0
    <2>1. Converse(t, <<>>, <<>>) /\ UNCHANGED seen
      BY <1>1, <1>5 DEF ReadPrevious
    <2>2. PICK none : none = <<>>
      OBVIOUS
    <2>3. /\ none \in Seq(Spoken) /\ Range(none) = {} /\ Matched(none) /\ Resolved(none)
          /\ Pending(none) \in CallSets /\ Carries(none, Pending(none))
      BY <2>2, NothingFits
    <2>4. Converse(t, none, none)
      BY <2>1, <2>2
    <2>5. seen' = [u \in Turns |-> seen'[u]] /\ \A u \in Turns \ {t} : seen'[u] = seen[u]
      BY <1>3, <2>1 DEF Typed
    <2>6. /\ \A m \in Range(none) : ~m.own
          /\ cur[t].prev = 0 \/ ~cut[cur[t].prev] =>
               /\ Matched(none)
               /\ ~shared => Resolved(none) /\ none = IF cur[t].prev = 0 THEN <<>> ELSE said[cur[t].prev]
      BY <1>1, <1>5, <2>2, <2>3
    <2> QED  BY <1>2, <2>3, <2>4, <2>5, <2>6, ConverseStep
  <1>6. CASE p # 0 /\ resp[p] # "completed"
    <2>1. Move(t, "refused") /\ UNCHANGED <<seen, conv, said, cut>>
      BY <1>1, <1>6 DEF ReadPrevious
    <2>2. /\ stage' \in [Turns -> Stages] /\ stage'[t] = "refused"
          /\ \A u \in Turns \ {t} : stage'[u] = stage[u]
      BY <2>1, StageMoves DEF Stages
    <2>3. Typed'
      BY <1>2, <1>3, <2>1, <2>2 DEF Typed
    <2>4. Apart(t)
      BY <1>2, <2>1, <2>2 DEF Apart
    <2>5. ~Sent(t)' /\ ~Produced(t)'
      BY <2>2 DEF Sent, Produced
    <2>6. Goodwill(t)
      BY <1>2, <1>4, <2>2 DEF Goodwill, Midway
    <2>7. Placed(t)'
      <3>1. p # 0 => Sent(p)'
        <4>1. p # 0 => p \in Turns /\ p # t /\ Sent(p)
          BY <1>1, PrevFits
        <4> QED  BY <2>2, <4>1 DEF Sent
      <3> QED  BY <1>1, <1>2, <1>3, <1>4, <2>2, <3>1 DEF Placed
    <2>8. Lone(t)'
      BY <2>2 DEF Lone
    <2>9. Stored(t)'
      BY <1>2, <1>3, <1>4, <2>1, <2>2, <2>5 DEF Stored
    <2>10. Asked(t)'
      BY <1>3, <2>1, <2>2, <2>5 DEF Asked
    <2>11. Least(t)'
      BY <2>5 DEF Least
    <2> QED  BY <2>3, <2>4, <2>6, <2>7, <2>8, <2>9, <2>10, <2>11, TurnsKeep
  <1>7. CASE p # 0 /\ resp[p] = "completed"
    <2>1. /\ seen' = [seen EXCEPT ![t] = output[p]] /\ Move(t, "context")
          /\ UNCHANGED <<conv, said, cut>>
      BY <1>1, <1>7 DEF ReadPrevious
    <2>2. /\ stage' \in [Turns -> Stages] /\ stage'[t] = "context"
          /\ \A u \in Turns \ {t} : stage'[u] = stage[u]
      BY <2>1, StageMoves DEF Stages, Midway
    <2>3. /\ seen' = [u \in Turns |-> seen'[u]] /\ seen'[t] = output[p]
          /\ \A u \in Turns \ {t} : seen'[u] = seen[u]
      BY <1>3, <2>1 DEF Typed
    <2>4. Typed'
      BY <1>2, <1>3, <2>1, <2>2, <2>3 DEF Typed
    <2>5. Apart(t)
      BY <1>2, <2>1, <2>2, <2>3 DEF Apart
    <2>6. ~Sent(t)' /\ ~Produced(t)'
      BY <2>2 DEF Sent, Produced
    <2>7. ~shared => \A u \in Turns \ {t} : stage[u] \notin Midway
      BY <1>2, GoesAlone
    <2>8. Goodwill(t)
      BY <1>4, <2>7 DEF Goodwill
    <2>9. /\ p \in Turns /\ p # t /\ Sent(p)
          /\ stage[p] \in {"storeContext", "storeItems", "done", "dead"}
      <3>1. p \in Turns /\ p # t /\ Sent(p)
        BY <1>1, <1>7, PrevFits
      <3>2. Placed(p)
        BY <3>1 DEF TurnsInv
      <3> QED  BY <1>7, <3>1, <3>2 DEF Placed
    <2>10. stage'[p] = stage[p] /\ Sent(p)' /\ Produced(p)'
      BY <2>2, <2>9 DEF Sent, Produced
    <2>11. Placed(t)'
      BY <1>1, <1>2, <1>3, <1>4, <1>7, <2>2, <2>3, <2>10 DEF Placed
    <2>12. Lone(t)'
      <3>1. ~shared => stage[p] = "done"
        <4>1. Lone(p)
          BY <2>9 DEF TurnsInv
        <4> QED  BY <2>7, <2>9, <4>1 DEF Lone, Midway
      <3> QED  BY <1>1, <1>2, <2>2, <2>10, <3>1 DEF Lone
    <2>13. Stored(t)'
      BY <1>2, <1>3, <1>4, <2>1, <2>2, <2>6 DEF Stored
    <2>14. Asked(t)'
      BY <1>3, <2>1, <2>2, <2>6 DEF Asked
    <2>15. Least(t)'
      BY <2>6 DEF Least
    <2> QED  BY <2>4, <2>5, <2>8, <2>11, <2>12, <2>13, <2>14, <2>15, TurnsKeep
  <1> QED  BY <1>5, <1>6, <1>7

\* A turn reads the context it continues, or rebuilds it from the output.
LEMMA ReadContextStep ==
  ASSUME TurnsInv, NEW t \in Turns, ReadContext(t)
  PROVE  TurnsInv'
  <1>1. PICK p, made, h : p = cur[t].prev /\ made = seen[t]
                         /\ h = IF context[p] # <<>> THEN context[p] ELSE HistoryOf(p, made)
    OBVIOUS
  <1>2. /\ stage[t] = "context" /\ Converse(t, h, made) /\ seen' = [seen EXCEPT ![t] = <<>>]
        /\ UNCHANGED <<shared, cur, final, output, resp, context, items>>
    BY <1>1, Zenon DEF ReadContext, store, NoContext
  <1>3. Typed /\ Placed(t) /\ Lone(t)
    BY DEF TurnsInv
  <1>4. p # 0 /\ Produced(p) /\ made = output[p]
    BY <1>1, <1>2, <1>3 DEF Placed
  <1>5. p \in Turns /\ p # t
    BY <1>1, <1>4, PrevFits
  <1>6. Stored(p)
    BY <1>5 DEF TurnsInv
  <1>7. PICK a \in Answers : made = OutputOf(p, a)
    BY <1>4, <1>6 DEF Stored
  <1>8. Pending(made) \in CallSets
    BY <1>5, <1>7, PendingFits
  <1>9. /\ h \in Seq(Spoken) /\ (\A m \in Range(h) : ~m.own) /\ Carries(h, Pending(made))
        /\ ~cut[p] => Matched(h)
        /\ ~cut[p] /\ ~shared => Resolved(h) /\ h = said[p]
    <2>1. CASE context[p] # <<>>
      <3>1. h = context[p] /\ Kept(p, context[p])
        BY <1>1, <1>6, <2>1 DEF Stored
      <3>2. h \in Seq(Spoken)
        BY <1>3, <1>5, <3>1 DEF Typed
      <3> QED  BY <1>4, <3>1, <3>2 DEF Kept
    <2>2. CASE context[p] = <<>>
      <3>1. h = HistoryOf(p, OutputOf(p, a))
        BY <1>1, <1>7, <2>2
      <3>2. /\ h \in Seq(Spoken) /\ \A m \in Range(h) : ~m.own /\ m.role = "assistant"
            /\ Carries(h, Pending(OutputOf(p, a)))
        BY <1>5, <3>1, HistoryFits
      <3>3. Matched(h)
        <4>1. \A i \in 1..Len(h) : h[i] \in Range(h)
          BY <3>2, RangeParts
        <4>2. \A i \in 1..Len(h) : h[i].role = "assistant"
          BY <3>2, <4>1
        <4> QED  BY <4>2 DEF Matched
      <3>4. shared
        <4>1. ~shared => stage[p] = "done"
          BY <1>1, <1>2, <1>3 DEF Lone
        <4>2. Lone(p)
          BY <1>5 DEF TurnsInv
        <4> QED  BY <2>2, <4>1, <4>2 DEF Lone
      <3> QED  BY <1>7, <3>2, <3>3, <3>4
    <2> QED  BY <2>1, <2>2
  <1>10. seen' = [u \in Turns |-> seen'[u]] /\ \A u \in Turns \ {t} : seen'[u] = seen[u]
    BY <1>2, <1>3 DEF Typed
  <1>11. cur[t].prev = 0 \/ ~cut[cur[t].prev] =>
           /\ Matched(h)
           /\ ~shared => Resolved(h) /\ h = IF cur[t].prev = 0 THEN <<>> ELSE said[cur[t].prev]
    BY <1>1, <1>4, <1>9
  <1> QED  BY <1>2, <1>8, <1>9, <1>10, <1>11, ConverseStep

\* Every step keeps the invariant.
LEMMA TurnsNextKeeps ==
  ASSUME TurnsInv, [TurnsNext]_turnsVars
  PROVE  TurnsInv'
  <1>1. CASE UNCHANGED turnsVars
    <2>1. /\ shared' = shared /\ stage' = stage /\ cur' = cur /\ seen' = seen /\ conv' = conv
          /\ final' = final /\ output' = output /\ resp' = resp /\ context' = context
          /\ items' = items /\ said' = said /\ cut' = cut
      BY <1>1 DEF turnsVars
    <2>2. Typed' /\ OneMidway'
      BY <2>1 DEF TurnsInv, Typed, OneMidway
    <2>3. ASSUME NEW t \in Turns PROVE Placed(t)' /\ Lone(t)' /\ Stored(t)' /\ Asked(t)' /\ Least(t)'
      <3>1. Placed(t) /\ Lone(t) /\ Stored(t) /\ Asked(t) /\ Least(t)
        BY DEF TurnsInv
      <3>2. \A u : (Sent(u)' <=> Sent(u)) /\ (Produced(u)' <=> Produced(u))
        BY <2>1 DEF Sent, Produced
      <3>3. Placed(t)' /\ Lone(t)'
        BY <2>1, <3>1, <3>2 DEF Placed, Lone
      <3>4. Stored(t)'
        BY <2>1, <3>1, <3>2 DEF Stored, Kept
      <3>5. Asked(t)' /\ Least(t)'
        BY <2>1, <3>1, <3>2 DEF Asked, Least
      <3> QED  BY <3>3, <3>4, <3>5
    <2> QED  BY <2>2, <2>3 DEF TurnsInv
  <1>2. ASSUME NEW t \in Turns,
               \/ Ask(t) \/ ReadPrevious(t) \/ ReadContext(t) \/ Enqueue(t) \/ Respond(t)
               \/ RespondFails(t) \/ StoreResponse(t) \/ StoreContext(t) \/ StoreItems(t)
               \/ Crash(t) \/ DeleteResponse(t) \/ DeleteContext(t)
        PROVE  TurnsInv'
    BY <1>2, AskStep, ReadPreviousStep, ReadContextStep, EnqueueStep, RespondStep,
       RespondFailsStep, StoreResponseStep, StoreContextStep, StoreItemsStep, TurnCrashStep,
       DeleteResponseStep, DeleteContextStep
  <1> QED  BY <1>1, <1>2 DEF TurnsNext

\* The inductive invariant of the turns holds throughout.
LEMMA TurnsAlways == TurnsSpec => []TurnsInv
  <1>1. TurnsInit => TurnsInv
    BY TurnsBegin
  <1>2. TurnsInv /\ [TurnsNext]_turnsVars => TurnsInv'
    BY TurnsNextKeeps
  <1> QED  BY <1>1, <1>2, PTL DEF TurnsSpec

\* A turn is asked with everything said in the turns it continues, in order and once,
\* and with its own instructions only: of any number of turns, any kinds of request and
\* answer and any room, for one worker; the stored contexts hold no instructions for
\* several workers too.
THEOREM NothingSaidIsLost == TurnsSpec => []TurnsContinue
  <1>1. TurnsInv => TurnsContinue
    <2> SUFFICES ASSUME TurnsInv PROVE TurnsContinue
      OBVIOUS
    <2>1. Typed /\ \A t \in Turns : Placed(t) /\ Stored(t) /\ Asked(t)
      BY DEF TurnsInv
    <2>2. TurnsTypeOK
      <3> SUFFICES ASSUME NEW t \in Turns
                   PROVE  /\ stage[t] \in Stages
                          /\ cur[t].prev \in 0..t - 1 /\ cur[t].mode \in Modes
                          /\ resp[t] \in {"none", "queued", "completed", "failed", "deleted"}
                          /\ resp[t] = "queued" => cur[t].mode = "background"
        BY DEF TurnsTypeOK, Stages
      <3>1. cur[t] \in [prev : Nat, instructions : BOOLEAN, auto : BOOLEAN, mode : Modes]
        BY <2>1 DEF Typed
      <3>2. stage[t] \in Stages /\ resp[t] \in {"none", "queued", "completed", "failed", "deleted"}
        BY <2>1 DEF Typed
      <3> QED  BY <2>1, <3>1, <3>2 DEF Placed
    <2>3. NothingForgotten
      BY <2>1 DEF NothingForgotten, Asked
    <2>4. InstructionsOnce
      <3> SUFFICES ASSUME NEW t \in Turns
                   PROVE  /\ \A i, j \in DOMAIN conv[t] : conv[t][i].own /\ conv[t][j].own =>
                               i = j /\ conv[t][i].turn = t
                          /\ \A m \in Range(context[t]) : ~m.own
        BY DEF InstructionsOnce
      <3>1. PICK c, s : c = conv[t] /\ s = context[t]
        OBVIOUS
      <3>2. c \in Seq(Spoken) /\ s \in Seq(Spoken)
        BY <2>1, <3>1 DEF Typed
      <3>3. Once(c) /\ \A m \in Range(c) : m.own => m.turn = t
        BY <2>1, <3>1 DEF Asked
      <3>4. DOMAIN c = 1..Len(c) /\ \A i \in 1..Len(c) : c[i] \in Range(c)
        BY <3>2, LenProperties, RangeParts
      <3>5. \A m \in Range(s) : ~m.own
        <4>1. CASE s = <<>>
          BY <4>1, NothingFits
        <4>2. CASE s # <<>>
          BY <2>1, <3>1, <4>2 DEF Stored, Kept
        <4> QED  BY <4>1, <4>2
      <3> QED  BY <3>1, <3>3, <3>4, <3>5 DEF Once
    <2> QED  BY <2>2, <2>3, <2>4 DEF TurnsContinue
  <1> QED  BY <1>1, TurnsAlways, PTL

\* Every result the engine is sent stands behind the message that made its call, and
\* with one worker every call the server ran has its result, unless the conversation
\* was truncated; what a client lists of a response is that conversation.
THEOREM CallsGoWithResults == TurnsSpec => []CallsMatched
  <1>1. TurnsInv => CallsMatched
    <2> SUFFICES ASSUME TurnsInv PROVE CallsMatched
      OBVIOUS
    <2>1. Typed /\ \A t \in Turns : Stored(t) /\ Asked(t)
      BY DEF TurnsInv
    <2>2. ASSUME NEW t \in Turns
          PROVE  /\ conv[t] \in Seq(Spoken) /\ DOMAIN conv[t] = 1..Len(conv[t])
                 /\ Range(conv[t]) = {conv[t][i] : i \in 1..Len(conv[t])}
      <3>1. PICK c : c = conv[t]
        OBVIOUS
      <3>2. c \in Seq(Spoken)
        BY <2>1, <3>1 DEF Typed
      <3>3. DOMAIN c = 1..Len(c) /\ Range(c) = {c[i] : i \in 1..Len(c)}
        BY <3>2, LenProperties, RangeParts
      <3> QED  BY <3>1, <3>2, <3>3
    <2>3. ResultsFollowCalls
      BY <2>1, <2>2 DEF ResultsFollowCalls, Asked, Matched
    <2>4. ServerCallsAnswered
      <3> SUFFICES ASSUME ~shared, NEW t \in Turns, Sent(t), ~cut[t], NEW i \in DOMAIN conv[t],
                          conv[t][i].role = "assistant", NEW k \in conv[t][i].calls, k.mcp
                   PROVE  \E j \in DOMAIN conv[t] : conv[t][j].role = "tool" /\ conv[t][j].calls = {k}
        BY DEF ServerCallsAnswered
      <3>1. PICK c : c = conv[t] /\ i \in DOMAIN c /\ c[i].role = "assistant" /\ k \in c[i].calls
        OBVIOUS
      <3>2. DOMAIN c = 1..Len(c) /\ Range(c) = {c[n] : n \in 1..Len(c)}
        BY <2>2, <3>1
      <3>3. Resolved(c)
        BY <2>1, <3>1 DEF Asked
      <3>4. c[i] \in Range(c)
        BY <3>1, <3>2
      <3>5. PICK r \in Range(c) : r.role = "tool" /\ r.calls = {k}
        BY <3>1, <3>3, <3>4 DEF Resolved
      <3>6. PICK j \in 1..Len(c) : r = c[j]
        BY <3>2, <3>5
      <3> QED  BY <3>1, <3>2, <3>5, <3>6
    <2>5. ItemsTellConversation
      <3> SUFFICES ASSUME NEW t \in Turns, items[t] # <<>>
                   PROVE  /\ \A i, j \in DOMAIN items[t] : items[t][i].id = items[t][j].id => i = j
                          /\ UNION {x.calls : x \in Range(items[t])} = UNION {m.calls : m \in Range(conv[t])}
                          /\ {<<x.role, x.turn>> : x \in Range(items[t])}
                               = {<<m.role, m.turn>> : m \in Range(conv[t])}
        BY DEF ItemsTellConversation
      <3>1. PICK c, its : c = conv[t] /\ its = ItemsOf(c)
        OBVIOUS
      <3>2. c \in Seq(Spoken) /\ items[t] = its
        BY <2>1, <2>2, <3>1 DEF Stored
      <3>3. /\ \A i, j \in DOMAIN its : its[i].id = its[j].id => i = j
            /\ UNION {x.calls : x \in Range(its)} = UNION {m.calls : m \in Range(c)}
            /\ {<<x.role, x.turn>> : x \in Range(its)} = {<<m.role, m.turn>> : m \in Range(c)}
        BY <3>1, <3>2, ItemsFit
      <3> QED  BY <3>1, <3>2, <3>3
    <2> QED  BY <2>3, <2>4, <2>5 DEF CallsMatched
  <1> QED  BY <1>1, TurnsAlways, PTL

\* A truncated conversation fits the room or has nothing left to drop, keeps the
\* instructions, and lost no more than it had to.
THEOREM NoMoreIsDropped == TurnsSpec => []TruncationIsLeast
  <1>1. TurnsInv => TruncationIsLeast
    <2> SUFFICES ASSUME TurnsInv PROVE TruncationIsLeast
      OBVIOUS
    <2>1. \A t \in Turns : Least(t)
      BY DEF TurnsInv
    <2> QED  BY <2>1 DEF Least, TruncationIsLeast
  <1> QED  BY <1>1, TurnsAlways, PTL

=============================================================================
