------------------------- MODULE MessagePaneProofs -------------------------
(***************************************************************************)
(* Proofs about what a chat pane shows: the messages of a thread and the    *)
(* virtual list of them (ThreadHistory, MessageList), and the code fences   *)
(* in them (CodeHighlight).                                                 *)
(***************************************************************************)
EXTENDS MessageList, CodeHighlight, FiniteSetTheorems, SequenceTheorems, TLAPS

-----------------------------------------------------------------------------
(* Sequences                                                                *)

LEMMA DomainOfSeq ==
  ASSUME NEW S, NEW s \in Seq(S)
  PROVE  /\ Len(s) \in Nat
         /\ DOMAIN s = 1..Len(s)
         /\ \A m \in 1..Len(s) : s[m] \in S
BY LenProperties, ElementOfSeq

(* RemoveAt takes one element out and closes the gap. *)
LEMMA RemoveAtFacts ==
  ASSUME NEW S, NEW s \in Seq(S), NEW p \in DOMAIN s
  PROVE  /\ RemoveAt(s, p) \in Seq(S)
         /\ \A m \in DOMAIN RemoveAt(s, p) : \E n \in DOMAIN s : RemoveAt(s, p)[m] = s[n]
<1> DEFINE a == SubSeq(s, 1, p - 1)
           b == SubSeq(s, p + 1, Len(s))
<1>1. Len(s) \in Nat /\ p \in 1..Len(s) /\ DOMAIN s = 1..Len(s)
  BY DomainOfSeq
<1>2. \A m \in 1..Len(s) : s[m] \in S
  BY DomainOfSeq
<1>3. /\ a \in Seq(S)
      /\ Len(a) = p - 1
      /\ \A m \in 1..(p - 1) : a[m] = s[m]
  <2>1. /\ SubSeq(s, 1, p - 1) \in Seq(S)
        /\ Len(SubSeq(s, 1, p - 1)) = IF 1 <= p - 1 THEN (p - 1) - 1 + 1 ELSE 0
        /\ \A i \in 1..((p - 1) - 1 + 1) : SubSeq(s, 1, p - 1)[i] = s[1 + i - 1]
    BY <1>1, <1>2, SubSeqProperties
  <2> QED BY <2>1, <1>1
<1>4. /\ b \in Seq(S)
      /\ Len(b) = Len(s) - p
      /\ \A m \in 1..(Len(s) - p) : b[m] = s[m + p]
  <2>1. /\ SubSeq(s, p + 1, Len(s)) \in Seq(S)
        /\ Len(SubSeq(s, p + 1, Len(s)))
             = IF p + 1 <= Len(s) THEN Len(s) - (p + 1) + 1 ELSE 0
        /\ \A i \in 1..(Len(s) - (p + 1) + 1) :
             SubSeq(s, p + 1, Len(s))[i] = s[(p + 1) + i - 1]
    BY <1>1, <1>2, SubSeqProperties
  <2> QED BY SMTT(30), <2>1, <1>1
<1>5. RemoveAt(s, p) = a \o b
  BY DEF RemoveAt
<1> HIDE DEF a, b
<1>6. /\ a \o b \in Seq(S)
      /\ Len(a \o b) = Len(a) + Len(b)
      /\ \A i \in 1..(Len(a) + Len(b)) :
           (a \o b)[i] = IF i <= Len(a) THEN a[i] ELSE b[i - Len(a)]
  BY <1>3, <1>4, ConcatProperties
<1>7. DOMAIN (a \o b) = 1..(Len(s) - 1)
  <2>1. DOMAIN (a \o b) = 1..Len(a \o b)
    BY <1>6, DomainOfSeq
  <2>2. Len(a \o b) = Len(s) - 1
    BY <1>1, <1>3, <1>4, <1>6
  <2> QED BY <2>1, <2>2
<1>8. ASSUME NEW m \in 1..(Len(s) - 1)
      PROVE  \E n \in DOMAIN s : (a \o b)[m] = s[n]
  <2>1. CASE m <= p - 1
    BY SMTT(30), <2>1, <1>1, <1>3, <1>4, <1>6
  <2>2. CASE m > p - 1
    <3>1. (a \o b)[m] = b[m - (p - 1)]
      BY SMTT(30), <2>2, <1>1, <1>3, <1>4, <1>6
    <3>2. m - (p - 1) \in 1..(Len(s) - p)
      BY <2>2, <1>1
    <3>3. b[m - (p - 1)] = s[(m - (p - 1)) + p]
      BY <3>2, <1>4
    <3>4. m + 1 \in DOMAIN s /\ (m - (p - 1)) + p = m + 1
      BY <1>1
    <3> QED BY <3>1, <3>3, <3>4
  <2>3. m <= p - 1 \/ m > p - 1
    BY <1>1
  <2> QED BY <2>1, <2>2, <2>3
<1> QED BY <1>5, <1>6, <1>7, <1>8

(* What a subsequence holds: one element per position, no position twice.   *)
LEMMA SubsequenceFacts ==
  ASSUME NEW S, NEW s \in Seq(S), NEW K \in SUBSET (DOMAIN s)
  PROVE  /\ Cardinality(K) \in Nat
         /\ Subsequence(s, K) \in Seq(S)
         /\ Len(Subsequence(s, K)) = Cardinality(K)
         /\ \A k \in 1..Cardinality(K) : \E i \in K :
              /\ Rank(i, K) = k
              /\ Subsequence(s, K)[k] = s[i]
<1> DEFINE at(k) == CHOOSE i \in K : Rank(i, K) = k
           f == [i \in K |-> Rank(i, K)]
<1>1. Len(s) \in Nat /\ DOMAIN s = 1..Len(s) /\ \A m \in 1..Len(s) : s[m] \in S
  BY DomainOfSeq
<1>2. IsFiniteSet(K) /\ Cardinality(K) \in Nat
  <2>1. IsFiniteSet(1..Len(s))
    BY <1>1, FS_Interval
  <2>2. IsFiniteSet(K)
    BY <2>1, <1>1, FS_Subset
  <2> QED BY <2>2, FS_CardinalityType
<1>3. ASSUME NEW i \in K
      PROVE  Rank(i, K) \in 1..Cardinality(K)
  <2>1. {j \in K : j <= i} \in SUBSET K
    OBVIOUS
  <2>2. /\ IsFiniteSet({j \in K : j <= i})
        /\ Rank(i, K) <= Cardinality(K)
    BY <2>1, <1>2, FS_Subset DEF Rank
  <2>3. Rank(i, K) \in Nat
    BY <2>2, FS_CardinalityType DEF Rank
  <2>4. i \in {j \in K : j <= i}
    BY <1>1
  <2>5. Rank(i, K) # 0
    BY <2>2, <2>4, FS_EmptySet DEF Rank
  <2> QED BY <2>2, <2>3, <2>5, <1>2
<1>4. ASSUME NEW i \in K, NEW j \in K, i < j
      PROVE  Rank(i, K) # Rank(j, K)
  <2>1. {n \in K : n <= i} \in SUBSET {n \in K : n <= j}
    BY <1>1, <1>4
  <2>2. IsFiniteSet({n \in K : n <= j})
    BY <1>2, FS_Subset
  <2>3. j \notin {n \in K : n <= i} /\ j \in {n \in K : n <= j}
    BY <1>1, <1>4
  <2> QED BY <2>1, <2>2, <2>3, FS_Subset DEF Rank
<1>5. f \in Injection(K, 1..Cardinality(K))
  <2>1. \A i, j \in K : i # j => Rank(i, K) # Rank(j, K)
    <3>1. \A i, j \in K : i # j => i < j \/ j < i
      BY <1>1
    <3> QED BY <3>1, <1>4
  <2>2. f \in [K -> 1..Cardinality(K)]
    BY <1>3
  <2>3. \A i, j \in K : f[i] = f[j] => i = j
    BY <2>1
  <2> HIDE DEF f
  <2> QED BY <2>2, <2>3 DEF Injection, IsInjective
<1>6. f \in Surjection(K, 1..Cardinality(K))
  <2>1. IsFiniteSet(1..Cardinality(K)) /\ Cardinality(1..Cardinality(K)) = Cardinality(K)
    BY <1>2, FS_Interval
  <2> HIDE DEF f
  <2> QED BY <2>1, <1>5, FS_Injection
<1>7. ASSUME NEW k \in 1..Cardinality(K)
      PROVE  \E i \in K : Rank(i, K) = k
  BY <1>6 DEF Surjection
<1>8. ASSUME NEW k \in 1..Cardinality(K)
      PROVE  at(k) \in K /\ Rank(at(k), K) = k
  BY <1>7
<1>9. Subsequence(s, K) = [k \in 1..Cardinality(K) |-> s[at(k)]]
  BY DEF Subsequence
<1> HIDE DEF at
<1>10. \A k \in 1..Cardinality(K) : s[at(k)] \in S
  BY <1>1, <1>8
<1>11. Subsequence(s, K) \in Seq(S) /\ Len(Subsequence(s, K)) = Cardinality(K)
  BY <1>2, <1>9, <1>10, IsASeq, LenProperties
<1>12. \A k \in 1..Cardinality(K) : \E i \in K : Rank(i, K) = k /\ Subsequence(s, K)[k] = s[i]
  BY <1>8, <1>9
<1> QED BY <1>2, <1>11, <1>12

(* The subsequence of the positions above d is what is left without the     *)
(* first d elements.                                                        *)
LEMMA SubsequenceSuffix ==
  ASSUME NEW S, NEW s \in Seq(S), NEW d \in 0..Len(s)
  PROVE  /\ Len(Subsequence(s, (d + 1)..Len(s))) = Len(s) - d
         /\ \A k \in 1..(Len(s) - d) : Subsequence(s, (d + 1)..Len(s))[k] = s[d + k]
<1> DEFINE K == (d + 1)..Len(s)
<1>1. Len(s) \in Nat /\ DOMAIN s = 1..Len(s) /\ d \in Nat
  BY DomainOfSeq
<1>2. K \in SUBSET (DOMAIN s)
  BY <1>1
<1>3. Cardinality(K) = Len(s) - d
  <2>1. Cardinality((d + 1)..Len(s))
          = IF d + 1 > Len(s) THEN 0 ELSE Len(s) - (d + 1) + 1
    <3>1. d + 1 \in Int /\ Len(s) \in Int
      BY <1>1
    <3> QED BY <3>1, FS_Interval
  <2> QED BY <2>1, <1>1
<1>4. ASSUME NEW i \in K
      PROVE  Rank(i, K) = i - d
  <2>1. {j \in K : j <= i} = (d + 1)..i
    BY <1>1
  <2>2. Cardinality((d + 1)..i) = i - d
    BY <1>1, FS_Interval
  <2> QED BY <2>1, <2>2 DEF Rank
<1> HIDE DEF K
<1>5. /\ Len(Subsequence(s, K)) = Cardinality(K)
      /\ \A k \in 1..Cardinality(K) : \E i \in K :
           /\ Rank(i, K) = k
           /\ Subsequence(s, K)[k] = s[i]
  BY <1>2, SubsequenceFacts
<1>6. ASSUME NEW k \in 1..(Len(s) - d)
      PROVE  Subsequence(s, K)[k] = s[d + k]
  <2>1. PICK i \in K : i - d = k /\ Subsequence(s, K)[k] = s[i]
    BY <1>3, <1>4, <1>5
  <2>2. i = d + k
    BY <2>1, <1>1, <1>2
  <2> QED BY <2>1, <2>2
<1> QED BY <1>3, <1>5, <1>6 DEF K

-----------------------------------------------------------------------------
(* The messages of a thread: the inductive invariant                        *)

Items == 1..(2 * MaxTurns)

StoredMessages == [item : Items, text : Nat \ {0}]

Messages == [item : Items, id : {"history", "live"}, text : Nat \ {0}]

Pages == [kind : {"first", "more"}, at : {"asked", "answered"}, cursor : Nat,
          data : Seq(Messages), next : Nat]

TypeOK ==
  /\ store \in Seq(StoredMessages)
  /\ turns \in 0..MaxTurns
  /\ turn \in 0..MaxTurns
  /\ spoken \in 0..Chunks
  /\ posts \in SUBSET (1..MaxTurns)
  /\ asking \in 0..MaxTurns
  /\ stream \in Seq(Items)
  /\ list \in Seq(Messages)
  /\ idOf \in [Items -> {"none", "history", "live"}]
  /\ cursor \in Nat
  /\ loaded \in BOOLEAN
  /\ loadingMore \in {"none", "this", "other"}
  /\ elsewhere \in [loading : Nat, over : Nat]
  /\ pages \in Seq(Pages)
  /\ asked \in Nat
  /\ crossed \in BOOLEAN
  /\ overtaken \in BOOLEAN

IsStored(n) == \E k \in DOMAIN store : store[k].item = n

(* codex stores a message once, and neither stores nor speaks of a turn     *)
(* that it has yet to start; only answers are spoken.                       *)
TurnInv ==
  /\ turn <= turns
  /\ turn = 0 => spoken = 0
  /\ \A k, n \in DOMAIN store : store[k].item = store[n].item => k = n
  /\ \A k \in DOMAIN store : store[k].item <= 2 * turns
  /\ turn # 0 => ~IsStored(Answer(turn))
  /\ turn \notin posts
  /\ asking # 0 => asking \in posts
  /\ \A j \in posts : j <= turns /\ ~IsStored(Question(j)) /\ ~IsStored(Answer(j))
  /\ \A i \in DOMAIN stream : ~IsUser(stream[i]) /\ stream[i] <= 2 * turns
  /\ \A j \in posts, i \in DOMAIN stream : stream[i] # Answer(j)

(* A cursor lies before the last stored message; a page that was answered   *)
(* ends where it was asked to.                                              *)
Cursor(c) == c = 0 \/ c < Len(store)

Answered(P) ==
  /\ \A m \in DOMAIN P.data :
       P.data[m] = Message(store[P.next + m].item, "history", store[P.next + m].text)
  /\ P.next + Len(P.data) <= Len(store)
  /\ Cursor(P.next)
  /\ P.kind = "more" => P.next + Len(P.data) = P.cursor
  /\ P.data = <<>> => P.next = 0

PageOK(P) ==
  /\ Cursor(P.cursor)
  /\ P.kind = "more" => loaded /\ P.cursor # 0
  /\ P.at = "answered" => Answered(P)

PageInv ==
  /\ Cursor(cursor)
  /\ cursor # 0 => loaded
  /\ \A p \in DOMAIN pages : PageOK(pages[p])

(* A message no older page can still bring.                                 *)
Ahead(n) ==
  /\ n \notin Before(cursor)
  /\ \A p \in DOMAIN pages : pages[p].kind = "more" => n \notin Before(pages[p].cursor)

(* An answer in the list is found by its id; and no message is there twice, *)
(* because a live one, and one that will be, is ahead of every page that is *)
(* still to come.                                                           *)
OnceInv ==
  /\ \A m, n \in DOMAIN list : list[m].item = list[n].item => m = n
  /\ \A m \in DOMAIN list : list[m].id = "live" => Ahead(list[m].item)
  /\ \A i \in DOMAIN stream : idOf[stream[i]] = "none" => Ahead(stream[i])

ListInv ==
  /\ ~loaded => ~overtaken
  /\ \A m \in DOMAIN list :
       /\ list[m].item <= 2 * turns
       /\ ~IsUser(list[m].item) => idOf[list[m].item] # "none"
  /\ \A n \in Items : idOf[n] # "none" => n <= 2 * turns /\ \A j \in posts : n # Answer(j)
  /\ ~overtaken => OnceInv

(* The messages there are, by position: those that are stored, and one more *)
(* while a turn runs or is asked for.  At is where the answer is of which    *)
(* the stream may hold more.                                                *)
ItemAt(k) == IF k <= Len(store) THEN store[k].item
             ELSE IF turn # 0 THEN Answer(turn) ELSE Question(asking)
TextAt(k) == IF k <= Len(store) THEN store[k].text ELSE 1

InTurn == turn # 0 \/ stream # <<>>
At == IF turn # 0 THEN Len(store) + 1 ELSE Len(store)
Current == IF turn # 0 THEN Answer(turn) ELSE store[Len(store)].item
Said == IF turn # 0 THEN spoken ELSE store[Len(store)].text

Newest == IF asking # 0 THEN Len(store) + 1
          ELSE IF InTurn THEN (IF idOf[Current] # "none" THEN At ELSE At - 1)
          ELSE Len(store)

(* A row of the list at position k: complete but for the deltas of the       *)
(* answer at At that are on their way.                                      *)
RowOK(R, k) ==
  /\ R.item = ItemAt(k)
  /\ InTurn /\ k = At => R.text + Len(stream) = Said /\ R.id = idOf[Current]
  /\ ~(InTurn /\ k = At) => R.text = TextAt(k)
  /\ R.id = "live" => \A p \in DOMAIN pages :
       pages[p].kind = "more" => pages[p].cursor < k

(* What the list shows: everything from the cursor to the newest message.   *)
ShownOK ==
  /\ asking # 0 => ~InTurn
  /\ stream # <<>> => At # 0
  /\ \A i \in DOMAIN stream : stream[i] = Current
  /\ cursor + Len(list) = Newest
  /\ \A m \in DOMAIN list : RowOK(list[m], cursor + m)
  /\ InTurn /\ idOf[Current] = "none" => Len(stream) = Said

ShownInv == loaded /\ ~crossed => ShownOK

HistoryInv == TypeOK /\ TurnInv /\ PageInv /\ ListInv /\ ShownInv

LEMMA Constants ==
  /\ PageSize \in Nat \ {0}
  /\ Chunks \in Nat \ {0}
  /\ MaxTurns \in Nat
  /\ \A n \in Opened : n \in 0..MaxTurns
BY HistoryAssumption

LEMMA ItemsType == Items \subseteq Nat \ {0}
BY Constants DEF Items

(* The two messages of a turn.                                              *)
LEMMA TurnItems ==
  ASSUME NEW j \in 1..MaxTurns
  PROVE  /\ Question(j) \in Items /\ Answer(j) \in Items
         /\ IsUser(Question(j)) /\ ~IsUser(Answer(j))
         /\ \A k \in 1..MaxTurns :
              /\ Question(j) = Question(k) => j = k
              /\ Answer(j) = Answer(k) => j = k
              /\ Question(j) # Answer(k)
<1>1. MaxTurns \in Nat /\ j \in Nat /\ j >= 1 /\ j <= MaxTurns
  BY Constants
<1>2. Question(j) \in Items /\ Answer(j) \in Items
  BY <1>1 DEF Question, Answer, Items
<1>3. (2 * j) % 2 = 0 /\ (2 * j - 1) % 2 = 1
  BY <1>1
<1>4. IsUser(Question(j)) /\ ~IsUser(Answer(j))
  BY <1>3 DEF IsUser, Question, Answer
<1>5. ASSUME NEW k \in 1..MaxTurns
      PROVE  /\ Question(j) = Question(k) => j = k
             /\ Answer(j) = Answer(k) => j = k
             /\ Question(j) # Answer(k)
  BY <1>1 DEF Question, Answer
<1> QED BY <1>2, <1>4, <1>5

LEMMA MessageType ==
  ASSUME NEW n \in Items, NEW id \in {"history", "live"}, NEW text \in Nat \ {0}
  PROVE  /\ Message(n, id, text) \in Messages
         /\ Message(n, id, text).item = n
         /\ Message(n, id, text).id = id
         /\ Message(n, id, text).text = text
BY DEF Message, Messages

LEMMA LongerText ==
  ASSUME NEW M \in Messages
  PROVE  /\ [M EXCEPT !.text = M.text + 1] \in Messages
         /\ [M EXCEPT !.text = M.text + 1].item = M.item
         /\ [M EXCEPT !.text = M.text + 1].id = M.id
         /\ [M EXCEPT !.text = M.text + 1].text = M.text + 1
BY DEF Messages

LEMMA StoreFacts ==
  ASSUME store \in Seq(StoredMessages)
  PROVE  /\ Len(store) \in Nat
         /\ DOMAIN store = 1..Len(store)
         /\ \A k \in DOMAIN store : store[k].item \in Items /\ store[k].text \in Nat \ {0}
<1>1. \A k \in DOMAIN store : store[k] \in StoredMessages
  BY DomainOfSeq
<1> QED BY <1>1, DomainOfSeq DEF StoredMessages

(* codex stores one message more.                                           *)
LEMMA StoreStep ==
  ASSUME store \in Seq(StoredMessages), NEW n \in Items, NEW text \in Nat \ {0},
         store' = Append(store, Stored(n, text))
  PROVE  /\ store' \in Seq(StoredMessages)
         /\ Len(store') = Len(store) + 1
         /\ DOMAIN store' = 1..(Len(store) + 1)
         /\ \A k \in DOMAIN store : k \in DOMAIN store' /\ store'[k] = store[k]
         /\ store'[Len(store) + 1].item = n
         /\ store'[Len(store) + 1].text = text
<1>1. PICK e \in StoredMessages : e = Stored(n, text)
  BY DEF Stored, StoredMessages
<1>2. e.item = n /\ e.text = text
  BY <1>1 DEF Stored
<1>3. store' = Append(store, e)
  BY <1>1
<1>4. /\ store' \in Seq(StoredMessages)
      /\ Len(store') = Len(store) + 1
      /\ \A k \in 1..Len(store) : store'[k] = store[k]
      /\ store'[Len(store) + 1] = e
  BY <1>3, AppendProperties
<1>5. /\ DOMAIN store = 1..Len(store) /\ Len(store) \in Nat
      /\ DOMAIN store' = 1..(Len(store) + 1)
  BY <1>4, DomainOfSeq
<1>6. \A k \in DOMAIN store : k \in DOMAIN store'
  BY <1>5
<1> QED BY <1>2, <1>4, <1>5, <1>6

(* ListThreadMessages answers with the messages before the cursor.          *)
LEMMA PageFacts ==
  ASSUME store \in Seq(StoredMessages), NEW c \in Nat
  PROVE  /\ PageStart(c) \in Nat
         /\ PageData(c) \in Seq(Messages)
         /\ PageStart(c) + Len(PageData(c)) <= Len(store)
         /\ Cursor(PageStart(c))
         /\ c # 0 /\ c < Len(store) => PageStart(c) + Len(PageData(c)) = c
         /\ PageData(c) = <<>> => PageStart(c) = 0
         /\ \A m \in DOMAIN PageData(c) : PageData(c)[m] =
              Message(store[PageStart(c) + m].item, "history", store[PageStart(c) + m].text)
<1>0. Len(store) \in Nat
  BY StoreFacts
<1>1. /\ PageEnd(c) \in 0..Len(store)
      /\ c # 0 /\ c < Len(store) => PageEnd(c) = c
  BY <1>0, Constants DEF PageEnd
<1>2. /\ PageStart(c) \in 0..PageEnd(c)
      /\ PageStart(c) = 0 \/ PageStart(c) < PageEnd(c)
  BY <1>0, <1>1, Constants DEF PageStart
<1> DEFINE N == PageEnd(c) - PageStart(c)
           data == [m \in 1..N |->
                      Message(store[PageStart(c) + m].item, "history",
                              store[PageStart(c) + m].text)]
<1>3. N \in Nat
  BY <1>0, <1>1, <1>2, Constants
<1>4. PageData(c) = data
  BY DEF PageData
<1>5. ASSUME NEW m \in 1..N
      PROVE  Message(store[PageStart(c) + m].item, "history",
                     store[PageStart(c) + m].text) \in Messages
  <2>1. PageStart(c) + m \in DOMAIN store
    BY <1>0, <1>1, <1>2, StoreFacts
  <2> QED BY <2>1, StoreFacts, MessageType
<1>6. data \in Seq(Messages) /\ Len(data) = N /\ DOMAIN data = 1..N
  <2>1. data \in Seq(Messages)
    BY <1>3, <1>5, IsASeq
  <2> QED BY <2>1, <1>3, LenProperties
<1>7. PageData(c) = <<>> => N = 0
  BY <1>4, <1>6, EmptySeq
<1>8. PageStart(c) + N = PageEnd(c)
  BY <1>0, <1>1, <1>2
<1>9. Cursor(PageStart(c))
  BY <1>0, <1>1, <1>2 DEF Cursor
<1> HIDE DEF N
<1>10. \A m \in DOMAIN PageData(c) : PageData(c)[m] =
         Message(store[PageStart(c) + m].item, "history", store[PageStart(c) + m].text)
  BY <1>4
<1>11. PageData(c) = <<>> => PageStart(c) = 0
  BY <1>0, <1>1, <1>2, <1>7, <1>8
<1>12. /\ PageStart(c) + Len(PageData(c)) <= Len(store)
       /\ c # 0 /\ c < Len(store) => PageStart(c) + Len(PageData(c)) = c
  <2>1. Len(PageData(c)) = N
    BY <1>4, <1>6
  <2> QED BY <2>1, <1>0, <1>1, <1>8
<1> HIDE DEF data
<1> QED BY <1>1, <1>2, <1>4, <1>6, <1>9, <1>10, <1>11, <1>12

LEMMA FinishFacts ==
  ASSUME pages \in Seq(Pages), NEW p \in DOMAIN pages, Finish(p)
  PROVE  /\ pages' \in Seq(Pages)
         /\ \A q \in DOMAIN pages' : \E n \in DOMAIN pages : pages'[q] = pages[n]
BY RemoveAtFacts DEF Finish

LEMMA AskFacts ==
  ASSUME pages \in Seq(Pages), NEW kind \in {"first", "more"}, NEW c \in Nat, Ask(kind, c)
  PROVE  /\ pages' \in Seq(Pages)
         /\ \A q \in DOMAIN pages' :
              \/ \E n \in DOMAIN pages : pages'[q] = pages[n]
              \/ /\ pages'[q].kind = kind
                 /\ pages'[q].at = "asked"
                 /\ pages'[q].cursor = c
<1> DEFINE r == [kind |-> kind, at |-> "asked", cursor |-> c, data |-> <<>>, next |-> 0]
<1>1. r \in Pages
  BY EmptySeq DEF Pages
<1>2. pages' = Append(pages, r)
  BY DEF Ask
<1>3. r.kind = kind /\ r.at = "asked" /\ r.cursor = c
  OBVIOUS
<1> HIDE DEF r
<1>4. /\ pages' \in Seq(Pages)
      /\ Len(pages') = Len(pages) + 1
      /\ \A i \in 1..Len(pages) : pages'[i] = pages[i]
      /\ pages'[Len(pages) + 1] = r
  BY <1>1, <1>2, AppendProperties
<1>5. DOMAIN pages' = 1..(Len(pages) + 1) /\ DOMAIN pages = 1..Len(pages) /\ Len(pages) \in Nat
  BY <1>4, DomainOfSeq
<1> QED BY <1>3, <1>4, <1>5

LEMMA AnswerFacts ==
  ASSUME pages \in Seq(Pages), store \in Seq(StoredMessages),
         NEW p \in DOMAIN pages, ListThreadMessages(p)
  PROVE  /\ pages' \in Seq(Pages)
         /\ DOMAIN pages' = DOMAIN pages
         /\ \A q \in DOMAIN pages :
              /\ pages'[q].kind = pages[q].kind
              /\ pages'[q].cursor = pages[q].cursor
              /\ q # p => pages'[q] = pages[q]
         /\ pages'[p].data = PageData(pages[p].cursor)
         /\ pages'[p].next = PageStart(pages[p].cursor)
<1>1. /\ pages[p] \in Pages
      /\ PageData(pages[p].cursor) \in Seq(Messages)
      /\ PageStart(pages[p].cursor) \in Nat
  <2>1. pages[p] \in Pages
    BY DomainOfSeq
  <2>2. pages[p].cursor \in Nat
    BY <2>1 DEF Pages
  <2> QED BY <2>1, <2>2, PageFacts
<1>2. PICK r : r = [pages[p] EXCEPT !.at = "answered", !.data = PageData(pages[p].cursor),
                                    !.next = PageStart(pages[p].cursor)]
  OBVIOUS
<1>3. r \in Pages
  BY <1>1, <1>2 DEF Pages
<1>4. pages' = [pages EXCEPT ![p] = r]
  BY <1>2 DEF ListThreadMessages
<1>5. /\ r.kind = pages[p].kind
      /\ r.cursor = pages[p].cursor
      /\ r.data = PageData(pages[p].cursor)
      /\ r.next = PageStart(pages[p].cursor)
  BY <1>1, <1>2 DEF Pages
<1>6. pages' \in Seq(Pages)
  BY <1>3, <1>4, ExceptSeq, DomainOfSeq
<1>7. DOMAIN pages' = DOMAIN pages
  BY <1>4
<1>8. pages'[p] = r /\ \A q \in DOMAIN pages : q # p => pages'[q] = pages[q]
  BY <1>4
<1> QED BY <1>5, <1>6, <1>7, <1>8

LEMMA DeltaFacts ==
  ASSUME stream \in Seq(Items), stream # <<>>
  PROVE  /\ Head(stream) \in Items
         /\ Head(stream) = stream[1]
         /\ 1 \in DOMAIN stream
         /\ Tail(stream) \in Seq(Items)
         /\ Len(Tail(stream)) = Len(stream) - 1
         /\ Len(stream) \in Nat \ {0}
         /\ \A i \in DOMAIN Tail(stream) : Tail(stream)[i] = stream[i + 1] /\ i + 1 \in DOMAIN stream
<1>1. /\ Head(stream) \in Items
      /\ Tail(stream) \in Seq(Items)
      /\ Len(Tail(stream)) = Len(stream) - 1
      /\ \A i \in 1..Len(Tail(stream)) : Tail(stream)[i] = stream[i + 1]
  BY HeadTailProperties
<1>2. Len(stream) \in Nat \ {0}
  BY EmptySeq, DomainOfSeq
<1>3. DOMAIN stream = 1..Len(stream) /\ DOMAIN Tail(stream) = 1..Len(Tail(stream))
  BY <1>1, DomainOfSeq
<1>4. Head(stream) = stream[1]
  OBVIOUS
<1> QED BY <1>1, <1>2, <1>3, <1>4

(* The merged list is the page and those of the list that are not in it.    *)
LEMMA MergeFacts ==
  ASSUME NEW older \in Seq(Messages), NEW now \in Seq(Messages)
  PROVE  /\ Unseen(older, now) \in SUBSET (DOMAIN now)
         /\ Subsequence(now, Unseen(older, now)) \in Seq(Messages)
         /\ MergeUnique(older, now) \in Seq(Messages)
         /\ Len(MergeUnique(older, now))
              = Len(older) + Len(Subsequence(now, Unseen(older, now)))
         /\ \A m \in DOMAIN MergeUnique(older, now) : MergeUnique(older, now)[m] =
              IF m <= Len(older) THEN older[m]
              ELSE Subsequence(now, Unseen(older, now))[m - Len(older)]
<1> DEFINE K == Unseen(older, now)
<1>1. K \in SUBSET (DOMAIN now)
  BY DEF Unseen
<1> HIDE DEF K
<1>2. Subsequence(now, K) \in Seq(Messages)
  BY <1>1, SubsequenceFacts
<1>3. MergeUnique(older, now) = older \o Subsequence(now, K)
  BY DEF MergeUnique, K
<1> DEFINE kept == Subsequence(now, K)
           merged == older \o kept
<1>4. kept \in Seq(Messages)
  BY <1>2
<1> HIDE DEF kept
<1>5. /\ merged \in Seq(Messages)
      /\ Len(merged) = Len(older) + Len(kept)
      /\ \A m \in 1..(Len(older) + Len(kept)) : merged[m] =
           IF m <= Len(older) THEN older[m] ELSE kept[m - Len(older)]
  BY <1>4, ConcatProperties
<1>6. DOMAIN merged = 1..Len(merged)
  BY <1>5, DomainOfSeq
<1> QED BY <1>1, <1>2, <1>3, <1>5, <1>6 DEF kept, K

LEMMA IdsFacts ==
  ASSUME idOf \in [Items -> {"none", "history", "live"}], NEW data
  PROVE  /\ WithIds(data) \in [Items -> {"none", "history", "live"}]
         /\ \A n \in Items :
              /\ idOf[n] # "none" => WithIds(data)[n] # "none"
              /\ (\A m \in DOMAIN data : data[m].item # n) => WithIds(data)[n] = idOf[n]
         /\ \A m \in DOMAIN data : data[m].item \in Items /\ ~IsUser(data[m].item) =>
              WithIds(data)[data[m].item] = "history"
<1>1. \A n \in Items : WithIds(data)[n] =
        IF \E m \in DOMAIN data : data[m].item = n /\ ~IsUser(n) THEN "history" ELSE idOf[n]
  BY DEF WithIds
<1>2. WithIds(data) \in [Items -> {"none", "history", "live"}]
  BY DEF WithIds
<1> QED BY <1>1, <1>2

(* The list after a message is appended.                                    *)
LEMMA AppendFacts ==
  ASSUME list \in Seq(Messages), NEW n \in Items,
         list' = Append(list, Message(n, "live", 1))
  PROVE  /\ list' \in Seq(Messages)
         /\ Len(list') = Len(list) + 1
         /\ DOMAIN list' = 1..(Len(list) + 1)
         /\ \A m \in DOMAIN list : list'[m] = list[m]
         /\ list'[Len(list) + 1].item = n
         /\ list'[Len(list) + 1].id = "live"
         /\ list'[Len(list) + 1].text = 1
<1>1. PICK e \in Messages : e = Message(n, "live", 1)
  BY MessageType
<1>2. e.item = n /\ e.id = "live" /\ e.text = 1
  BY <1>1, MessageType
<1>3. list' = Append(list, e)
  BY <1>1
<1>4. /\ list' \in Seq(Messages)
      /\ Len(list') = Len(list) + 1
      /\ \A m \in 1..Len(list) : list'[m] = list[m]
      /\ list'[Len(list) + 1] = e
  BY <1>3, AppendProperties
<1>5. DOMAIN list = 1..Len(list) /\ DOMAIN list' = 1..(Len(list) + 1)
  BY <1>4, DomainOfSeq
<1> QED BY <1>2, <1>4, <1>5

(* A delta of a message with an id lengthens the text of that message, one  *)
(* without starts a message.                                                *)
LEMMA DeltaStep ==
  ASSUME TypeOK, OnDelta
  PROVE  /\ stream # <<>>
         /\ Head(stream) \in Items
         /\ stream' = Tail(stream)
         /\ stream' \in Seq(Items)
         /\ list' \in Seq(Messages)
         /\ idOf' \in [Items -> {"none", "history", "live"}]
         /\ idOf[Head(stream)] # "none" =>
              /\ idOf' = idOf
              /\ DOMAIN list' = DOMAIN list
              /\ Len(list') = Len(list)
              /\ \A m \in DOMAIN list :
                   /\ list'[m].item = list[m].item
                   /\ list'[m].id = list[m].id
                   /\ list'[m].text =
                        IF list[m].item = Head(stream) /\ list[m].id = idOf[Head(stream)]
                        THEN list[m].text + 1 ELSE list[m].text
         /\ idOf[Head(stream)] = "none" =>
              /\ list' = Append(list, Message(Head(stream), "live", 1))
              /\ idOf' = [idOf EXCEPT ![Head(stream)] = "live"]
         /\ UNCHANGED <<serverVars, cursor, loaded, lockVars, pageVars, historyVars>>
<1>1. PICK n : n = Head(stream)
  OBVIOUS
<1>2. stream # <<>> /\ stream' = Tail(stream)
  BY DEF OnDelta
<1>3. n \in Items /\ Tail(stream) \in Seq(Items)
  BY <1>1, <1>2, DeltaFacts DEF TypeOK
<1>4. UNCHANGED <<serverVars, cursor, loaded, lockVars, pageVars, historyVars>>
  BY DEF OnDelta
<1>5. /\ Len(list) \in Nat /\ DOMAIN list = 1..Len(list) /\ list \in Seq(Messages)
      /\ \A m \in 1..Len(list) : list[m] \in Messages
  BY DomainOfSeq DEF TypeOK
<1>6. CASE idOf[n] # "none"
  <2>1. /\ list' = [m \in DOMAIN list |->
                      IF list[m].item = n /\ list[m].id = idOf[n]
                      THEN [list[m] EXCEPT !.text = @ + 1] ELSE list[m]]
        /\ idOf' = idOf
    BY <1>1, <1>6 DEF OnDelta
  <2>2. \A m \in 1..Len(list) :
          /\ [list[m] EXCEPT !.text = @ + 1] \in Messages
          /\ [list[m] EXCEPT !.text = @ + 1].item = list[m].item
          /\ [list[m] EXCEPT !.text = @ + 1].id = list[m].id
          /\ [list[m] EXCEPT !.text = @ + 1].text = list[m].text + 1
    BY <1>5, LongerText
  <2>3. list' \in [1..Len(list) -> Messages]
    BY <2>1, <2>2, <1>5
  <2>4. list' \in Seq(Messages)
    BY <1>5, <2>3, SeqDef
  <2>5. DOMAIN list' = 1..Len(list) /\ Len(list') = Len(list)
    BY <2>3, <2>4, <1>5, LenProperties
  <2>6. \A m \in DOMAIN list :
          /\ list'[m].item = list[m].item
          /\ list'[m].id = list[m].id
          /\ list'[m].text = IF list[m].item = n /\ list[m].id = idOf[n]
                             THEN list[m].text + 1 ELSE list[m].text
    BY <2>1, <2>2, <1>5
  <2>7. idOf' \in [Items -> {"none", "history", "live"}]
    BY <2>1 DEF TypeOK
  <2> QED BY <1>1, <1>2, <1>3, <1>4, <1>5, <1>6, <2>1, <2>4, <2>5, <2>6, <2>7
<1>7. CASE idOf[n] = "none"
  <2>1. list' = Append(list, Message(n, "live", 1)) /\ idOf' = [idOf EXCEPT ![n] = "live"]
    BY <1>1, <1>7 DEF OnDelta
  <2>2. list' \in Seq(Messages)
    BY <2>1, <1>3, <1>5, AppendFacts
  <2>3. idOf' \in [Items -> {"none", "history", "live"}]
    BY <2>1 DEF TypeOK
  <2> QED BY <1>1, <1>2, <1>3, <1>4, <1>7, <2>1, <2>2, <2>3
<1> QED BY <1>6, <1>7

-----------------------------------------------------------------------------
(* Types                                                                    *)

(* What codex has stored when the page is opened: both messages of a turn   *)
(* that is over, and the question of one that runs.                         *)
LEMMA InitialStore ==
  ASSUME Init
  PROVE  /\ store \in Seq(StoredMessages)
         /\ \A k \in DOMAIN store : store[k].item = k
         /\ Len(store) = (IF turn = 0 THEN 2 * turns ELSE 2 * turns - 1)
<1>1. /\ turns \in 0..MaxTurns /\ turn \in {0, turns} /\ MaxTurns \in Nat
      /\ Chunks \in Nat \ {0}
  BY Constants DEF Init
<1>2. PICK N : N = IF turn = 0 THEN 2 * turns ELSE 2 * turns - 1
  OBVIOUS
<1>3. N \in Nat /\ N <= 2 * MaxTurns
  BY <1>1, <1>2
<1>4. store = [n \in 1..N |-> Stored(n, IF IsUser(n) THEN 1 ELSE Chunks)]
  BY <1>2 DEF Init
<1>5. ASSUME NEW n \in 1..N
      PROVE  /\ Stored(n, IF IsUser(n) THEN 1 ELSE Chunks) \in StoredMessages
             /\ Stored(n, IF IsUser(n) THEN 1 ELSE Chunks).item = n
  <2>1. n \in Items
    BY <1>1, <1>3 DEF Items
  <2>2. PICK text \in Nat \ {0} : text = IF IsUser(n) THEN 1 ELSE Chunks
    BY <1>1
  <2>3. Stored(n, text) \in StoredMessages /\ Stored(n, text).item = n
    BY <2>1 DEF Stored, StoredMessages
  <2> QED BY <2>2, <2>3
<1>6. store \in [1..N -> StoredMessages]
  BY <1>4, <1>5
<1>7. store \in Seq(StoredMessages) /\ Len(store) = N
  BY <1>3, <1>6, SeqDef, LenProperties
<1>8. \A k \in DOMAIN store : store[k].item = k
  BY <1>4, <1>5
<1> QED BY <1>2, <1>7, <1>8

LEMMA TypeInit == Init => TypeOK
<1> SUFFICES ASSUME Init PROVE TypeOK
  OBVIOUS
<1>1. turns \in 0..MaxTurns /\ turn \in 0..MaxTurns
  BY Constants DEF Init
<1>2. spoken \in 0..Chunks
  BY Constants DEF Init
<1>3. store \in Seq(StoredMessages)
  BY InitialStore
<1>4. stream \in Seq(Items) /\ list \in Seq(Messages) /\ pages \in Seq(Pages)
  BY EmptySeq DEF Init
<1>5. idOf \in [Items -> {"none", "history", "live"}]
  BY DEF Init, Items
<1>6. elsewhere \in [loading : Nat, over : Nat]
  BY DEF Init
<1>7. posts \in SUBSET (1..MaxTurns) /\ asking \in 0..MaxTurns
  BY Constants DEF Init
<1>8. cursor \in Nat /\ asked \in Nat /\ loadingMore = "none"
  BY DEF Init
<1>9. loaded \in BOOLEAN /\ crossed \in BOOLEAN /\ overtaken \in BOOLEAN
  BY DEF Init
<1> QED BY <1>1, <1>2, <1>3, <1>4, <1>5, <1>6, <1>7, <1>8, <1>9 DEF TypeOK

LEMMA TypeStep == TypeOK /\ [Next]_vars => TypeOK'
<1> SUFFICES ASSUME TypeOK, [Next]_vars PROVE TypeOK'
  OBVIOUS
<1> USE Constants
<1>0. /\ turns \in Nat /\ (turns < MaxTurns => turns + 1 \in 1..MaxTurns)
      /\ spoken \in 0..Chunks
      /\ turn # 0 => turn \in 1..MaxTurns
      /\ store \in Seq(StoredMessages)
  BY DEF TypeOK
<1>1. CASE Send
  <2>1. turns + 1 \in 1..MaxTurns
    BY <1>0, <1>1 DEF Send
  <2>2. list' \in Seq(Messages)
    <3>1. PICK j \in 1..MaxTurns : j = turns + 1
      BY <2>1
    <3>2. list' = Append(list, Message(Question(j), "live", 1))
      BY <1>1, <3>1 DEF Send
    <3> QED BY <3>1, <3>2, AppendFacts, TurnItems DEF TypeOK
  <2>3. /\ turns' \in 0..MaxTurns /\ asking' \in 0..MaxTurns
        /\ posts' \in SUBSET (1..MaxTurns) /\ crossed' \in BOOLEAN
    BY <1>1, <2>1 DEF Send, TypeOK
  <2> QED BY <1>1, <2>2, <2>3 DEF Send, TypeOK, lockVars, pageVars
<1>2. CASE SendFails
  BY <1>2 DEF SendFails, TypeOK, listVars, lockVars, pageVars
<1>3. ASSUME NEW j \in 1..MaxTurns, Starts(j)
      PROVE  store' \in Seq(StoredMessages) /\ turn' \in 0..MaxTurns
  <2>1. store' = Append(store, Stored(Question(j), 1)) /\ turn' = j
    BY <1>3 DEF Starts
  <2> QED BY <1>0, <2>1, StoreStep, TurnItems
<1>4. ASSUME NEW j \in posts, CodexStarts(j)
      PROVE  TypeOK'
  <2>1. j \in 1..MaxTurns /\ Starts(j)
    BY <1>4 DEF TypeOK, CodexStarts
  <2>2. store' \in Seq(StoredMessages) /\ turn' \in 0..MaxTurns
    BY <1>3, <2>1
  <2>3. /\ posts' \in SUBSET (1..MaxTurns) /\ asking' \in 0..MaxTurns
        /\ crossed' \in BOOLEAN
    BY <1>4 DEF CodexStarts, TypeOK
  <2> QED BY <1>4, <2>2, <2>3 DEF CodexStarts, Starts, TypeOK, listVars, lockVars, pageVars
<1>5. CASE StartsElsewhere
  <2>1. turns + 1 \in 1..MaxTurns /\ Starts(turns + 1) /\ turns' = turns + 1 /\ crossed' = TRUE
    BY <1>0, <1>5 DEF StartsElsewhere
  <2>2. PICK j \in 1..MaxTurns : j = turns + 1
    BY <2>1
  <2>3. Starts(j)
    BY <2>1, <2>2 DEF Starts
  <2>4. store' \in Seq(StoredMessages) /\ turn' \in 0..MaxTurns
    BY <1>3, <2>3
  <2>5. turns' \in 0..MaxTurns
    BY <2>1
  <2> QED BY <1>5, <2>1, <2>4, <2>5
          DEF StartsElsewhere, Starts, TypeOK, listVars, lockVars, pageVars
<1>6. CASE CodexSpeaks
  <2>1. stream' \in Seq(Items)
    <3>1. PICK j \in 1..MaxTurns : j = turn
      BY <1>0, <1>6 DEF CodexSpeaks
    <3>2. stream' = Append(stream, Answer(j)) /\ Answer(j) \in Items
      BY <1>6, <3>1, TurnItems DEF CodexSpeaks
    <3> QED BY <3>2, AppendProperties DEF TypeOK
  <2>2. spoken' \in 0..Chunks
    BY <1>0, <1>6 DEF CodexSpeaks
  <2> QED BY <1>6, <2>1, <2>2 DEF CodexSpeaks, TypeOK, listVars, lockVars, pageVars, historyVars
<1>7. CASE CodexStores
  <2>1. store' \in Seq(StoredMessages)
    <3>1. PICK j \in 1..MaxTurns : j = turn
      BY <1>0, <1>7 DEF CodexStores
    <3>2. PICK said \in Nat \ {0} : said = spoken
      BY <1>0, <1>7 DEF CodexStores
    <3>3. store' = Append(store, Stored(Answer(j), said)) /\ Answer(j) \in Items
      BY <1>7, <3>1, <3>2, TurnItems DEF CodexStores
    <3> QED BY <1>0, <3>2, <3>3, StoreStep
  <2>2. turn' \in 0..MaxTurns /\ spoken' \in 0..Chunks
    BY <1>7 DEF CodexStores
  <2> QED BY <1>7, <2>1, <2>2 DEF CodexStores, TypeOK, listVars, lockVars, pageVars, historyVars
<1>8. CASE CodexDrops
  <2>1. turn' \in 0..MaxTurns /\ spoken' \in 0..Chunks /\ crossed' \in BOOLEAN
    BY <1>8 DEF CodexDrops
  <2> QED BY <1>8, <2>1 DEF CodexDrops, TypeOK, listVars, lockVars, pageVars
<1>9. CASE OnDelta
  BY <1>9, DeltaStep DEF TypeOK, serverVars, lockVars, pageVars, historyVars
<1>10. CASE AskFirst
  <2>1. pages' \in Seq(Pages)
    BY <1>10, AskFacts DEF AskFirst, TypeOK
  <2> QED BY <1>10, <2>1 DEF AskFirst, Ask, TypeOK, serverVars, listVars, lockVars, historyVars
<1>11. CASE AskMore
  <2>1. pages' \in Seq(Pages)
    BY <1>11, AskFacts DEF AskMore, TypeOK
  <2> QED BY <1>11, <2>1 DEF AskMore, Ask, TypeOK, serverVars, listVars, historyVars
<1>12. CASE AskMoreElsewhere
  <2>1. elsewhere' \in [loading : Nat, over : Nat]
    <3>1. elsewhere \in [loading : Nat, over : Nat]
      BY DEF TypeOK
    <3> QED BY <1>12, <3>1 DEF AskMoreElsewhere
  <2> QED BY <1>12, <2>1 DEF AskMoreElsewhere, TypeOK, serverVars, listVars, pageVars, historyVars
<1>13. CASE MoreElsewhereOver
  <2>1. elsewhere' \in [loading : Nat, over : Nat]
    BY <1>13 DEF MoreElsewhereOver, TypeOK
  <2> QED BY <1>13, <2>1 DEF MoreElsewhereOver, TypeOK, serverVars, listVars, pageVars, historyVars
<1>14. ASSUME NEW p \in DOMAIN pages, ListThreadMessages(p)
       PROVE  TypeOK'
  <2>1. pages' \in Seq(Pages)
    BY <1>14, AnswerFacts DEF TypeOK
  <2> QED BY <1>14, <2>1 DEF ListThreadMessages, TypeOK, serverVars, listVars, lockVars, historyVars
<1>15. ASSUME NEW p \in DOMAIN pages
       PROVE  pages[p].data \in Seq(Messages) /\ pages[p].next \in Nat
  <2>1. pages[p] \in Pages
    BY DomainOfSeq DEF TypeOK
  <2> QED BY <2>1 DEF Pages
<1>16. ASSUME NEW p \in DOMAIN pages, OnFirstPage(p)
       PROVE  TypeOK'
  <2>1. pages' \in Seq(Pages) /\ asked' = asked
    BY <1>16, FinishFacts DEF OnFirstPage, TypeOK, Finish
  <2>2. list' \in Seq(Messages) /\ cursor' \in Nat
    BY <1>15, <1>16 DEF OnFirstPage
  <2>3. idOf' \in [Items -> {"none", "history", "live"}]
    BY <1>16, IdsFacts DEF OnFirstPage, TypeOK
  <2>4. crossed' \in BOOLEAN /\ loaded' \in BOOLEAN
    BY <1>16 DEF OnFirstPage
  <2>5. overtaken' \in BOOLEAN
    BY <1>16 DEF OnFirstPage, TypeOK
  <2> QED BY <1>16, <2>1, <2>2, <2>3, <2>4, <2>5 DEF OnFirstPage, TypeOK, serverVars, lockVars
<1>17. ASSUME NEW p \in DOMAIN pages, OnMorePage(p)
       PROVE  TypeOK'
  <2>1. pages' \in Seq(Pages) /\ asked' = asked
    BY <1>17, FinishFacts DEF OnMorePage, TypeOK, Finish
  <2>2. list' \in Seq(Messages) /\ cursor' \in Nat
    BY <1>15, <1>17, MergeFacts DEF OnMorePage, TypeOK
  <2>3. idOf' \in [Items -> {"none", "history", "live"}]
    BY <1>17, IdsFacts DEF OnMorePage, TypeOK
  <2>4. crossed' \in BOOLEAN
    BY <1>17 DEF OnMorePage
  <2>5. loadingMore' \in {"none", "this", "other"}
    BY <1>17 DEF OnMorePage
  <2> QED BY <1>17, <2>1, <2>2, <2>3, <2>4, <2>5 DEF OnMorePage, TypeOK, serverVars
<1>18. ASSUME NEW p \in DOMAIN pages, OnPageFailed(p)
       PROVE  TypeOK'
  <2>1. pages' \in Seq(Pages) /\ asked' = asked
    BY <1>18, FinishFacts DEF OnPageFailed, TypeOK, Finish
  <2>2. loadingMore' \in {"none", "this", "other"}
    BY <1>18 DEF OnPageFailed, TypeOK
  <2> QED BY <1>18, <2>1, <2>2 DEF OnPageFailed, TypeOK, serverVars, listVars, historyVars
<1>19. CASE UNCHANGED vars
  BY <1>19 DEF vars, serverVars, listVars, lockVars, pageVars, historyVars, TypeOK
<1> QED BY <1>1, <1>2, <1>4, <1>5, <1>6, <1>7, <1>8, <1>9, <1>10, <1>11, <1>12, <1>13, <1>14,
           <1>16, <1>17, <1>18, <1>19 DEF Next

-----------------------------------------------------------------------------
(* Turns and pages                                                          *)

(* What a turn that starts, and what an answer that ends, does to what is   *)
(* stored; nothing else changes it.                                         *)
LEMMA StartStep ==
  ASSUME TypeOK, NEW j \in 1..MaxTurns, Starts(j)
  PROVE  /\ turn = 0 /\ turn' = j
         /\ store' \in Seq(StoredMessages)
         /\ Len(store') = Len(store) + 1
         /\ DOMAIN store' = 1..(Len(store) + 1)
         /\ \A k \in DOMAIN store : k \in DOMAIN store' /\ store'[k] = store[k]
         /\ store'[Len(store) + 1].item = Question(j)
         /\ store'[Len(store) + 1].text = 1
         /\ UNCHANGED <<spoken, stream, listVars, lockVars, pageVars, overtaken>>
<1>1. PICK n \in Items : n = Question(j)
  BY TurnItems
<1>2. store' = Append(store, Stored(n, 1)) /\ store \in Seq(StoredMessages)
  BY <1>1 DEF Starts, TypeOK
<1>3. /\ store' \in Seq(StoredMessages)
      /\ Len(store') = Len(store) + 1
      /\ DOMAIN store' = 1..(Len(store) + 1)
      /\ \A k \in DOMAIN store : k \in DOMAIN store' /\ store'[k] = store[k]
      /\ store'[Len(store) + 1].item = n
      /\ store'[Len(store) + 1].text = 1
  BY <1>2, StoreStep
<1> QED BY <1>1, <1>3 DEF Starts

LEMMA AnswerStep ==
  ASSUME TypeOK, CodexStores
  PROVE  /\ turn \in 1..MaxTurns /\ turn' = 0
         /\ spoken \in Nat \ {0} /\ spoken' = 0
         /\ store' \in Seq(StoredMessages)
         /\ Len(store') = Len(store) + 1
         /\ DOMAIN store' = 1..(Len(store) + 1)
         /\ \A k \in DOMAIN store : k \in DOMAIN store' /\ store'[k] = store[k]
         /\ store'[Len(store) + 1].item = Answer(turn)
         /\ store'[Len(store) + 1].text = spoken
         /\ UNCHANGED <<turns, posts, asking, stream, listVars, lockVars, pageVars, historyVars>>
<1>1. turn \in 1..MaxTurns /\ spoken \in Nat \ {0}
  BY Constants DEF CodexStores, TypeOK
<1>2. PICK n \in Items : n = Answer(turn)
  BY <1>1, TurnItems
<1>3. store' = Append(store, Stored(n, spoken)) /\ store \in Seq(StoredMessages)
  BY <1>2 DEF CodexStores, TypeOK
<1>4. /\ store' \in Seq(StoredMessages)
      /\ Len(store') = Len(store) + 1
      /\ DOMAIN store' = 1..(Len(store) + 1)
      /\ \A k \in DOMAIN store : k \in DOMAIN store' /\ store'[k] = store[k]
      /\ store'[Len(store) + 1].item = n
      /\ store'[Len(store) + 1].text = spoken
  BY <1>1, <1>3, StoreStep
<1> QED BY <1>1, <1>2, <1>4 DEF CodexStores

LEMMA StoreGrows ==
  ASSUME TypeOK, [Next]_vars
  PROVE  /\ Len(store) \in Nat /\ Len(store') \in Nat
         /\ Len(store) <= Len(store')
         /\ DOMAIN store = 1..Len(store)
         /\ \A k \in DOMAIN store : k \in DOMAIN store' /\ store'[k] = store[k]
<1>1. Len(store) \in Nat /\ DOMAIN store = 1..Len(store)
  BY StoreFacts DEF TypeOK
<1>2. CASE UNCHANGED store
  BY <1>1, <1>2
<1>3. ASSUME NEW j \in 1..MaxTurns, Starts(j)
      PROVE  /\ Len(store') = Len(store) + 1
             /\ \A k \in DOMAIN store : k \in DOMAIN store' /\ store'[k] = store[k]
  BY <1>3, StartStep
<1>4. ASSUME NEW j \in posts, CodexStarts(j)
      PROVE  /\ Len(store') = Len(store) + 1
             /\ \A k \in DOMAIN store : k \in DOMAIN store' /\ store'[k] = store[k]
  <2>1. j \in 1..MaxTurns /\ Starts(j)
    BY <1>4 DEF TypeOK, CodexStarts
  <2> QED BY <1>3, <2>1
<1>5. CASE StartsElsewhere
  <2>1. turns + 1 \in 1..MaxTurns /\ Starts(turns + 1)
    BY <1>5, Constants DEF TypeOK, StartsElsewhere
  <2> QED BY <1>1, <1>3, <2>1
<1>6. CASE CodexStores
  BY <1>1, <1>6, AnswerStep
<1>7. Send \/ SendFails \/ CodexSpeaks \/ CodexDrops \/ OnDelta \/ AskFirst \/ AskMore
        \/ AskMoreElsewhere \/ MoreElsewhereOver \/ UNCHANGED vars => UNCHANGED store
  BY DEF Send, SendFails, CodexSpeaks, CodexDrops, OnDelta, AskFirst, AskMore,
         AskMoreElsewhere, MoreElsewhereOver, vars, serverVars
<1>8. ASSUME NEW p \in DOMAIN pages,
             ListThreadMessages(p) \/ OnFirstPage(p) \/ OnMorePage(p) \/ OnPageFailed(p)
      PROVE  UNCHANGED store
  BY <1>8 DEF ListThreadMessages, OnFirstPage, OnMorePage, OnPageFailed, serverVars
<1> QED BY <1>1, <1>2, <1>4, <1>5, <1>6, <1>7, <1>8 DEF Next

LEMMA TurnInit == Init => TurnInv
<1> SUFFICES ASSUME Init PROVE TurnInv
  OBVIOUS
<1>1. /\ turns \in Nat /\ turn \in {0, turns} /\ posts = {} /\ asking = 0 /\ stream = <<>>
      /\ turn = 0 => spoken = 0
  BY Constants DEF Init
<1>2. /\ Len(store) = (IF turn = 0 THEN 2 * turns ELSE 2 * turns - 1)
      /\ DOMAIN store = 1..Len(store)
      /\ \A k \in DOMAIN store : store[k].item = k
  BY InitialStore, StoreFacts
<1>3. \A k \in DOMAIN store : store[k].item <= 2 * turns
  BY <1>1, <1>2
<1>4. turn # 0 => ~IsStored(Answer(turn))
  BY <1>1, <1>2 DEF IsStored, Answer
<1>5. \A k, n \in DOMAIN store : store[k].item = store[n].item => k = n
  BY <1>2
<1>6. DOMAIN stream = {} /\ turn <= turns
  BY <1>1
<1> QED BY <1>1, <1>3, <1>4, <1>5, <1>6 DEF TurnInv

LEMMA TurnStep == TypeOK /\ TypeOK' /\ TurnInv /\ [Next]_vars => TurnInv'
<1> SUFFICES ASSUME TypeOK, TypeOK', TurnInv, [Next]_vars PROVE TurnInv'
  OBVIOUS
<1>0. /\ turns \in Nat /\ turn \in Nat /\ turns' \in Nat /\ turn <= turns
      /\ turn \in 0..MaxTurns /\ posts \in SUBSET (1..MaxTurns) /\ MaxTurns \in Nat
      /\ \A k \in DOMAIN store : store[k].item \in Nat
      /\ \A i \in DOMAIN stream : stream[i] \in Nat
  <2>1. \A k \in DOMAIN store : store[k].item \in Nat
    BY StoreFacts, ItemsType DEF TypeOK
  <2>2. \A i \in DOMAIN stream : stream[i] \in Nat
    <3>1. stream \in Seq(Items)
      BY DEF TypeOK
    <3>2. \A i \in DOMAIN stream : stream[i] \in Items
      BY <3>1, DomainOfSeq
    <3> QED BY <3>2, ItemsType
  <2> QED BY <2>1, <2>2, Constants DEF TypeOK, TurnInv
<1>1. CASE Send
  <2>1. PICK t : t = turns + 1
    OBVIOUS
  <2>2. /\ t \in 1..MaxTurns /\ turns' = t /\ asking' = t /\ posts' = posts \cup {t}
        /\ UNCHANGED <<store, turn, spoken, stream>>
    BY <1>0, <1>1, <2>1 DEF Send
  <2>3. Question(t) > 2 * turns /\ Answer(t) > 2 * turns
    BY <1>0, <2>1 DEF Question, Answer
  <2>4. ~IsStored(Question(t)) /\ ~IsStored(Answer(t))
    <3>1. \A k \in DOMAIN store : store[k].item # Question(t) /\ store[k].item # Answer(t)
      BY <1>0, <2>2, <2>3 DEF TurnInv, Question, Answer
    <3> QED BY <3>1 DEF IsStored
  <2>5. \A i \in DOMAIN stream : stream[i] # Answer(t)
    BY <1>0, <2>2, <2>3 DEF TurnInv, Answer
  <2>6. /\ \A k \in DOMAIN store : store[k].item <= 2 * t
        /\ \A i \in DOMAIN stream : ~IsUser(stream[i]) /\ stream[i] <= 2 * t
    BY <1>0, <2>1 DEF TurnInv
  <2>7. \A j \in posts \cup {t} : j <= t /\ ~IsStored(Question(j)) /\ ~IsStored(Answer(j))
    <3>1. \A j \in posts : j \in Nat /\ j <= turns
      BY <1>0 DEF TurnInv
    <3>2. \A j \in posts : j <= t
      BY <1>0, <2>1, <3>1
    <3>3. t <= t
      BY <1>0, <2>1
    <3> QED BY <2>4, <3>2, <3>3 DEF TurnInv
  <2>8. turn \notin posts \cup {t} /\ turn <= t
    BY <1>0, <2>1 DEF TurnInv
  <2>9. \A j \in posts \cup {t}, i \in DOMAIN stream : stream[i] # Answer(j)
    BY <2>5 DEF TurnInv
  <2>10. /\ turn = 0 => spoken = 0
         /\ \A k, n \in DOMAIN store : store[k].item = store[n].item => k = n
         /\ turn # 0 => ~IsStored(Answer(turn))
    BY DEF TurnInv
  <2> QED BY <2>2, <2>6, <2>7, <2>8, <2>9, <2>10 DEF TurnInv, IsStored, IsUser
<1>2. CASE SendFails
  BY <1>2 DEF SendFails, TurnInv, IsStored
<1>3. ASSUME NEW j \in 1..MaxTurns, Starts(j), j <= turns', turns <= turns',
             ~IsStored(Question(j)), ~IsStored(Answer(j)),
             posts' \subseteq posts \ {j}, asking' # 0 => asking' \in posts'
      PROVE  TurnInv'
  <2>1. PICK L : L = Len(store)
    OBVIOUS
  <2>2. /\ turn = 0 /\ turn' = j /\ UNCHANGED <<spoken, stream>>
        /\ L \in Nat /\ DOMAIN store = 1..L
        /\ DOMAIN store' = 1..(L + 1)
        /\ \A k \in DOMAIN store : store'[k] = store[k]
        /\ store'[L + 1].item = Question(j)
    BY <1>3, <2>1, StartStep, StoreFacts DEF TypeOK
  <2>3. PICK t \in Nat : t = turns'
    BY <1>0
  <2>4. ASSUME NEW k \in DOMAIN store'
        PROVE  \/ k \in DOMAIN store /\ store'[k].item = store[k].item
               \/ k = L + 1 /\ store'[k].item = Question(j)
    BY <2>2
  <2>5. \A k \in DOMAIN store : store[k].item # Question(j) /\ store[k].item # Answer(j)
    BY <1>3 DEF IsStored
  <2>6. \A k, n \in DOMAIN store' : store'[k].item = store'[n].item => k = n
    BY <2>4, <2>5 DEF TurnInv
  <2>7. \A k \in DOMAIN store' : store'[k].item <= 2 * t
    <3>1. Question(j) <= 2 * t
      <4>1. j \in Nat /\ j <= t
        BY <1>0, <1>3, <2>3
      <4> QED BY <4>1 DEF Question
    <3>2. \A k \in DOMAIN store : store[k].item <= 2 * t
      BY <1>0, <1>3, <2>3 DEF TurnInv
    <3> QED BY <2>4, <3>1, <3>2
  <2>8. ~IsStored(Answer(j))'
    <3>1. Question(j) # Answer(j)
      BY TurnItems
    <3>2. \A k \in DOMAIN store' : store'[k].item # Answer(j)
      BY <2>4, <2>5, <3>1
    <3> QED BY <3>2 DEF IsStored
  <2>9. ASSUME NEW i \in posts'
        PROVE  i <= t /\ ~IsStored(Question(i))' /\ ~IsStored(Answer(i))' /\ i # j
    <3>1. i \in posts /\ i # j /\ i \in 1..MaxTurns
      BY <1>0, <1>3
    <3>2. i <= turns /\ ~IsStored(Question(i)) /\ ~IsStored(Answer(i))
      BY <3>1 DEF TurnInv
    <3>3. Question(i) # Question(j) /\ Answer(i) # Question(j)
      BY <3>1, TurnItems
    <3>4. \A k \in DOMAIN store' : store'[k].item # Question(i) /\ store'[k].item # Answer(i)
      BY <2>4, <3>2, <3>3 DEF IsStored
    <3> QED BY <1>0, <1>3, <2>3, <3>1, <3>2, <3>4 DEF IsStored
  <2>10. \A i \in DOMAIN stream : ~IsUser(stream[i]) /\ stream[i] <= 2 * t
    BY <1>0, <1>3, <2>3 DEF TurnInv
  <2>11. \A i \in posts', k \in DOMAIN stream : stream[k] # Answer(i)
    BY <1>3 DEF TurnInv
  <2>12. turn' <= turns' /\ turn' # 0 /\ turn' \notin posts'
    BY <1>3, <2>2
  <2>13. ~IsStored(Answer(turn))'
    BY <2>2, <2>8 DEF IsStored
  <2> QED BY <1>3, <2>2, <2>3, <2>6, <2>7, <2>9, <2>10, <2>11, <2>12, <2>13
      DEF TurnInv, IsUser
<1>4. ASSUME NEW j \in posts, CodexStarts(j)
      PROVE  TurnInv'
  <2>1. /\ j \in 1..MaxTurns /\ Starts(j) /\ turns' = turns /\ posts' = posts \ {j}
        /\ asking' = (IF asking = j THEN 0 ELSE asking)
    BY <1>0, <1>4 DEF CodexStarts
  <2>2. j <= turns /\ ~IsStored(Question(j)) /\ ~IsStored(Answer(j))
    BY DEF TurnInv
  <2>3. asking' # 0 => asking' \in posts'
    BY <2>1 DEF TurnInv
  <2> QED BY <1>0, <1>3, <2>1, <2>2, <2>3
<1>5. CASE StartsElsewhere
  <2>1. PICK j : j = turns + 1
    OBVIOUS
  <2>2. /\ j \in 1..MaxTurns /\ turns' = j /\ Starts(j) /\ UNCHANGED <<posts, asking>>
    BY <1>0, <1>5, <2>1 DEF StartsElsewhere
  <2>3. Question(j) > 2 * turns /\ Answer(j) > 2 * turns
    BY <1>0, <2>1 DEF Question, Answer
  <2>4. ~IsStored(Question(j)) /\ ~IsStored(Answer(j))
    <3>1. \A k \in DOMAIN store : store[k].item # Question(j) /\ store[k].item # Answer(j)
      BY <1>0, <2>2, <2>3 DEF TurnInv, Question, Answer
    <3> QED BY <3>1 DEF IsStored
  <2>5. j \notin posts /\ (asking # 0 => asking \in posts)
    BY <1>0, <2>1 DEF TurnInv
  <2>6. posts' \subseteq posts \ {j} /\ (asking' # 0 => asking' \in posts')
    BY <2>2, <2>5
  <2>7. j <= turns' /\ turns <= turns'
    BY <1>0, <2>1, <2>2
  <2> QED BY <1>3, <2>2, <2>4, <2>6, <2>7
<1>6. CASE CodexSpeaks
  <2>1. PICK n : n = Answer(turn)
    OBVIOUS
  <2>2. /\ turn # 0 /\ stream' = Append(stream, n)
        /\ UNCHANGED <<store, turns, turn, posts, asking>>
    BY <1>6, <2>1 DEF CodexSpeaks
  <2>3. turn \in 1..MaxTurns
    BY <1>0, <2>2
  <2>4. n \in Items /\ ~IsUser(n) /\ n <= 2 * turns
    <3>1. n \in Items /\ ~IsUser(n)
      BY <2>1, <2>3, TurnItems
    <3>2. n <= 2 * turns
      BY <1>0, <2>1 DEF Answer
    <3> QED BY <3>1, <3>2
  <2>5. /\ DOMAIN stream' = 1..(Len(stream) + 1) /\ DOMAIN stream = 1..Len(stream)
        /\ \A i \in 1..Len(stream) : stream'[i] = stream[i]
        /\ stream'[Len(stream) + 1] = n
        /\ Len(stream) \in Nat
    <3>1. stream \in Seq(Items)
      BY DEF TypeOK
    <3>2. /\ stream' \in Seq(Items)
          /\ Len(stream') = Len(stream) + 1
          /\ \A i \in 1..Len(stream) : stream'[i] = stream[i]
          /\ stream'[Len(stream) + 1] = n
      BY <2>2, <2>4, <3>1, AppendProperties
    <3> QED BY <3>1, <3>2, DomainOfSeq
  <2>6. \A i \in DOMAIN stream' : (i \in DOMAIN stream /\ stream'[i] = stream[i]) \/ stream'[i] = n
    BY <2>5
  <2>7. \A j \in posts : n # Answer(j)
    <3>1. \A j \in posts : j \in 1..MaxTurns /\ j # turn
      BY <1>0 DEF TurnInv
    <3> QED BY <2>1, <2>3, <3>1, TurnItems
  <2>8. \A i \in DOMAIN stream' : ~IsUser(stream'[i]) /\ stream'[i] <= 2 * turns
    BY <2>4, <2>6 DEF TurnInv
  <2>9. \A j \in posts, i \in DOMAIN stream' : stream'[i] # Answer(j)
    BY <2>6, <2>7 DEF TurnInv
  <2> QED BY <2>2, <2>8, <2>9 DEF TurnInv, IsStored, IsUser
<1>7. CASE CodexStores
  <2>1. PICK L : L = Len(store)
    OBVIOUS
  <2>2. PICK n : n = Answer(turn)
    OBVIOUS
  <2>3. /\ turn \in 1..MaxTurns /\ turn' = 0 /\ spoken' = 0
        /\ UNCHANGED <<turns, posts, asking, stream>>
        /\ L \in Nat /\ DOMAIN store = 1..L
        /\ DOMAIN store' = 1..(L + 1)
        /\ \A k \in DOMAIN store : store'[k] = store[k]
        /\ store'[L + 1].item = n
    BY <1>7, <2>1, <2>2, AnswerStep, StoreFacts DEF TypeOK
  <2>4. ASSUME NEW k \in DOMAIN store'
        PROVE  \/ k \in DOMAIN store /\ store'[k].item = store[k].item
               \/ k = L + 1 /\ store'[k].item = n
    BY <2>3
  <2>5. \A k \in DOMAIN store : store[k].item # n
    BY <2>2, <2>3 DEF IsStored, TurnInv
  <2>6. \A k, m \in DOMAIN store' : store'[k].item = store'[m].item => k = m
    BY <2>4, <2>5 DEF TurnInv
  <2>7. n <= 2 * turns
    BY <1>0, <2>2 DEF Answer
  <2>8. \A k \in DOMAIN store' : store'[k].item <= 2 * turns
    BY <2>4, <2>7 DEF TurnInv
  <2>9. ASSUME NEW j \in posts
        PROVE  ~IsStored(Question(j))' /\ ~IsStored(Answer(j))'
    <3>1. j \in 1..MaxTurns /\ j # turn /\ ~IsStored(Question(j)) /\ ~IsStored(Answer(j))
      BY <1>0 DEF TurnInv
    <3>2. Question(j) # n /\ Answer(j) # n
      BY <2>2, <2>3, <3>1, TurnItems
    <3>3. \A k \in DOMAIN store' : store'[k].item # Question(j) /\ store'[k].item # Answer(j)
      BY <2>4, <3>1, <3>2 DEF IsStored
    <3> QED BY <3>3 DEF IsStored
  <2>10. turn' \notin posts' /\ turn' <= turns'
    BY <1>0, <2>3
  <2> QED BY <2>3, <2>6, <2>8, <2>9, <2>10 DEF TurnInv, IsUser
<1>8. CASE CodexDrops
  <2>1. /\ turn' = 0 /\ spoken' = 0 /\ UNCHANGED <<store, turns, posts, asking, stream>>
    BY <1>8 DEF CodexDrops
  <2>2. turn' \notin posts' /\ turn' <= turns'
    BY <1>0, <2>1
  <2> QED BY <2>1, <2>2 DEF TurnInv, IsStored, IsUser
<1>9. CASE OnDelta
  <2>1. stream # <<>> /\ stream' = Tail(stream)
        /\ UNCHANGED <<store, turns, turn, spoken, posts, asking>>
    BY <1>9, DeltaStep DEF serverVars
  <2>2. \A i \in DOMAIN stream' : stream'[i] = stream[i + 1] /\ i + 1 \in DOMAIN stream
    BY <2>1, DeltaFacts DEF TypeOK
  <2>3. /\ \A i \in DOMAIN stream' : ~IsUser(stream'[i]) /\ stream'[i] <= 2 * turns
        /\ \A j \in posts, i \in DOMAIN stream' : stream'[i] # Answer(j)
    BY <2>2 DEF TurnInv
  <2> QED BY <2>1, <2>3 DEF TurnInv, IsStored, IsUser
<1>10. CASE UNCHANGED <<serverVars, stream>>
  BY <1>10 DEF TurnInv, IsStored, IsUser, serverVars
<1>11. ASSUME NEW p \in DOMAIN pages,
              ListThreadMessages(p) \/ OnFirstPage(p) \/ OnMorePage(p) \/ OnPageFailed(p)
       PROVE  UNCHANGED <<serverVars, stream>>
  BY <1>11 DEF ListThreadMessages, OnFirstPage, OnMorePage, OnPageFailed
<1>12. AskFirst \/ AskMore \/ AskMoreElsewhere \/ MoreElsewhereOver \/ UNCHANGED vars
         => UNCHANGED <<serverVars, stream>>
  BY DEF AskFirst, AskMore, AskMoreElsewhere, MoreElsewhereOver, vars
<1> QED BY <1>1, <1>2, <1>4, <1>5, <1>6, <1>7, <1>8, <1>9, <1>10, <1>11, <1>12 DEF Next

LEMMA PageInit == Init => PageInv
<1> SUFFICES ASSUME Init PROVE PageInv
  OBVIOUS
<1>1. cursor = 0 /\ pages = <<>>
  BY DEF Init
<1>2. DOMAIN pages = {}
  BY <1>1
<1> QED BY <1>1, <1>2 DEF PageInv, Cursor

LEMMA PageStep == TypeOK /\ TypeOK' /\ PageInv /\ [Next]_vars => PageInv'
<1> SUFFICES ASSUME TypeOK, TypeOK', PageInv, [Next]_vars PROVE PageInv'
  OBVIOUS
<1> USE Constants
<1>1. PICK L : L = Len(store)
  OBVIOUS
<1>2. PICK M : M = Len(store')
  OBVIOUS
<1>3. /\ L \in Nat /\ M \in Nat /\ L <= M /\ cursor \in Nat
      /\ DOMAIN store = 1..L
      /\ \A k \in 1..L : store'[k] = store[k]
  BY <1>1, <1>2, StoreGrows DEF TypeOK
<1>4. loaded => loaded'
  BY DEF Next, Send, SendFails, CodexStarts, StartsElsewhere, Starts, CodexSpeaks, CodexStores,
         CodexDrops, OnDelta, AskFirst, AskMore, AskMoreElsewhere, MoreElsewhereOver,
         ListThreadMessages, OnFirstPage, OnMorePage, OnPageFailed, vars, listVars
<1>5. \A c \in Nat : Cursor(c) => Cursor(c)'
  BY <1>1, <1>2, <1>3 DEF Cursor
<1>6. \A P \in Pages : PageOK(P) => PageOK(P)'
  <2> SUFFICES ASSUME NEW P \in Pages, PageOK(P) PROVE PageOK(P)'
    OBVIOUS
  <2>1. P.cursor \in Nat /\ P.next \in Nat /\ P.data \in Seq(Messages)
    BY DEF Pages
  <2>2. Len(P.data) \in Nat /\ DOMAIN P.data = 1..Len(P.data)
    BY <2>1, DomainOfSeq
  <2>3. ASSUME Answered(P)
        PROVE  Answered(P)'
    <3>1. \A m \in DOMAIN P.data : P.next + m \in 1..L
      BY <1>1, <1>3, <2>1, <2>2, <2>3 DEF Answered
    <3>2. \A m \in DOMAIN P.data : P.data[m] =
            Message(store'[P.next + m].item, "history", store'[P.next + m].text)
      BY <1>3, <2>3, <3>1 DEF Answered
    <3>3. P.next + Len(P.data) <= M
      BY <1>1, <1>3, <2>1, <2>2, <2>3 DEF Answered
    <3>4. Cursor(P.next)'
      BY <1>5, <2>1, <2>3 DEF Answered
    <3> QED BY <1>2, <2>3, <3>2, <3>3, <3>4 DEF Answered, Message
  <2> QED BY <1>4, <1>5, <2>1, <2>3 DEF PageOK
<1>7. \A p \in DOMAIN pages : pages[p] \in Pages /\ PageOK(pages[p])
  BY SMTT(30), DomainOfSeq DEF TypeOK, PageInv
<1>8. \A q \in DOMAIN pages' : pages'[q] \in Pages
  BY SMTT(30), DomainOfSeq DEF TypeOK
<1>9. ASSUME NEW q \in DOMAIN pages', \E n \in DOMAIN pages : pages'[q] = pages[n]
      PROVE  PageOK(pages[q])'
  <2>1. PICK P : P = pages'[q]
    OBVIOUS
  <2>2. P \in Pages /\ PageOK(P)
    BY <1>7, <1>9, <2>1
  <2>3. PageOK(P)'
    BY <1>6, <2>2
  <2> QED BY <2>1, <2>3 DEF PageOK, Answered
<1>10. CASE UNCHANGED <<cursor, loaded, pages>>
  <2>1. \A q \in DOMAIN pages' : PageOK(pages[q])'
    BY <1>9, <1>10
  <2> QED BY <1>3, <1>5, <1>10, <2>1 DEF PageInv
<1>11. ASSUME NEW kind \in {"first", "more"}, NEW c \in Nat, Ask(kind, c), Cursor(c),
              kind = "more" => loaded /\ c # 0, UNCHANGED <<cursor, loaded>>
       PROVE  PageInv'
  <2>1. ASSUME NEW q \in DOMAIN pages'
        PROVE  PageOK(pages[q])'
    <3>1. CASE pages'[q].kind = kind /\ pages'[q].at = "asked" /\ pages'[q].cursor = c
      <4>1. Cursor(c)'
        BY <1>5, <1>11
      <4>2. Cursor(pages[q].cursor)'
        BY <3>1, <4>1 DEF Cursor
      <4> QED BY <1>4, <1>11, <3>1, <4>2 DEF PageOK
    <3> QED BY SMTT(30), <1>9, <1>11, <3>1, AskFacts DEF TypeOK
  <2> QED BY <1>3, <1>5, <1>11, <2>1 DEF PageInv
<1>12. CASE AskFirst
  BY <1>11, <1>12 DEF AskFirst, Cursor, listVars
<1>13. CASE AskMore
  BY <1>3, <1>11, <1>13 DEF AskMore, PageInv, listVars
<1>14. ASSUME NEW p \in DOMAIN pages, ListThreadMessages(p)
       PROVE  PageInv'
  <2>1. /\ DOMAIN pages' = DOMAIN pages
        /\ \A q \in DOMAIN pages :
             /\ pages'[q].kind = pages[q].kind
             /\ pages'[q].cursor = pages[q].cursor
             /\ q # p => pages'[q] = pages[q]
        /\ pages'[p].data = PageData(pages[p].cursor)
        /\ pages'[p].next = PageStart(pages[p].cursor)
    BY <1>14, AnswerFacts DEF TypeOK
  <2>2. UNCHANGED <<store, cursor, loaded>>
    BY <1>14 DEF ListThreadMessages, serverVars, listVars
  <2>3. PICK c : c = pages[p].cursor
    OBVIOUS
  <2>4. PICK d : d = PageData(c)
    OBVIOUS
  <2>5. PICK x : x = PageStart(c)
    OBVIOUS
  <2>6. c \in Nat /\ Cursor(c) /\ (pages[p].kind = "more" => loaded /\ c # 0)
    BY <1>7, <2>3 DEF Pages, PageOK
  <2>7. /\ x + Len(d) <= Len(store)
        /\ Cursor(x)
        /\ c # 0 /\ c < Len(store) => x + Len(d) = c
        /\ d = <<>> => x = 0
        /\ \A m \in DOMAIN d : d[m] = Message(store[x + m].item, "history", store[x + m].text)
    BY <2>4, <2>5, <2>6, PageFacts DEF TypeOK
  <2>8. PICK P : P = pages'[p]
    OBVIOUS
  <2>9. P.data = d /\ P.next = x /\ P.cursor = c /\ P.kind = pages[p].kind
    BY <2>1, <2>3, <2>4, <2>5, <2>8
  <2>10. Answered(P)
    BY <2>6, <2>7, <2>9 DEF Answered, Cursor
  <2>11. PageOK(P)
    BY <2>6, <2>9, <2>10 DEF PageOK
  <2>12. PageOK(P)'
    BY <1>6, <1>8, <2>1, <2>8, <2>11
  <2>13. PageOK(pages[p])'
    BY <2>8, <2>12 DEF PageOK, Answered
  <2>14. \A q \in DOMAIN pages' : PageOK(pages[q])'
    BY <1>9, <2>1, <2>13
  <2> QED BY <1>3, <1>5, <2>2, <2>14 DEF PageInv
<1>15. ASSUME NEW p \in DOMAIN pages, OnFirstPage(p) \/ OnMorePage(p)
       PROVE  PageInv'
  <2>1. /\ pages[p].at = "answered" /\ cursor' = pages[p].next /\ Finish(p)
        /\ cursor' # 0 => loaded'
    BY <1>7, <1>15 DEF OnFirstPage, OnMorePage, PageOK
  <2>2. Cursor(pages[p].next) /\ pages[p].next \in Nat
    BY <1>7, <2>1 DEF PageOK, Answered, Pages
  <2>3. Cursor(cursor)'
    BY <1>5, <2>1, <2>2 DEF Cursor
  <2>4. \A q \in DOMAIN pages' : PageOK(pages[q])'
    BY <1>9, <2>1, FinishFacts DEF TypeOK
  <2> QED BY <2>1, <2>3, <2>4 DEF PageInv
<1>16. ASSUME NEW p \in DOMAIN pages, OnPageFailed(p)
       PROVE  PageInv'
  <2>1. UNCHANGED <<cursor, loaded>> /\ Finish(p)
    BY <1>16 DEF OnPageFailed, listVars
  <2>2. \A q \in DOMAIN pages' : PageOK(pages[q])'
    BY <1>9, <2>1, FinishFacts DEF TypeOK
  <2> QED BY <1>3, <1>5, <2>1, <2>2 DEF PageInv
<1>17. Send \/ SendFails \/ (\E j \in posts : CodexStarts(j)) \/ StartsElsewhere \/ CodexSpeaks
         \/ CodexStores \/ CodexDrops \/ OnDelta \/ AskMoreElsewhere \/ MoreElsewhereOver
         \/ UNCHANGED vars => UNCHANGED <<cursor, loaded, pages>>
  BY DEF Send, SendFails, CodexStarts, StartsElsewhere, Starts, CodexSpeaks, CodexStores,
         CodexDrops, OnDelta, AskMoreElsewhere, MoreElsewhereOver, vars, listVars, pageVars
<1> QED BY <1>10, <1>12, <1>13, <1>14, <1>15, <1>16, <1>17 DEF Next

-----------------------------------------------------------------------------
(* The list holds no message twice                                          *)

(* Facts of a state, by type.                                               *)
LEMMA StateFacts ==
  ASSUME TypeOK
  PROVE  /\ Len(store) \in Nat /\ DOMAIN store = 1..Len(store)
         /\ cursor \in Nat /\ turns \in Nat /\ turn \in Nat
         /\ \A k \in DOMAIN store : /\ store[k].item \in Items
                                    /\ store[k].item \in Nat
                                    /\ store[k].text \in Nat \ {0}
         /\ Len(stream) \in Nat /\ DOMAIN stream = 1..Len(stream)
         /\ \A i \in DOMAIN stream : stream[i] \in Items /\ stream[i] \in Nat
         /\ Len(list) \in Nat /\ DOMAIN list = 1..Len(list)
         /\ \A m \in DOMAIN list :
              /\ list[m] \in Messages
              /\ list[m].item \in Items
              /\ list[m].item \in Nat
              /\ list[m].id \in {"history", "live"}
              /\ list[m].text \in Nat \ {0}
         /\ \A p \in DOMAIN pages :
              /\ pages[p] \in Pages
              /\ pages[p].cursor \in Nat
              /\ pages[p].next \in Nat
              /\ pages[p].data \in Seq(Messages)
              /\ Len(pages[p].data) \in Nat
              /\ DOMAIN pages[p].data = 1..Len(pages[p].data)
<1>1. \A m \in DOMAIN list : list[m] \in Messages
  BY DomainOfSeq DEF TypeOK
<1>2. \A p \in DOMAIN pages : pages[p] \in Pages
  BY DomainOfSeq DEF TypeOK
<1>3. \A p \in DOMAIN pages : /\ pages[p].cursor \in Nat
                              /\ pages[p].next \in Nat
                              /\ pages[p].data \in Seq(Messages)
  BY <1>2 DEF Pages
<1>4. Len(list) \in Nat /\ DOMAIN list = 1..Len(list)
  BY DomainOfSeq DEF TypeOK
<1>5. \A p \in DOMAIN pages : /\ Len(pages[p].data) \in Nat
                              /\ DOMAIN pages[p].data = 1..Len(pages[p].data)
  BY <1>3, DomainOfSeq
<1>6. \A m \in DOMAIN list : /\ list[m].item \in Items
                             /\ list[m].id \in {"history", "live"}
                             /\ list[m].text \in Nat \ {0}
  BY <1>1 DEF Messages
<1>7. \A m \in DOMAIN list : list[m].item \in Nat
  BY <1>6, ItemsType
<1>8. /\ Len(store) \in Nat /\ DOMAIN store = 1..Len(store)
      /\ \A k \in DOMAIN store : store[k].item \in Items /\ store[k].text \in Nat \ {0}
  BY StoreFacts DEF TypeOK
<1>9. \A k \in DOMAIN store : store[k].item \in Nat
  BY <1>8, ItemsType
<1>10. stream \in Seq(Items)
  BY DEF TypeOK
<1>11. /\ Len(stream) \in Nat /\ DOMAIN stream = 1..Len(stream)
       /\ \A i \in DOMAIN stream : stream[i] \in Items
  BY <1>10, DomainOfSeq
<1>12. \A i \in DOMAIN stream : stream[i] \in Nat
  BY <1>11, ItemsType
<1>13. cursor \in Nat /\ turns \in Nat /\ turn \in Nat
  BY Constants DEF TypeOK
<1> QED BY <1>1, <1>2, <1>3, <1>4, <1>5, <1>6, <1>7, <1>8, <1>9, <1>11, <1>12, <1>13

(* What a page that was answered holds.                                     *)
LEMMA AnsweredFacts ==
  ASSUME TypeOK, PageInv, NEW p \in DOMAIN pages, pages[p].at = "answered"
  PROVE  /\ pages[p].data \in Seq(Messages) /\ pages[p].next \in Nat
         /\ Len(pages[p].data) \in Nat
         /\ DOMAIN pages[p].data = 1..Len(pages[p].data)
         /\ \A m \in DOMAIN pages[p].data :
              /\ pages[p].next + m \in DOMAIN store
              /\ pages[p].data[m].item = store[pages[p].next + m].item
              /\ pages[p].data[m].item \in Items
              /\ pages[p].data[m].id = "history"
              /\ pages[p].data[m].text = store[pages[p].next + m].text
         /\ pages[p].next + Len(pages[p].data) <= Len(store)
         /\ Cursor(pages[p].next)
         /\ pages[p].kind = "more" => pages[p].next + Len(pages[p].data) = pages[p].cursor
         /\ pages[p].data = <<>> => pages[p].next = 0
<1>1. Answered(pages[p])
  BY DEF PageInv, PageOK
<1>2. PICK data : data = pages[p].data
  OBVIOUS
<1>3. PICK next : next = pages[p].next
  OBVIOUS
<1>4. /\ data \in Seq(Messages) /\ next \in Nat
      /\ Len(data) \in Nat /\ DOMAIN data = 1..Len(data)
      /\ Len(store) \in Nat /\ DOMAIN store = 1..Len(store)
  BY <1>2, <1>3, StateFacts
<1>5. /\ \A m \in DOMAIN data :
           data[m] = Message(store[next + m].item, "history", store[next + m].text)
      /\ next + Len(data) <= Len(store)
      /\ Cursor(next)
      /\ pages[p].kind = "more" => next + Len(data) = pages[p].cursor
      /\ data = <<>> => next = 0
  BY <1>1, <1>2, <1>3 DEF Answered
<1>6. ASSUME NEW m \in DOMAIN data
      PROVE  /\ next + m \in DOMAIN store
             /\ data[m].item = store[next + m].item
             /\ data[m].item \in Items
             /\ data[m].id = "history"
             /\ data[m].text = store[next + m].text
  <2>1. next + m \in DOMAIN store
    BY <1>4, <1>5
  <2>2. store[next + m].item \in Items /\ store[next + m].text \in Nat \ {0}
    BY <2>1, StateFacts
  <2> QED BY <1>5, <2>1, <2>2, MessageType
<1> QED BY <1>2, <1>3, <1>4, <1>5, <1>6

(* The ids after a page, and the list after an older page.                  *)
LEMMA IdsStep ==
  ASSUME TypeOK, NEW data, idOf' = WithIds(data)
  PROVE  /\ \A n \in Items :
              /\ idOf[n] # "none" => idOf'[n] # "none"
              /\ (\A m \in DOMAIN data : data[m].item # n) => idOf'[n] = idOf[n]
         /\ \A m \in DOMAIN data : data[m].item \in Items /\ ~IsUser(data[m].item) =>
              idOf'[data[m].item] = "history"
<1>1. idOf \in [Items -> {"none", "history", "live"}]
  BY DEF TypeOK
<1> QED BY <1>1, IdsFacts

LEMMA MergeStep ==
  ASSUME TypeOK, NEW data \in Seq(Messages), list' = MergeUnique(data, list),
         NEW K, K = Unseen(data, list), NEW kept, kept = Subsequence(list, K)
  PROVE  /\ K \in SUBSET (DOMAIN list)
         /\ list' \in Seq(Messages)
         /\ kept \in Seq(Messages)
         /\ Len(kept) \in Nat
         /\ \A k \in 1..Len(kept) : \E i \in K : Rank(i, K) = k /\ kept[k] = list[i]
         /\ Len(list') = Len(data) + Len(kept)
         /\ DOMAIN list' = 1..(Len(data) + Len(kept))
         /\ \A m \in DOMAIN list' : list'[m] =
              IF m <= Len(data) THEN data[m] ELSE kept[m - Len(data)]
<1>1. list \in Seq(Messages)
  BY DEF TypeOK
<1>2. /\ K \in SUBSET (DOMAIN list)
      /\ kept \in Seq(Messages)
      /\ list' \in Seq(Messages)
      /\ Len(list') = Len(data) + Len(kept)
      /\ \A m \in DOMAIN list' : list'[m] =
           IF m <= Len(data) THEN data[m] ELSE kept[m - Len(data)]
  BY <1>1, MergeFacts
<1>3. /\ Cardinality(K) \in Nat
      /\ Len(kept) = Cardinality(K)
      /\ \A k \in 1..Cardinality(K) : \E i \in K : Rank(i, K) = k /\ kept[k] = list[i]
  <2>1. /\ Cardinality(K) \in Nat
        /\ Len(Subsequence(list, K)) = Cardinality(K)
        /\ \A k \in 1..Cardinality(K) : \E i \in K :
             Rank(i, K) = k /\ Subsequence(list, K)[k] = list[i]
    <3>1. K \in SUBSET (DOMAIN list)
      BY <1>2
    <3> QED BY <1>1, <3>1, SubsequenceFacts
  <2> QED BY <2>1
<1>4. DOMAIN list' = 1..Len(list')
  BY <1>2, DomainOfSeq
<1> QED BY <1>2, <1>3, <1>4

LEMMA UniqueInit == Init => ListInv
<1> SUFFICES ASSUME Init PROVE ListInv
  OBVIOUS
<1>1. list = <<>> /\ idOf = [n \in Items |-> "none"] /\ stream = <<>> /\ overtaken = FALSE
  BY DEF Init, Items
<1>2. DOMAIN list = {} /\ DOMAIN stream = {} /\ \A n \in Items : idOf[n] = "none"
  BY <1>1
<1> QED BY <1>1, <1>2 DEF ListInv, OnceInv

(* A message is ahead of a cursor as long as it is not stored, and stays it *)
(* whatever is stored after.                                                *)
LEMMA BeforeFacts ==
  ASSUME TypeOK, NEW c \in Nat, Cursor(c)
  PROVE  /\ 1..c \subseteq DOMAIN store
         /\ \A n : ~IsStored(n) => n \notin Before(c)
<1>1. 1..c \subseteq DOMAIN store
  BY StateFacts DEF Cursor
<1> QED BY <1>1 DEF Before, IsStored

LEMMA BeforeStep ==
  ASSUME TypeOK, [Next]_vars, NEW c \in Nat, Cursor(c)
  PROVE  Before(c)' = Before(c)
<1>1. 1..c \subseteq DOMAIN store
  BY BeforeFacts
<1>2. \A k \in 1..c : store'[k].item = store[k].item
  BY <1>1, StoreGrows
<1> QED BY <1>2 DEF Before

LEMMA ListStep ==
  TypeOK /\ TypeOK' /\ TurnInv /\ PageInv /\ PageInv' /\ ListInv /\ [Next]_vars => ListInv'
<1> SUFFICES ASSUME TypeOK, TypeOK', TurnInv, PageInv, PageInv', ListInv, [Next]_vars
             PROVE  ListInv'
  OBVIOUS
<1> USE Constants
<1>0. PICK top \in Nat : top = turns'
  BY DEF TypeOK
(* The parts of the invariant, for what an action leaves alone.             *)
<1>1. ASSUME UNCHANGED <<list, idOf>>, turns <= turns',
             \A j \in posts' : j \in posts \/ j > turns
      PROVE  /\ \A m \in DOMAIN list' :
                  /\ list'[m].item <= 2 * turns'
                  /\ ~IsUser(list'[m].item) => idOf'[list'[m].item] # "none"
             /\ \A n \in Items : idOf'[n] # "none" =>
                  n <= 2 * turns' /\ \A j \in posts' : n # Answer(j)
  <2>0. PICK t \in Nat : t = turns /\ t <= top
    BY <1>0, <1>1, StateFacts
  <2>1. ASSUME NEW n \in Nat, n <= 2 * t
        PROVE  n <= 2 * top
    BY SMTT(30), <2>0, <2>1
  <2>2. \A m \in DOMAIN list : list[m].item <= 2 * top
    <3>1. \A m \in DOMAIN list : list[m].item \in Nat /\ list[m].item <= 2 * t
      BY <2>0, StateFacts DEF ListInv
    <3> QED BY <2>1, <3>1
  <2>3. ASSUME NEW n \in Items, idOf[n] # "none"
        PROVE  n <= 2 * top /\ \A j \in posts' : n # Answer(j)
    <3>1. n \in Nat /\ n <= 2 * turns /\ \A j \in posts : n # Answer(j)
      BY <2>3, ItemsType DEF ListInv
    <3>2. ASSUME NEW j \in posts', j > turns
          PROVE  n # Answer(j)
      <4>1. j \in Nat
        BY DEF TypeOK
      <4> QED BY <3>1, <3>2, <4>1, StateFacts DEF Answer
    <3> QED BY <1>1, <2>0, <2>1, <3>1, <3>2
  <2> QED BY <1>0, <1>1, <2>2, <2>3 DEF ListInv
<1>2. ASSUME NEW n, Ahead(n), cursor' = cursor,
             \A q \in DOMAIN pages' : pages'[q].kind = "more" =>
               \/ pages'[q].cursor = cursor
               \/ \E r \in DOMAIN pages : /\ pages[r].kind = "more"
                                          /\ pages'[q].cursor = pages[r].cursor
      PROVE  Ahead(n)'
  <2>1. PICK c \in Nat : c = cursor /\ Cursor(c)
    BY DEF TypeOK, PageInv
  <2>2. n \notin Before(c)'
    BY <1>2, <2>1, BeforeStep DEF Ahead
  <2>3. ASSUME NEW q \in DOMAIN pages', pages'[q].kind = "more"
        PROVE  n \notin Before(pages[q].cursor)'
    <3>1. PICK d \in Nat : d = pages'[q].cursor /\ Cursor(d) /\ n \notin Before(d)
      <4>1. CASE pages'[q].cursor = cursor
        BY <1>2, <2>1, <4>1 DEF Ahead
      <4>2. ASSUME NEW r \in DOMAIN pages, pages[r].kind = "more",
                   pages'[q].cursor = pages[r].cursor
            PROVE  \E d \in Nat : d = pages'[q].cursor /\ Cursor(d) /\ n \notin Before(d)
        <5>1. pages[r].cursor \in Nat /\ Cursor(pages[r].cursor)
          BY StateFacts DEF PageInv, PageOK
        <5>2. n \notin Before(pages[r].cursor)
          BY <1>2, <4>2 DEF Ahead
        <5> QED BY <4>2, <5>1, <5>2
      <4> QED BY <1>2, <2>3, <4>1, <4>2
    <3>2. n \notin Before(d)'
      BY <3>1, BeforeStep
    <3> QED BY <3>1, <3>2 DEF Before
  <2> QED BY <1>2, <2>1, <2>2, <2>3 DEF Ahead, Before
<1>3. ASSUME NEW n, ~IsStored(n), UNCHANGED <<store, cursor, pages>>
      PROVE  Ahead(n)'
  <2>1. n \notin Before(cursor)
    BY <1>3, BeforeFacts DEF TypeOK, PageInv
  <2>2. \A p \in DOMAIN pages : n \notin Before(pages[p].cursor)
    <3>1. \A p \in DOMAIN pages : pages[p].cursor \in Nat /\ Cursor(pages[p].cursor)
      BY StateFacts DEF PageInv, PageOK
    <3> QED BY <1>3, <3>1, BeforeFacts
  <2> QED BY <1>3, <2>1, <2>2 DEF Ahead, Before
<1>4. ASSUME UNCHANGED <<list, idOf, cursor, loaded, stream, overtaken>>, turns <= turns',
             \A j \in posts' : j \in posts \/ j > turns,
             \A q \in DOMAIN pages' : pages'[q].kind = "more" =>
               \/ pages'[q].cursor = cursor
               \/ \E r \in DOMAIN pages : /\ pages[r].kind = "more"
                                          /\ pages'[q].cursor = pages[r].cursor
      PROVE  ListInv'
  <2>1. ASSUME ~overtaken
        PROVE  /\ \A m \in DOMAIN list : list[m].id = "live" => Ahead(list[m].item)'
               /\ \A i \in DOMAIN stream : idOf[stream[i]] = "none" => Ahead(stream[i])'
    <3>1. ASSUME NEW m \in DOMAIN list, list[m].id = "live"
          PROVE  Ahead(list[m].item)'
      <4>1. PICK n : n = list[m].item
        OBVIOUS
      <4>2. Ahead(n)'
        BY <1>2, <1>4, <2>1, <3>1, <4>1 DEF ListInv, OnceInv
      <4> QED BY <1>4, <4>1, <4>2 DEF Ahead
    <3>2. ASSUME NEW i \in DOMAIN stream, idOf[stream[i]] = "none"
          PROVE  Ahead(stream[i])'
      <4>1. PICK n : n = stream[i]
        OBVIOUS
      <4>2. Ahead(n)'
        BY <1>2, <1>4, <2>1, <3>2, <4>1 DEF ListInv, OnceInv
      <4> QED BY <1>4, <4>1, <4>2 DEF Ahead
    <3> QED BY <3>1, <3>2
  <2>2. ~overtaken' => OnceInv'
    BY <1>4, <2>1 DEF ListInv, OnceInv
  <2> QED BY <1>1, <1>4, <2>2 DEF ListInv, IsUser
<1>5. CASE UNCHANGED <<list, idOf, cursor, loaded, stream, overtaken, pages>> /\ turns <= turns'
             /\ \A j \in posts' : j \in posts \/ j > turns
  BY <1>4, <1>5
<1>6. CASE Send
  <2>1. PICK t : t = turns + 1
    OBVIOUS
  <2>2. PICK q : q = Question(t)
    OBVIOUS
  <2>3. /\ t \in 1..MaxTurns /\ turns' = t /\ posts' = posts \cup {t}
        /\ list' = Append(list, Message(q, "live", 1))
        /\ UNCHANGED <<store, stream, idOf, cursor, loaded, overtaken, pages>>
    BY <1>6, <2>1, <2>2, StateFacts DEF Send, pageVars, TypeOK
  <2>4. q \in Items /\ q \in Nat /\ IsUser(q) /\ q > 2 * turns /\ q <= 2 * t
    <3>1. q \in Items /\ IsUser(q)
      BY <2>2, <2>3, TurnItems
    <3>2. q \in Nat
      BY <3>1, ItemsType
    <3>3. q > 2 * turns /\ q <= 2 * t
      BY SMTT(30), <2>1, <2>2, <2>3, StateFacts DEF Question
    <3> QED BY <3>1, <3>2, <3>3
  <2>5. /\ DOMAIN list' = 1..(Len(list) + 1)
        /\ \A m \in DOMAIN list : list'[m] = list[m]
        /\ list'[Len(list) + 1].item = q
    BY <2>3, <2>4, AppendFacts DEF TypeOK
  <2>6. DOMAIN list = 1..Len(list) /\ Len(list) \in Nat
    BY StateFacts
  <2>7. \A m \in DOMAIN list' : \/ m \in DOMAIN list /\ list'[m] = list[m]
                                \/ m = Len(list) + 1 /\ list'[m].item = q
    BY <2>5, <2>6
  <2>8. \A m \in DOMAIN list : list[m].item <= 2 * turns /\ list[m].item \in Nat
    BY StateFacts DEF ListInv
  <2>9. \A m \in DOMAIN list : list[m].item <= 2 * t /\ list[m].item # q
    BY <2>1, <2>4, <2>8, StateFacts
  <2>10. \A m \in DOMAIN list' :
           /\ list'[m].item <= 2 * t
           /\ ~IsUser(list'[m].item) => idOf'[list'[m].item] # "none"
    BY <2>3, <2>4, <2>7, <2>9 DEF ListInv
  <2>11. ASSUME NEW n \in Items, idOf[n] # "none"
         PROVE  n <= 2 * t /\ \A j \in posts' : n # Answer(j)
    <3>1. n \in Nat /\ n <= 2 * turns /\ \A j \in posts : n # Answer(j)
      BY <2>11, ItemsType DEF ListInv
    <3>2. n <= 2 * t /\ n # Answer(t)
      BY <2>1, <3>1, StateFacts DEF Answer
    <3> QED BY <2>3, <3>1, <3>2
  <2>12. ASSUME ~overtaken
         PROVE  OnceInv'
    <3>1. OnceInv
      BY <2>12 DEF ListInv
    <3>2. \A m, n \in DOMAIN list' : list'[m].item = list'[n].item => m = n
      BY <2>7, <2>9, <3>1 DEF OnceInv
    <3>3. ~IsStored(q)
      BY <2>4, StateFacts DEF IsStored, TurnInv
    <3>4. Ahead(q)'
      BY <1>3, <2>3, <3>3
    <3>5. \A n : Ahead(n) => Ahead(n)'
      BY <2>3 DEF Ahead, Before
    <3>6. \A m \in DOMAIN list' : list'[m].id = "live" => Ahead(list[m].item)'
      <4>1. ASSUME NEW m \in DOMAIN list', list'[m].id = "live"
            PROVE  Ahead(list[m].item)'
        <5>1. PICK n : n = list'[m].item
          OBVIOUS
        <5>2. Ahead(n)'
          BY <2>7, <3>1, <3>4, <3>5, <4>1, <5>1 DEF OnceInv
        <5> QED BY <5>1, <5>2 DEF Ahead
      <4> QED BY <4>1
    <3>7. \A i \in DOMAIN stream' : idOf'[stream'[i]] = "none" => Ahead(stream[i])'
      <4>1. ASSUME NEW i \in DOMAIN stream', idOf'[stream'[i]] = "none"
            PROVE  Ahead(stream[i])'
        <5>1. PICK n : n = stream[i]
          OBVIOUS
        <5>2. Ahead(n)'
          BY <2>3, <3>1, <3>5, <4>1, <5>1 DEF OnceInv
        <5> QED BY <2>3, <5>1, <5>2 DEF Ahead
      <4> QED BY <4>1
    <3> QED BY <3>2, <3>6, <3>7 DEF OnceInv
  <2> QED BY <2>3, <2>10, <2>11, <2>12 DEF ListInv, IsUser
<1>7. CASE OnDelta
  <2>1. PICK n : n = Head(stream)
    OBVIOUS
  <2>2. /\ stream # <<>> /\ n \in Items /\ stream' = Tail(stream)
        /\ UNCHANGED <<store, turns, posts, cursor, loaded, overtaken, pages>>
    BY <1>7, <2>1, DeltaStep DEF serverVars, pageVars, historyVars
  <2>3. 1 \in DOMAIN stream /\ n = stream[1]
        /\ \A i \in DOMAIN stream' : stream'[i] = stream[i + 1] /\ i + 1 \in DOMAIN stream
    BY <2>1, <2>2, DeltaFacts DEF TypeOK
  <2>4. ~IsUser(n) /\ n <= 2 * turns /\ \A j \in posts : n # Answer(j)
    BY <2>3 DEF TurnInv
  <2>5. \A k : Ahead(k) => Ahead(k)'
    BY <2>2 DEF Ahead, Before
  <2>6. CASE idOf[n] # "none"
    <3>1. /\ idOf' = idOf /\ DOMAIN list' = DOMAIN list
          /\ \A m \in DOMAIN list : list'[m].item = list[m].item /\ list'[m].id = list[m].id
      BY <1>7, <2>1, <2>6, DeltaStep
    <3>2. \A m \in DOMAIN list' :
            /\ list'[m].item <= 2 * turns
            /\ ~IsUser(list'[m].item) => idOf'[list'[m].item] # "none"
      BY <3>1 DEF ListInv
    <3>3. \A k \in Items : idOf'[k] # "none" => k <= 2 * turns /\ \A j \in posts : k # Answer(j)
      BY <3>1 DEF ListInv
    <3>4. ASSUME ~overtaken
          PROVE  OnceInv'
      <4>1. OnceInv
        BY <3>4 DEF ListInv
      <4>2. \A a, b \in DOMAIN list' : list'[a].item = list'[b].item => a = b
        BY <3>1, <4>1 DEF OnceInv
      <4>3. ASSUME NEW m \in DOMAIN list', list'[m].id = "live"
            PROVE  Ahead(list[m].item)'
        <5>1. PICK k : k = list'[m].item
          OBVIOUS
        <5>2. Ahead(k)'
          BY <2>5, <3>1, <4>1, <4>3, <5>1 DEF OnceInv
        <5> QED BY <5>1, <5>2 DEF Ahead
      <4>4. ASSUME NEW i \in DOMAIN stream', idOf'[stream'[i]] = "none"
            PROVE  Ahead(stream[i])'
        <5>1. PICK k : k = stream'[i]
          OBVIOUS
        <5>2. Ahead(k)'
          BY <2>3, <2>5, <3>1, <4>1, <4>4, <5>1 DEF OnceInv
        <5> QED BY <5>1, <5>2 DEF Ahead
      <4> QED BY <4>2, <4>3, <4>4 DEF OnceInv
    <3> QED BY <2>2, <3>2, <3>3, <3>4 DEF ListInv, IsUser
  <2>7. CASE idOf[n] = "none"
    <3>1. list' = Append(list, Message(n, "live", 1)) /\ idOf' = [idOf EXCEPT ![n] = "live"]
      BY <1>7, <2>1, <2>7, DeltaStep
    <3>2. /\ DOMAIN list' = 1..(Len(list) + 1)
          /\ \A m \in DOMAIN list : list'[m] = list[m]
          /\ list'[Len(list) + 1].item = n
      BY <2>2, <3>1, AppendFacts DEF TypeOK
    <3>3. DOMAIN list = 1..Len(list) /\ Len(list) \in Nat
      BY StateFacts
    <3>4. \A m \in DOMAIN list' : \/ m \in DOMAIN list /\ list'[m] = list[m]
                                  \/ m = Len(list) + 1 /\ list'[m].item = n
      BY <3>2, <3>3
    <3>5. \A k \in Items : idOf'[k] = IF k = n THEN "live" ELSE idOf[k]
      BY <3>1 DEF TypeOK
    <3>6. \A m \in DOMAIN list : list[m].item # n
      BY <2>4, <2>7 DEF ListInv
    <3>7. \A m \in DOMAIN list' :
            /\ list'[m].item <= 2 * turns
            /\ ~IsUser(list'[m].item) => idOf'[list'[m].item] # "none"
      <4>1. \A m \in DOMAIN list : idOf'[list[m].item] = idOf[list[m].item]
        BY <3>5, <3>6, StateFacts
      <4>2. idOf'[n] # "none"
        BY <2>2, <3>5
      <4> QED BY <2>4, <3>4, <4>1, <4>2 DEF ListInv
    <3>8. \A k \in Items : idOf'[k] # "none" => k <= 2 * turns /\ \A j \in posts : k # Answer(j)
      BY <2>4, <3>5 DEF ListInv
    <3>9. ASSUME ~overtaken
          PROVE  OnceInv'
      <4>1. OnceInv
        BY <3>9 DEF ListInv
      <4>2. \A a, b \in DOMAIN list' : list'[a].item = list'[b].item => a = b
        BY <3>4, <3>6, <4>1 DEF OnceInv
      <4>3. Ahead(n)'
        BY <2>3, <2>5, <2>7, <4>1 DEF OnceInv
      <4>4. ASSUME NEW m \in DOMAIN list', list'[m].id = "live"
            PROVE  Ahead(list[m].item)'
        <5>1. PICK k : k = list'[m].item
          OBVIOUS
        <5>2. Ahead(k)'
          BY <2>5, <3>4, <4>1, <4>3, <4>4, <5>1 DEF OnceInv
        <5> QED BY <5>1, <5>2 DEF Ahead
      <4>5. ASSUME NEW i \in DOMAIN stream', idOf'[stream'[i]] = "none"
            PROVE  Ahead(stream[i])'
        <5>1. PICK k : k = stream'[i]
          OBVIOUS
        <5>2. i + 1 \in DOMAIN stream /\ k = stream[i + 1] /\ k \in Items
          BY <2>3, <5>1, StateFacts
        <5>3. idOf[k] = "none"
          BY <2>7, <3>5, <4>5, <5>1, <5>2
        <5>4. Ahead(k)'
          BY <2>5, <4>1, <5>2, <5>3 DEF OnceInv
        <5> QED BY <5>1, <5>4 DEF Ahead
      <4> QED BY <4>2, <4>4, <4>5 DEF OnceInv
    <3> QED BY <2>2, <3>7, <3>8, <3>9 DEF ListInv, IsUser
  <2> QED BY <2>6, <2>7
<1>8. CASE CodexSpeaks
  <2>1. PICK n : n = Answer(turn)
    OBVIOUS
  <2>2. /\ turn # 0 /\ stream' = Append(stream, n)
        /\ UNCHANGED <<store, turns, posts, list, idOf, cursor, loaded, overtaken, pages>>
    BY <1>8, <2>1 DEF CodexSpeaks, listVars, pageVars, historyVars
  <2>3. turn \in 1..MaxTurns
    BY <2>2 DEF TypeOK
  <2>4. n \in Items /\ ~IsStored(n)
    BY <2>1, <2>2, <2>3, TurnItems DEF TurnInv
  <2>5. \A i \in DOMAIN stream' : (i \in DOMAIN stream /\ stream'[i] = stream[i]) \/ stream'[i] = n
    <3>1. stream \in Seq(Items) /\ DOMAIN stream = 1..Len(stream) /\ Len(stream) \in Nat
      BY StateFacts DEF TypeOK
    <3>2. /\ stream' \in Seq(Items)
          /\ Len(stream') = Len(stream) + 1
          /\ \A i \in 1..Len(stream) : stream'[i] = stream[i]
          /\ stream'[Len(stream) + 1] = n
      BY <2>2, <2>4, <3>1, AppendProperties
    <3>3. DOMAIN stream' = 1..(Len(stream) + 1)
      BY <3>2, DomainOfSeq
    <3> QED BY <3>1, <3>2, <3>3
  <2>6. /\ \A m \in DOMAIN list' :
             /\ list'[m].item <= 2 * turns'
             /\ ~IsUser(list'[m].item) => idOf'[list'[m].item] # "none"
        /\ \A k \in Items : idOf'[k] # "none" =>
             k <= 2 * turns' /\ \A j \in posts' : k # Answer(j)
    BY <2>2 DEF ListInv, IsUser
  <2>7. ASSUME ~overtaken
        PROVE  OnceInv'
    <3>1. OnceInv
      BY <2>7 DEF ListInv
    <3>2. \A k : Ahead(k) => Ahead(k)'
      BY <2>2 DEF Ahead, Before
    <3>3. Ahead(n)'
      BY <1>3, <2>2, <2>4
    <3>4. ASSUME NEW m \in DOMAIN list', list'[m].id = "live"
          PROVE  Ahead(list[m].item)'
      <4>1. PICK k : k = list[m].item
        OBVIOUS
      <4>2. Ahead(k)'
        BY <2>2, <3>1, <3>2, <3>4, <4>1 DEF OnceInv
      <4> QED BY <2>2, <4>1, <4>2 DEF Ahead
    <3>5. ASSUME NEW i \in DOMAIN stream', idOf'[stream'[i]] = "none"
          PROVE  Ahead(stream[i])'
      <4>1. PICK k : k = stream'[i]
        OBVIOUS
      <4>2. Ahead(k)'
        BY <2>2, <2>5, <3>1, <3>2, <3>3, <3>5, <4>1 DEF OnceInv
      <4> QED BY <4>1, <4>2 DEF Ahead
    <3>6. \A a, b \in DOMAIN list' : list'[a].item = list'[b].item => a = b
      BY <2>2, <3>1 DEF OnceInv
    <3> QED BY <3>4, <3>5, <3>6 DEF OnceInv
  <2> QED BY <2>2, <2>6, <2>7 DEF ListInv, IsUser
<1>9. CASE SendFails \/ (\E j \in posts : CodexStarts(j)) \/ CodexStores \/ CodexDrops
  <2>1. /\ UNCHANGED <<list, idOf, cursor, loaded, stream, overtaken, pages, turns>>
        /\ posts' \subseteq posts
    BY <1>9 DEF SendFails, CodexStarts, Starts, CodexStores, CodexDrops, listVars, pageVars,
                historyVars
  <2>2. turns <= turns'
    BY <2>1, StateFacts
  <2> QED BY <1>5, <2>1, <2>2
<1>10. CASE StartsElsewhere
  <2>1. /\ UNCHANGED <<list, idOf, cursor, loaded, stream, overtaken, pages, posts>>
        /\ turns' = turns + 1
    BY <1>10 DEF StartsElsewhere, Starts, listVars, pageVars
  <2>2. turns <= turns'
    BY <2>1, StateFacts
  <2> QED BY <1>5, <2>1, <2>2
<1>11. CASE AskFirst \/ AskMore
  <2>1. UNCHANGED <<list, idOf, cursor, loaded, stream, overtaken, turns, posts>>
    BY <1>11 DEF AskFirst, AskMore, listVars, serverVars, historyVars
  <2>2. ASSUME NEW q \in DOMAIN pages', pages'[q].kind = "more"
        PROVE  \/ pages'[q].cursor = cursor
               \/ \E n \in DOMAIN pages : /\ pages[n].kind = "more"
                                          /\ pages'[q].cursor = pages[n].cursor
    <3>1. CASE AskFirst
      <4>1. Ask("first", 0)
        BY <3>1 DEF AskFirst
      <4>2. \/ \E n \in DOMAIN pages : pages'[q] = pages[n]
            \/ pages'[q].kind = "first"
        BY <4>1, AskFacts DEF TypeOK
      <4> QED BY <2>2, <4>2
    <3>2. CASE AskMore
      <4>1. Ask("more", cursor) /\ cursor \in Nat
        BY <3>2 DEF AskMore, TypeOK
      <4> QED BY SMTT(30), <2>2, <4>1, AskFacts DEF TypeOK
    <3> QED BY <1>11, <3>1, <3>2
  <2>3. turns <= turns'
    BY <2>1, StateFacts
  <2> QED BY <1>4, <2>1, <2>2, <2>3
<1>12. CASE AskMoreElsewhere \/ MoreElsewhereOver \/ UNCHANGED vars
  <2>1. UNCHANGED <<list, idOf, cursor, loaded, stream, overtaken, turns, posts, pages>>
    BY <1>12 DEF AskMoreElsewhere, MoreElsewhereOver, vars, listVars, serverVars, pageVars,
                 historyVars
  <2>2. turns <= turns'
    BY <2>1, StateFacts
  <2> QED BY <1>5, <2>1, <2>2
<1>13. ASSUME NEW p \in DOMAIN pages, ListThreadMessages(p)
       PROVE  ListInv'
  <2>1. UNCHANGED <<list, idOf, cursor, loaded, stream, overtaken, turns, posts>>
    BY <1>13 DEF ListThreadMessages, listVars, serverVars, historyVars
  <2>2. \A q \in DOMAIN pages' : /\ q \in DOMAIN pages
                                 /\ pages'[q].kind = pages[q].kind
                                 /\ pages'[q].cursor = pages[q].cursor
    BY <1>13, AnswerFacts DEF TypeOK
  <2>3. turns <= turns'
    BY <2>1, StateFacts
  <2> QED BY <1>4, <2>1, <2>2, <2>3
<1>14. ASSUME NEW p \in DOMAIN pages, OnPageFailed(p)
       PROVE  ListInv'
  <2>1. UNCHANGED <<list, idOf, cursor, loaded, stream, overtaken, turns, posts>> /\ Finish(p)
    BY <1>14 DEF OnPageFailed, listVars, serverVars, historyVars
  <2>2. \A q \in DOMAIN pages' : \E n \in DOMAIN pages : pages'[q] = pages[n]
    BY <2>1, FinishFacts DEF TypeOK
  <2>3. turns <= turns'
    BY <2>1, StateFacts
  <2> QED BY <1>4, <2>1, <2>2, <2>3
<1>15. ASSUME NEW p \in DOMAIN pages, pages[p].at = "answered", idOf' = WithIds(pages[p].data),
              UNCHANGED <<turns, posts>>
       PROVE  /\ \A m \in DOMAIN pages[p].data :
                   /\ pages[p].data[m].item <= 2 * turns
                   /\ ~IsUser(pages[p].data[m].item) => idOf'[pages[p].data[m].item] # "none"
              /\ \A m, n \in DOMAIN pages[p].data :
                   pages[p].data[m].item = pages[p].data[n].item => m = n
              /\ \A n \in Items : idOf'[n] # "none" =>
                   n <= 2 * turns /\ \A j \in posts : n # Answer(j)
  <2>1. PICK data : data = pages[p].data
    OBVIOUS
  <2>2. PICK next : next = pages[p].next
    OBVIOUS
  <2>3. /\ next \in Nat /\ Len(data) \in Nat /\ DOMAIN data = 1..Len(data)
        /\ \A m \in DOMAIN data : next + m \in DOMAIN store
                                  /\ data[m].item = store[next + m].item
                                  /\ data[m].item \in Items
    BY <1>15, <2>1, <2>2, AnsweredFacts
  <2>4. \A m \in DOMAIN data : data[m].item <= 2 * turns
    BY <2>3 DEF TurnInv
  <2>5. \A m \in DOMAIN data, j \in posts : data[m].item # Answer(j)
    BY <2>3 DEF TurnInv, IsStored
  <2>6. ASSUME NEW m \in DOMAIN data, NEW n \in DOMAIN data, data[m].item = data[n].item
        PROVE  m = n
    <3>1. next + m = next + n
      BY <2>3, <2>6 DEF TurnInv
    <3> QED BY <2>3, <3>1
  <2>7. \A m \in DOMAIN data : ~IsUser(data[m].item) => idOf'[data[m].item] # "none"
    BY <1>15, <2>1, <2>3, IdsStep
  <2>8. ASSUME NEW n \in Items, idOf'[n] # "none"
        PROVE  n <= 2 * turns /\ \A j \in posts : n # Answer(j)
    <3>1. CASE \E m \in DOMAIN data : data[m].item = n
      BY <2>4, <2>5, <3>1
    <3>2. CASE \A m \in DOMAIN data : data[m].item # n
      <4>1. idOf[n] # "none"
        BY <1>15, <2>1, <2>8, <3>2, IdsStep
      <4> QED BY <4>1 DEF ListInv
    <3> QED BY <3>1, <3>2
  <2> QED BY <2>1, <2>4, <2>6, <2>7, <2>8
<1>16. ASSUME NEW p \in DOMAIN pages, OnFirstPage(p)
       PROVE  ListInv'
  <2>1. PICK data : data = pages[p].data
    OBVIOUS
  <2>2. PICK next : next = pages[p].next
    OBVIOUS
  <2>3. /\ pages[p].at = "answered" /\ list' = data /\ idOf' = WithIds(data) /\ cursor' = next
        /\ overtaken' = (overtaken \/ Overtakes(data, next)) /\ loaded' = TRUE /\ Finish(p)
        /\ UNCHANGED <<store, turns, posts, stream>>
    BY <1>16, <2>1, <2>2 DEF OnFirstPage, serverVars
  <2>4. /\ \A m \in DOMAIN data :
             /\ data[m].item <= 2 * turns
             /\ ~IsUser(data[m].item) => idOf'[data[m].item] # "none"
        /\ \A m, n \in DOMAIN data : data[m].item = data[n].item => m = n
        /\ \A n \in Items : idOf'[n] # "none" =>
             n <= 2 * turns /\ \A j \in posts : n # Answer(j)
    BY <1>15, <2>1, <2>3
  <2>5. \A m \in DOMAIN data : data[m].id = "history"
    BY <2>1, <2>3, AnsweredFacts
  <2>6. ASSUME ~overtaken'
        PROVE  OnceInv'
    <3>1. OnceInv /\ ~Overtakes(data, next)
      BY <2>3, <2>6 DEF ListInv
    <3>2. ASSUME NEW i \in DOMAIN stream', idOf'[stream'[i]] = "none"
          PROVE  Ahead(stream[i])'
      <4>1. PICK k : k = stream[i]
        OBVIOUS
      <4>2. i \in DOMAIN stream /\ k \in Items
        BY <2>3, <4>1, StateFacts
      <4>3. WithIds(data)[k] = "none"
        BY <2>3, <3>2, <4>1
      <4>4. k \notin Before(next)
        BY <3>1, <4>1, <4>2, <4>3 DEF Overtakes
      <4>5. idOf[k] = "none"
        BY <2>3, <3>2, <4>1, <4>2, IdsStep
      <4>6. Ahead(k)
        BY <3>1, <4>1, <4>2, <4>5 DEF OnceInv
      <4>7. \A q \in DOMAIN pages' : \E n \in DOMAIN pages : pages'[q] = pages[n]
        BY <2>3, FinishFacts DEF TypeOK
      <4>8. \A q \in DOMAIN pages' : pages'[q].kind = "more" => k \notin Before(pages'[q].cursor)
        BY <4>6, <4>7 DEF Ahead
      <4> QED BY <2>3, <4>1, <4>4, <4>8 DEF Ahead, Before
    <3> QED BY <2>3, <2>4, <2>5, <3>2 DEF OnceInv
  <2> QED BY <2>3, <2>4, <2>6 DEF ListInv, IsUser
<1>17. ASSUME NEW p \in DOMAIN pages, OnMorePage(p)
       PROVE  ListInv'
  <2>1. PICK data : data = pages[p].data
    OBVIOUS
  <2>2. PICK next : next = pages[p].next
    OBVIOUS
  <2>3. /\ pages[p].at = "answered" /\ pages[p].kind = "more"
        /\ list' = MergeUnique(data, list) /\ idOf' = WithIds(data) /\ cursor' = next
        /\ Finish(p) /\ UNCHANGED <<store, turns, posts, stream, loaded, overtaken>>
    BY <1>17, <2>1, <2>2 DEF OnMorePage, serverVars
  <2>4. /\ data \in Seq(Messages)
        /\ next \in Nat /\ Len(data) \in Nat /\ DOMAIN data = 1..Len(data)
        /\ \A m \in DOMAIN data : /\ next + m \in DOMAIN store
                                  /\ data[m].item = store[next + m].item
                                  /\ data[m].id = "history"
        /\ next + Len(data) = pages[p].cursor
    BY <2>1, <2>2, <2>3, AnsweredFacts
  <2>5. /\ \A m \in DOMAIN data :
             /\ data[m].item <= 2 * turns
             /\ ~IsUser(data[m].item) => idOf'[data[m].item] # "none"
        /\ \A m, n \in DOMAIN data : data[m].item = data[n].item => m = n
        /\ \A n \in Items : idOf'[n] # "none" =>
             n <= 2 * turns /\ \A j \in posts : n # Answer(j)
    BY <1>15, <2>1, <2>3
  <2>6. PICK K : K = Unseen(data, list)
    OBVIOUS
  <2>7. PICK kept : kept = Subsequence(list, K)
    OBVIOUS
  <2>8. /\ K \in SUBSET (DOMAIN list)
        /\ \A m \in DOMAIN list' : list'[m] =
             IF m <= Len(data) THEN data[m] ELSE kept[m - Len(data)]
    BY <2>3, <2>4, <2>6, <2>7, MergeStep
  <2>9. /\ Len(kept) \in Nat
        /\ \A k \in 1..Len(kept) : \E i \in K : Rank(i, K) = k /\ kept[k] = list[i]
    BY SMTT(30), <2>3, <2>4, <2>6, <2>7, MergeStep
  <2>10. DOMAIN list' = 1..(Len(data) + Len(kept))
    BY <2>3, <2>4, <2>6, <2>7, MergeStep
  <2>11. ASSUME NEW m \in DOMAIN list'
         PROVE  \/ m \in DOMAIN data /\ list'[m] = data[m]
                \/ \E i \in K : list'[m] = list[i] /\ m > Len(data) /\ Rank(i, K) = m - Len(data)
    <3>1. CASE m <= Len(data)
      BY <2>4, <2>8, <2>10, <3>1
    <3>2. CASE m > Len(data)
      <4>1. list'[m] = kept[m - Len(data)]
        BY <2>4, <2>8, <2>10, <3>2
      <4>2. m - Len(data) \in 1..Len(kept)
        BY <2>4, <2>9, <2>10, <3>2
      <4> QED BY <2>9, <3>2, <4>1, <4>2
    <3>3. m <= Len(data) \/ m > Len(data)
      BY <2>4, <2>9, <2>10
    <3> QED BY <3>1, <3>2, <3>3
  <2>12. \A m \in DOMAIN list' :
           /\ list'[m].item <= 2 * turns
           /\ ~IsUser(list'[m].item) => idOf'[list'[m].item] # "none"
    <3>1. \A i \in K : /\ list[i].item <= 2 * turns
                       /\ ~IsUser(list[i].item) => idOf'[list[i].item] # "none"
      BY <2>3, <2>8, StateFacts, IdsStep DEF ListInv
    <3> QED BY <2>5, <2>11, <3>1
  (* Every row is of the page, or was kept and is not in the page.          *)
  <2>13. ASSUME OnceInv, NEW i \in K, NEW n \in DOMAIN data
         PROVE  list[i].item # data[n].item
    <3>1. i \in DOMAIN list /\ <<data[n].item, data[n].id>> # <<list[i].item, list[i].id>>
      BY <2>6 DEF Unseen
    <3>2. CASE list[i].id = "history"
      BY <2>4, <3>1, <3>2
    <3>3. CASE list[i].id = "live"
      <4>1. list[i].item \notin Before(pages[p].cursor)
        BY <2>3, <2>13, <3>1, <3>3 DEF OnceInv, Ahead
      <4>2. next + n \in 1..pages[p].cursor
        BY <2>4
      <4>3. data[n].item \in Before(pages[p].cursor)
        BY <2>4, <4>2 DEF Before
      <4> QED BY <4>1, <4>3
    <3> QED BY <3>1, <3>2, <3>3, StateFacts
  <2>14. ASSUME OnceInv, NEW m \in DOMAIN list', NEW n \in DOMAIN list',
                list'[m].item = list'[n].item
         PROVE  m = n
    <3>1. CASE m \in DOMAIN data /\ list'[m] = data[m]
      <4>1. n \in DOMAIN data /\ list'[n] = data[n]
        BY <2>11, <2>13, <2>14, <3>1
      <4> QED BY <2>5, <2>14, <3>1, <4>1
    <3>2. ASSUME NEW i \in K, list'[m] = list[i], m > Len(data), Rank(i, K) = m - Len(data)
          PROVE  m = n
      <4>1. PICK j \in K : list'[n] = list[j] /\ n > Len(data) /\ Rank(j, K) = n - Len(data)
        BY <2>11, <2>13, <2>14, <3>2
      <4>2. i = j
        BY <2>8, <2>14, <3>2, <4>1 DEF OnceInv
      <4>3. m - Len(data) = n - Len(data)
        BY <3>2, <4>1, <4>2
      <4> QED BY <2>4, <2>9, <2>10, <4>3
    <3> QED BY <2>11, <3>1, <3>2
  <2>15. ASSUME NEW k, Ahead(k)
         PROVE  Ahead(k)'
    <3>1. k \notin Before(pages[p].cursor)
      BY <2>3, <2>15 DEF Ahead
    <3>2. Before(next) \subseteq Before(pages[p].cursor)
      <4>1. 1..next \subseteq 1..pages[p].cursor
        BY <2>4
      <4> QED BY <4>1 DEF Before
    <3>3. \A q \in DOMAIN pages' : \E n \in DOMAIN pages : pages'[q] = pages[n]
      BY <2>3, FinishFacts DEF TypeOK
    <3>4. \A q \in DOMAIN pages' : pages'[q].kind = "more" => k \notin Before(pages'[q].cursor)
      BY <2>15, <3>3 DEF Ahead
    <3> QED BY <2>3, <3>1, <3>2, <3>4 DEF Ahead, Before
  <2>16. ASSUME OnceInv
         PROVE  OnceInv'
    <3>1. ASSUME NEW m \in DOMAIN list', list'[m].id = "live"
          PROVE  Ahead(list[m].item)'
      <4>1. PICK i \in K : list'[m] = list[i]
        BY <2>4, <2>11, <3>1
      <4>2. PICK k : k = list[i].item
        OBVIOUS
      <4>3. Ahead(k)'
        BY <2>8, <2>15, <2>16, <3>1, <4>1, <4>2 DEF OnceInv
      <4> QED BY <4>1, <4>2, <4>3 DEF Ahead
    <3>2. ASSUME NEW i \in DOMAIN stream', idOf'[stream'[i]] = "none"
          PROVE  Ahead(stream[i])'
      <4>1. PICK k : k = stream[i]
        OBVIOUS
      <4>2. i \in DOMAIN stream /\ k \in Items
        BY <2>3, <4>1, StateFacts
      <4>3. idOf[k] = "none"
        BY <2>3, <3>2, <4>1, <4>2, IdsStep
      <4>4. Ahead(k)'
        BY <2>15, <2>16, <4>1, <4>2, <4>3 DEF OnceInv
      <4> QED BY <2>3, <4>1, <4>4 DEF Ahead
    <3> QED BY <2>14, <2>16, <3>1, <3>2 DEF OnceInv
  <2> QED BY <2>3, <2>5, <2>12, <2>16 DEF ListInv, IsUser
<1> QED BY <1>6, <1>7, <1>8, <1>9, <1>10, <1>11, <1>12, <1>13, <1>14, <1>16, <1>17 DEF Next


-----------------------------------------------------------------------------
(* The list shows everything from the cursor on                             *)

(* Where the newest message is; in a turn, where its answer is.             *)
LEMMA ShownFacts ==
  ASSUME TypeOK, TurnInv, ShownOK
  PROVE  /\ Newest \in Nat /\ Newest <= Len(store) + 1
         /\ Newest = Len(store) + 1 => turn # 0 \/ asking # 0
         /\ At \in Nat /\ Len(store) <= At /\ At <= Len(store) + 1
         /\ InTurn => /\ At # 0 /\ asking = 0
                      /\ Newest = (IF idOf[Current] # "none" THEN At ELSE At - 1)
                      /\ Current \in Items /\ ~IsUser(Current) /\ Current = ItemAt(At)
                      /\ Said \in Nat
         /\ \A m \in DOMAIN list : cursor + m \in 1..Newest
<1>1. PICK L \in Nat : L = Len(store) /\ DOMAIN store = 1..L
  BY StateFacts
<1>2. /\ At \in Nat /\ L <= At /\ At <= L + 1
      /\ turn # 0 => At = L + 1
      /\ turn = 0 => At = L
  BY <1>1 DEF At
<1>3. InTurn => At # 0 /\ asking = 0
  BY <1>1, <1>2 DEF ShownOK, InTurn
<1>4. InTurn => Newest = (IF idOf[Current] # "none" THEN At ELSE At - 1)
  BY <1>3 DEF Newest
<1>5. CASE asking # 0
  <2>1. Newest = L + 1
    BY <1>1, <1>5 DEF Newest
  <2> QED BY <1>1, <1>2, <1>3, <1>5, <2>1, StateFacts DEF ShownOK
<1>6. CASE asking = 0 /\ ~InTurn
  <2>1. Newest = L
    BY <1>1, <1>6 DEF Newest
  <2> QED BY <1>1, <1>2, <1>6, <2>1, StateFacts DEF ShownOK
<1>7. CASE asking = 0 /\ InTurn
  <2>1. Newest \in {At, At - 1}
    BY <1>4, <1>7
  <2>2. Newest \in Nat /\ Newest <= L + 1 /\ (Newest = L + 1 => turn # 0)
    BY <1>1, <1>2, <1>3, <1>7, <2>1
  <2>3. Current \in Items /\ ~IsUser(Current) /\ Current = ItemAt(At) /\ Said \in Nat
    <3>1. CASE turn # 0
      <4>1. turn \in 1..MaxTurns /\ spoken \in Nat
        BY <3>1, Constants DEF TypeOK
      <4>2. Current = Answer(turn) /\ ItemAt(At) = Answer(turn) /\ Said = spoken
        BY <1>1, <1>2, <3>1 DEF Current, ItemAt, Said
      <4> QED BY <4>1, <4>2, TurnItems
    <3>2. CASE turn = 0
      <4>1. L \in DOMAIN store
        BY <1>1, <1>2, <1>3, <1>7, <3>2
      <4>2. /\ Current = store[L].item /\ ItemAt(At) = store[L].item
            /\ Said = store[L].text
        BY <1>1, <1>2, <3>2 DEF Current, ItemAt, Said
      <4>3. store[L].item \in Items /\ store[L].text \in Nat
        BY <4>1, StateFacts
      <4>4. 1 \in DOMAIN stream
        BY <1>7, <3>2, DeltaFacts DEF TypeOK, InTurn
      <4>5. stream[1] = Current /\ ~IsUser(stream[1])
        BY <4>4 DEF ShownOK, TurnInv
      <4> QED BY <4>2, <4>3, <4>5
    <3> QED BY <3>1, <3>2
  <2>4. \A m \in DOMAIN list : cursor + m \in 1..Newest
    BY <2>2, StateFacts DEF ShownOK
  <2> QED BY <1>1, <1>2, <1>3, <1>4, <2>2, <2>3, <2>4
<1> QED BY <1>5, <1>6, <1>7

(* No message has two positions.                                            *)
LEMMA PositionsApart ==
  ASSUME TypeOK, TurnInv,
         NEW k \in 1..(Len(store) + 1), NEW n \in 1..(Len(store) + 1),
         k = Len(store) + 1 \/ n = Len(store) + 1 => turn # 0 \/ asking # 0,
         ItemAt(k) = ItemAt(n)
  PROVE  k = n
<1>1. PICK L \in Nat : L = Len(store) /\ DOMAIN store = 1..L
  BY StateFacts
<1>2. \A i \in 1..L : ItemAt(i) = store[i].item
  BY <1>1 DEF ItemAt
<1>3. turn # 0 \/ asking # 0 => \A i \in 1..L : ItemAt(L + 1) # store[i].item
  <2>1. turn # 0 => ItemAt(L + 1) = Answer(turn)
    BY <1>1 DEF ItemAt
  <2>2. turn = 0 => ItemAt(L + 1) = Question(asking)
    BY <1>1 DEF ItemAt
  <2>3. turn # 0 => ~IsStored(Answer(turn))
    BY DEF TurnInv
  <2>4. asking # 0 => ~IsStored(Question(asking))
    BY DEF TurnInv
  <2> QED BY <1>1, <2>1, <2>2, <2>3, <2>4 DEF IsStored
<1>4. CASE k \in 1..L /\ n \in 1..L
  BY <1>1, <1>2, <1>4 DEF TurnInv
<1>5. CASE k = L + 1 \/ n = L + 1
  BY <1>1, <1>2, <1>3, <1>5
<1> QED BY <1>1, <1>4, <1>5

(* So no message is shown twice, and the answer of the turn is at At alone. *)
LEMMA ItemsApart ==
  ASSUME TypeOK, TurnInv, ShownOK
  PROVE  /\ \A m, n \in DOMAIN list : list[m].item = list[n].item => m = n
         /\ InTurn => \A m \in DOMAIN list : list[m].item = Current => cursor + m = At
<1>1. PICK L \in Nat : L = Len(store)
  BY StateFacts
<1>2. PICK c \in Nat : c = cursor
  BY StateFacts
<1>3. /\ Newest \in Nat /\ Newest <= L + 1
      /\ Newest = L + 1 => turn # 0 \/ asking # 0
      /\ \A m \in DOMAIN list : c + m \in 1..Newest
  BY <1>1, <1>2, ShownFacts
<1>4. \A m \in DOMAIN list : c + m \in 1..(L + 1) /\ (c + m = L + 1 => turn # 0 \/ asking # 0)
  BY <1>3
<1>5. \A m \in DOMAIN list : list[m].item = ItemAt(c + m) /\ m \in Nat
  BY <1>2, StateFacts DEF ShownOK, RowOK
<1>6. ASSUME NEW m \in DOMAIN list, NEW n \in DOMAIN list, list[m].item = list[n].item
      PROVE  m = n
  <2>1. c + m = c + n
    BY <1>1, <1>4, <1>5, <1>6, PositionsApart
  <2> QED BY <1>2, <1>5, <2>1
<1>7. ASSUME InTurn, NEW m \in DOMAIN list, list[m].item = Current
      PROVE  cursor + m = At
  <2>1. PICK a \in Nat : a = At
    BY ShownFacts
  <2>2. a \in 1..(L + 1) /\ Current = ItemAt(a)
    BY <1>1, <1>7, <2>1, ShownFacts
  <2>3. a = L + 1 => turn # 0
    BY <1>1, <2>1 DEF At
  <2>4. c + m = a
    BY <1>1, <1>4, <1>5, <1>7, <2>2, <2>3, PositionsApart
  <2> QED BY <1>2, <2>1, <2>4
<1> QED BY <1>6, <1>7

(* An older page that fits either continues the list upwards or is at its   *)
(* beginning already.                                                       *)
LEMMA MoreFits ==
  ASSUME TypeOK, TurnInv, PageInv, ShownOK,
         NEW p \in DOMAIN pages, OnMorePage(p), Fits(p)
  PROVE  \E d \in Nat :
           /\ cursor' = cursor - d
           /\ cursor' \in Nat
           /\ cursor <= pages[p].cursor
           /\ Len(list') = d + Len(list)
           /\ DOMAIN list' = 1..(d + Len(list))
           /\ \A m \in 1..d : /\ list'[m].item = store[cursor' + m].item
                              /\ list'[m].text = store[cursor' + m].text
                              /\ list'[m].id = "history"
           /\ \A m \in DOMAIN list : list'[d + m] = list[m]
<1> USE Constants
<1>1. PICK data : data = pages[p].data
  OBVIOUS
<1>2. PICK next : next = pages[p].next
  OBVIOUS
<1>3. PICK ask : ask = pages[p].cursor
  OBVIOUS
<1>4. /\ pages[p].at = "answered" /\ pages[p].kind = "more"
      /\ list' = MergeUnique(data, list) /\ cursor' = next
  BY <1>1, <1>2 DEF OnMorePage
<1>5. PICK L : L = Len(data)
  OBVIOUS
<1>6. /\ data \in Seq(Messages) /\ next \in Nat /\ L \in Nat /\ DOMAIN data = 1..L
      /\ \A m \in DOMAIN data :
           /\ data[m].item = store[next + m].item
           /\ data[m].id = "history"
           /\ data[m].text = store[next + m].text
      /\ next + L = ask
  BY <1>1, <1>2, <1>3, <1>4, <1>5, AnsweredFacts
<1>7. PICK S \in Nat : S = Len(store) /\ DOMAIN store = 1..S
  BY StateFacts
<1>8. /\ ask \in Nat /\ ask < S
  BY <1>3, <1>4, <1>7, StateFacts DEF PageInv, PageOK, Cursor
<1>9. PICK N : N = Len(list)
  OBVIOUS
<1>10. PICK c \in Nat : c = cursor
  BY StateFacts
<1>11. N \in Nat /\ DOMAIN list = 1..N /\ list \in Seq(Messages)
  BY <1>9, StateFacts DEF TypeOK
<1>12. PICK K : K = Unseen(data, list)
  OBVIOUS
<1>13. PICK kept : kept = Subsequence(list, K)
  OBVIOUS
<1>14. /\ K \in SUBSET (DOMAIN list)
       /\ Len(kept) \in Nat
       /\ Len(list') = L + Len(kept)
       /\ DOMAIN list' = 1..(L + Len(kept))
       /\ \A m \in DOMAIN list' : list'[m] = IF m <= L THEN data[m] ELSE kept[m - L]
  BY <1>4, <1>5, <1>6, <1>12, <1>13, MergeStep
<1>15. /\ Newest \in Nat /\ Newest <= S + 1 /\ Newest >= S - 1
       /\ Newest = S + 1 => turn # 0 \/ asking # 0
       /\ c + N = Newest
  <2>1. /\ Newest \in Nat /\ Newest <= S + 1
        /\ Newest = S + 1 => turn # 0 \/ asking # 0
        /\ At >= S /\ At \in Nat
        /\ InTurn => Newest = (IF idOf[Current] # "none" THEN At ELSE At - 1)
    BY <1>7, ShownFacts
  <2>2. ~InTurn => Newest >= S
    BY <1>7 DEF Newest
  <2>3. c + N = Newest
    BY <1>9, <1>10 DEF ShownOK
  <2> QED BY <1>7, <2>1, <2>2, <2>3
(* No message of the page is further down in the list.                      *)
<1>16. ASSUME NEW i \in 1..N, NEW n \in 1..L, data[n].item = list[i].item
       PROVE  next + n = c + i
  <2>1. list[i].item = ItemAt(c + i)
    BY <1>10, <1>11 DEF ShownOK, RowOK
  <2>2. data[n].item = ItemAt(next + n)
    BY <1>6, <1>7, <1>8 DEF ItemAt
  <2>3. c + i \in 1..(S + 1) /\ (c + i = S + 1 => turn # 0 \/ asking # 0)
    BY <1>7, <1>11, <1>15
  <2>4. next + n \in 1..(S + 1) /\ next + n # S + 1
    BY <1>6, <1>7, <1>8
  <2>5. PICK k \in 1..(S + 1) : k = c + i
    BY <2>3
  <2>6. PICK l \in 1..(S + 1) : l = next + n
    BY <2>4
  <2>7. ItemAt(l) = ItemAt(k)
    BY <1>16, <2>1, <2>2, <2>5, <2>6
  <2> QED BY <1>7, <2>3, <2>4, <2>5, <2>6, <2>7, PositionsApart
<1>17. CASE c = ask
  <2>1. \A i \in 1..N : i \in K
    <3>1. \A i \in 1..N, n \in 1..L : data[n].item # list[i].item
      <4>1. \A i \in 1..N, n \in 1..L : next + n # c + i
        BY <1>6, <1>8, <1>11, <1>17
      <4> QED BY <1>16, <4>1
    <3> QED BY <1>6, <1>11, <1>12, <3>1 DEF Unseen
  <2>2. K = (0 + 1)..N
    <3>1. K \in SUBSET (1..N) /\ 0 + 1 = 1
      BY <1>11, <1>14
    <3>2. K = 1..N
      BY <2>1, <3>1
    <3> QED BY <3>1, <3>2
  <2>3. Len(kept) = N /\ \A k \in 1..N : kept[k] = list[k]
    <3>1. 0 \in 0..Len(list)
      BY <1>9, <1>11
    <3>2. /\ Len(kept) = Len(list) - 0
          /\ \A k \in 1..(Len(list) - 0) : kept[k] = list[0 + k]
      BY <1>9, <1>11, <1>13, <2>2, <3>1, SubsequenceSuffix
    <3> QED BY <1>9, <1>11, <3>2
  <2>4. ASSUME NEW m \in 1..L
        PROVE  m \in DOMAIN list' /\ list'[m] = data[m]
    <3>1. m \in 1..(L + Len(kept)) /\ m <= L
      BY <1>6, <1>14
    <3> QED BY <1>14, <3>1
  <2>5. ASSUME NEW m \in DOMAIN list
        PROVE  list'[L + m] = list[m]
    <3>1. L + m \in DOMAIN list' /\ ~(L + m <= L) /\ (L + m) - L = m
      BY <1>6, <1>11, <1>14, <2>3
    <3> QED BY <1>11, <1>14, <2>3, <3>1
  <2>6. cursor' = cursor - L
    BY <1>4, <1>6, <1>10, <1>17
  <2>7. /\ cursor' \in Nat
        /\ cursor <= pages[p].cursor
        /\ Len(list') = L + Len(list)
        /\ DOMAIN list' = 1..(L + Len(list))
    BY <1>3, <1>4, <1>6, <1>8, <1>9, <1>10, <1>14, <1>17, <2>3
  <2>8. \A m \in 1..L : /\ list'[m].item = store[cursor' + m].item
                        /\ list'[m].text = store[cursor' + m].text
                        /\ list'[m].id = "history"
    BY <1>4, <1>6, <2>4
  <2> QED BY <1>6, <2>5, <2>6, <2>7, <2>8
<1>18. CASE c = next
  <2>1. L <= N
    BY <1>6, <1>8, <1>11, <1>15, <1>18
  <2>2. ASSUME NEW m \in 1..L
        PROVE  m \in DOMAIN list /\ list[m] = data[m]
    <3>1. m \in DOMAIN list /\ m \in DOMAIN data
      BY <1>6, <1>11, <2>1
    <3>2. PICK k \in Nat : k = c + m /\ k = next + m /\ k <= ask
      BY <1>6, <1>18
    <3>3. RowOK(list[m], k)
      BY <1>10, <3>1, <3>2 DEF ShownOK
    <3>4. list[m].id = "history"
      <4>1. list[m].id = "live" => ask < k
        BY <1>3, <1>4, <3>3 DEF RowOK
      <4> QED BY SMTT(30), <1>8, <3>1, <3>2, <4>1, StateFacts
    <3>5. k # At
      BY <1>7, <1>8, <3>2, ShownFacts
    <3>6. list[m].item = store[k].item /\ list[m].text = store[k].text
      BY <1>7, <1>8, <3>2, <3>3, <3>5 DEF RowOK, ItemAt, TextAt
    <3>7. list[m] \in Messages /\ data[m] \in Messages
      BY <1>6, <3>1, StateFacts, DomainOfSeq
    <3>8. data[m].item = store[k].item /\ data[m].id = "history" /\ data[m].text = store[k].text
      BY <1>6, <3>1, <3>2
    <3>9. list[m] = data[m]
      BY <3>4, <3>6, <3>7, <3>8 DEF Messages
    <3> QED BY <3>1, <3>9
  <2>3. K = (L + 1)..N
    <3>1. \A i \in 1..L : i \notin K
      BY <1>6, <1>12, <2>2 DEF Unseen
    <3>2. ASSUME NEW i \in (L + 1)..N
          PROVE  i \in K
      <4>1. i \in DOMAIN list /\ i \in 1..N
        BY <1>6, <1>11
      <4>2. \A n \in 1..L : next + n # c + i
        BY <1>6, <1>11, <1>18, <4>1
      <4>3. \A n \in DOMAIN data : data[n].item # list[i].item
        BY <1>6, <1>16, <4>1, <4>2
      <4> QED BY <1>12, <4>1, <4>3 DEF Unseen
    <3>3. \A i \in K : i \in 1..N
      BY <1>11, <1>14
    <3>4. \A i \in K : i \in (L + 1)..N
      BY <1>6, <1>11, <3>1, <3>3
    <3> QED BY <3>2, <3>4
  <2>4. Len(kept) = N - L /\ \A k \in 1..(N - L) : kept[k] = list[L + k]
    <3>1. L \in 0..Len(list)
      BY <1>6, <1>9, <1>11, <2>1
    <3> QED BY <1>9, <1>11, <1>13, <2>3, <3>1, SubsequenceSuffix
  <2>5. DOMAIN list' = 1..N /\ Len(list') = N
    BY <1>6, <1>11, <1>14, <2>1, <2>4
  <2>6. ASSUME NEW m \in DOMAIN list
        PROVE  list'[m] = list[m]
    <3>1. m \in DOMAIN list' /\ m \in 1..N
      BY <1>11, <2>5
    <3>2. CASE m <= L
      BY <1>14, <2>2, <3>1, <3>2
    <3>3. CASE m > L
      <4>1. m - L \in 1..(N - L) /\ L + (m - L) = m /\ ~(m <= L)
        BY <1>6, <1>11, <3>1, <3>3
      <4> QED BY <1>14, <2>4, <3>1, <4>1
    <3> QED BY <1>6, <3>1, <3>2, <3>3
  <2>7. \A m \in DOMAIN list : 0 + m = m /\ list'[0 + m] = list[m]
    BY <1>11, <2>6
  <2>8. cursor' = cursor - 0 /\ cursor' \in Nat /\ cursor <= ask
    BY <1>4, <1>6, <1>10, <1>18
  <2> QED BY <1>3, <1>6, <1>9, <1>11, <2>5, <2>7, <2>8
<1> QED BY <1>2, <1>3, <1>10, <1>17, <1>18 DEF Fits

LEMMA ShownInit == Init => ShownInv
BY DEF Init, ShownInv

(* The rows of the next state, one by one.                                  *)
LEMMA RowsStep ==
  ASSUME \A m \in DOMAIN list' : \A R, k : R = list'[m] /\ k = cursor' + m => RowOK(R, k)'
  PROVE  \A m \in DOMAIN list' : RowOK(list[m], cursor + m)'
<1> SUFFICES ASSUME NEW m \in DOMAIN list' PROVE RowOK(list[m], cursor + m)'
  OBVIOUS
<1>1. PICK R : R = list'[m]
  OBVIOUS
<1>2. PICK k : k = cursor' + m
  OBVIOUS
<1>3. RowOK(R, k)'
  BY <1>1, <1>2
<1> QED BY <1>1, <1>2, <1>3 DEF RowOK, ItemAt, TextAt

LEMMA NumberFacts ==
  ASSUME TypeOK
  PROVE  /\ Len(store) \in Nat /\ cursor \in Nat /\ Len(list) \in Nat
         /\ DOMAIN list = 1..Len(list)
         /\ Len(stream) \in Nat
         /\ stream = <<>> <=> Len(stream) = 0
         /\ spoken \in Nat /\ turn \in Nat /\ asking \in Nat
<1>1. stream = <<>> <=> Len(stream) = 0
  BY EmptySeq, DomainOfSeq DEF TypeOK
<1> QED BY <1>1, StateFacts, Constants DEF TypeOK

(* What changes neither the list nor what it should show.                   *)
LEMMA SameShown ==
  ASSUME TypeOK, ShownOK,
         UNCHANGED <<list, cursor, idOf, stream, turn, store, spoken, asking>>,
         \A q \in DOMAIN pages' : pages'[q].kind = "more" =>
           \/ cursor # 0 /\ pages'[q].cursor = cursor
           \/ \E r \in DOMAIN pages : /\ pages[r].kind = "more"
                                      /\ pages'[q].cursor = pages[r].cursor
  PROVE  ShownOK'
<1>1. Current' = Current /\ Said' = Said /\ At' = At /\ (InTurn' <=> InTurn)
  BY DEF Current, Said, At, InTurn
<1>2. Newest' = Newest
  BY <1>1 DEF Newest
<1>3. ASSUME NEW m \in DOMAIN list', NEW R, NEW k, R = list'[m], k = cursor' + m
      PROVE  RowOK(R, k)'
  <2>1. RowOK(R, k) /\ m \in DOMAIN list
    BY <1>3 DEF ShownOK
  <2>2. k > cursor
    BY <1>3, <2>1, NumberFacts
  <2>3. R.id = "live" => \A q \in DOMAIN pages' :
          pages'[q].kind = "more" => pages'[q].cursor < k
    BY <2>1, <2>2, NumberFacts DEF RowOK
  <2> QED BY <1>1, <2>1, <2>3 DEF RowOK, ItemAt, TextAt
<1>4. \A m \in DOMAIN list' : RowOK(list[m], cursor + m)'
  BY <1>3, RowsStep
<1> QED BY <1>1, <1>2, <1>4 DEF ShownOK

LEMMA SendShown ==
  ASSUME TypeOK, TypeOK', TurnInv, PageInv, ShownOK, Send, ~crossed'
  PROVE  ShownOK'
<1>1. PICK j \in Nat : j = turns + 1
  BY StateFacts
<1>2. /\ turn = 0 /\ turn' = 0 /\ asking = 0 /\ asking' = j /\ stream = <<>> /\ stream' = <<>>
      /\ list' = Append(list, Message(Question(j), "live", 1))
      /\ UNCHANGED <<store, cursor, pages>>
  BY <1>1 DEF Send, pageVars
<1>3. j \in 1..MaxTurns
  BY <1>1, Constants, StateFacts DEF Send
<1>4. PICK L \in Nat : L = Len(store)
  BY StateFacts
<1>5. ~InTurn /\ ~InTurn' /\ Newest = L /\ Newest' = L + 1
  BY <1>2, <1>3, <1>4 DEF InTurn, Newest
<1>6. PICK N \in Nat : N = Len(list) /\ DOMAIN list = 1..N
  BY StateFacts
<1>7. /\ Len(list') = N + 1 /\ DOMAIN list' = 1..(N + 1)
      /\ \A m \in DOMAIN list : list'[m] = list[m]
      /\ list'[N + 1].item = Question(j)
      /\ list'[N + 1].text = 1
  BY <1>2, <1>3, <1>6, AppendFacts, TurnItems DEF TypeOK
<1>8. PICK c \in Nat : c = cursor /\ c = cursor' /\ c + N = L
  BY <1>2, <1>5, <1>6, StateFacts DEF ShownOK
<1>9. ASSUME NEW m \in DOMAIN list', NEW R, NEW k, R = list'[m], k = cursor' + m
      PROVE  RowOK(R, k)'
  <2>1. CASE m = N + 1
    <3>1. k = L + 1 /\ R.item = Question(j) /\ R.text = 1
      BY <1>6, <1>7, <1>8, <1>9, <2>1
    <3>2. (ItemAt(k) = Question(j) /\ TextAt(k) = 1)'
      BY <1>2, <1>4, <3>1 DEF ItemAt, TextAt
    <3>3. \A p \in DOMAIN pages : pages[p].cursor < L + 1
      BY <1>4, StateFacts DEF PageInv, PageOK, Cursor
    <3> QED BY <1>2, <1>5, <3>1, <3>2, <3>3 DEF RowOK
  <2>2. CASE m # N + 1
    <3>1. m \in DOMAIN list /\ k = c + m /\ k \in Nat /\ k <= L
      BY <1>6, <1>7, <1>8, <1>9, <2>2
    <3>2. RowOK(R, k)
      BY <1>7, <1>8, <1>9, <3>1 DEF ShownOK
    <3> QED BY <1>2, <1>4, <1>5, <3>1, <3>2 DEF RowOK, ItemAt, TextAt
  <2> QED BY <2>1, <2>2
<1>10. \A m \in DOMAIN list' : RowOK(list[m], cursor + m)'
  BY <1>9, RowsStep
<1>11. cursor' + Len(list') = Newest'
  <2>1. c + (N + 1) = L + 1
    BY <1>4, <1>6, <1>8
  <2> QED BY <1>5, <1>7, <1>8, <2>1
<1>12. DOMAIN stream' = {}
  BY <1>2
<1> QED BY <1>2, <1>5, <1>10, <1>11, <1>12 DEF ShownOK

LEMMA StartsShown ==
  ASSUME TypeOK, TypeOK', TurnInv, PageInv, ListInv, ShownOK,
         NEW j \in posts, CodexStarts(j), ~crossed'
  PROVE  ShownOK'
<1>1. /\ asking = j /\ asking' = 0 /\ turn = 0 /\ turn' = j /\ posts' = posts \ {j}
      /\ store' = Append(store, Stored(Question(j), 1))
      /\ UNCHANGED <<spoken, stream, list, idOf, cursor, pages>>
  BY DEF CodexStarts, Starts, listVars, pageVars
<1>2. j \in 1..MaxTurns /\ j # 0
  BY DEF TypeOK
<1>3. ~InTurn /\ stream = <<>> /\ spoken = 0
  BY <1>1, <1>2 DEF ShownOK, InTurn, TurnInv
<1>4. PICK L \in Nat : L = Len(store) /\ DOMAIN store = 1..L
  BY StateFacts
<1>5. /\ Len(store') = L + 1
      /\ \A k \in 1..L : store'[k] = store[k]
      /\ store'[L + 1].item = Question(j)
      /\ store'[L + 1].text = 1
  BY <1>1, <1>2, <1>4, StoreStep, TurnItems DEF TypeOK
<1>6. InTurn' /\ At' = L + 2 /\ Current' = Answer(j) /\ Said' = 0
  BY <1>1, <1>2, <1>3, <1>5 DEF InTurn, At, Current, Said
<1>7. idOf[Answer(j)] = "none"
  BY <1>2, TurnItems DEF ListInv
<1>8. Newest = L + 1 /\ Newest' = L + 1
  BY <1>1, <1>2, <1>4, <1>6, <1>7 DEF Newest
<1>9. cursor' + Len(list') = Newest'
  BY <1>1, <1>8 DEF ShownOK
<1>10. ASSUME NEW m \in DOMAIN list', NEW R, NEW k, R = list'[m], k = cursor' + m
       PROVE  RowOK(R, k)'
  <2>1. RowOK(R, k) /\ m \in DOMAIN list
    BY <1>1, <1>10 DEF ShownOK
  <2>2. k \in Nat /\ k >= 1 /\ k <= L + 1
    BY <1>1, <1>4, <1>8, <1>10, <2>1, ShownFacts, StateFacts
  <2>3. (ItemAt(k))' = ItemAt(k) /\ (TextAt(k))' = TextAt(k)
    BY <1>1, <1>2, <1>4, <1>5, <2>2 DEF ItemAt, TextAt
  <2> QED BY <1>1, <1>3, <1>6, <2>1, <2>2, <2>3 DEF RowOK
<1>11. \A m \in DOMAIN list' : RowOK(list[m], cursor + m)'
  BY <1>10, RowsStep
<1>12. DOMAIN stream' = {} /\ Len(stream') = 0
  BY <1>1, <1>3
<1> QED BY <1>1, <1>3, <1>6, <1>9, <1>11, <1>12 DEF ShownOK

LEMMA SpeaksShown ==
  ASSUME TypeOK, TypeOK', TurnInv, ShownOK, CodexSpeaks
  PROVE  ShownOK'
<1>1. /\ turn # 0 /\ spoken' = spoken + 1 /\ stream' = Append(stream, Answer(turn))
      /\ UNCHANGED <<store, turn, asking, list, idOf, cursor, pages>>
  BY DEF CodexSpeaks, listVars, pageVars
<1>2. /\ InTurn /\ InTurn' /\ Current = Answer(turn) /\ Current' = Current /\ At' = At
      /\ Said = spoken /\ Said' = spoken + 1
  BY <1>1 DEF InTurn, Current, At, Said
<1>3. Newest' = Newest
  BY <1>1, <1>2 DEF Newest
<1>4. PICK said \in Nat : said = Said /\ Said' = said + 1
  BY <1>2, NumberFacts
<1>5. /\ stream' \in Seq(Items)
      /\ Len(stream') = Len(stream) + 1
      /\ \A i \in 1..Len(stream) : stream'[i] = stream[i]
      /\ stream'[Len(stream) + 1] = Current
  <2>1. Current \in Items /\ stream \in Seq(Items)
    BY <1>2, ShownFacts DEF TypeOK
  <2> QED BY <1>1, <1>2, <2>1, AppendProperties
<1>6. PICK len \in Nat : len = Len(stream) /\ Len(stream') = len + 1
  BY <1>5, NumberFacts
<1>7. ASSUME NEW m \in DOMAIN list', NEW R, NEW k, R = list'[m], k = cursor' + m
      PROVE  RowOK(R, k)'
  <2>1. RowOK(R, k) /\ m \in DOMAIN list /\ R.text \in Nat
    BY <1>1, <1>7, StateFacts DEF ShownOK
  <2>2. PICK t \in Nat : t = R.text
    BY <2>1
  <2>3. k = At => t + len = said /\ R.id = idOf[Current]
    BY <1>2, <1>4, <1>6, <2>1, <2>2 DEF RowOK
  <2>4. k = At => t + (len + 1) = said + 1
    BY <2>3
  <2>5. k # At => R.text = TextAt(k)
    BY <2>1 DEF RowOK
  <2>6. (ItemAt(k))' = ItemAt(k) /\ (TextAt(k))' = TextAt(k)
    BY <1>1 DEF ItemAt, TextAt
  <2>7. k = At => R.text + Len(stream') = Said' /\ R.id = idOf'[Current']
    BY <1>1, <1>2, <1>4, <1>6, <2>2, <2>3, <2>4
  <2> QED BY <1>1, <1>2, <2>1, <2>5, <2>6, <2>7 DEF RowOK
<1>8. \A m \in DOMAIN list' : RowOK(list[m], cursor + m)'
  BY <1>7, RowsStep
<1>9. \A i \in DOMAIN stream' : stream'[i] = Current'
  <2>1. DOMAIN stream = 1..len /\ DOMAIN stream' = 1..(len + 1)
    BY <1>5, <1>6, DomainOfSeq DEF TypeOK
  <2>2. \A i \in 1..len : stream[i] = Current
    BY <2>1 DEF ShownOK
  <2> QED BY <1>2, <1>5, <1>6, <2>1, <2>2
<1>10. cursor' + Len(list') = Newest'
  BY <1>1, <1>3 DEF ShownOK
<1>11. idOf'[Current'] = "none" => Len(stream') = Said'
  BY <1>1, <1>2, <1>4, <1>6 DEF ShownOK
<1>12. At' # 0 /\ asking' = 0
  BY <1>1, <1>2, ShownFacts
<1> QED BY <1>8, <1>9, <1>10, <1>11, <1>12 DEF ShownOK

LEMMA StoresShown ==
  ASSUME TypeOK, TypeOK', TurnInv, ShownOK, CodexStores
  PROVE  ShownOK'
<1>1. /\ turn # 0 /\ spoken > 0 /\ turn' = 0
      /\ store' = Append(store, Stored(Answer(turn), spoken))
      /\ UNCHANGED <<asking, stream, list, idOf, cursor, pages>>
  BY DEF CodexStores, listVars, pageVars
<1>2. PICK L \in Nat : L = Len(store) /\ DOMAIN store = 1..L
  BY StateFacts
<1>3. PICK t \in 1..MaxTurns : t = turn
  BY <1>1, Constants DEF TypeOK
<1>4. PICK said \in Nat \ {0} : said = spoken
  BY <1>1, NumberFacts
<1>5. /\ Len(store') = L + 1
      /\ \A k \in 1..L : store'[k] = store[k]
      /\ store'[L + 1].item = Answer(t)
      /\ store'[L + 1].text = said
  BY <1>1, <1>2, <1>3, <1>4, StoreStep, TurnItems DEF TypeOK
<1>6. InTurn /\ Current = Answer(t) /\ At = L + 1 /\ Said = said
  BY <1>1, <1>2, <1>3, <1>4 DEF InTurn, Current, At, Said
<1>7. Current' = Answer(t) /\ At' = L + 1 /\ Said' = said /\ (InTurn' <=> stream # <<>>)
  BY <1>1, <1>5 DEF InTurn, Current, At, Said
<1>8. asking = 0 /\ asking' = 0
  BY <1>1, <1>6, ShownFacts
<1>9. stream = <<>> => Len(stream) = 0 /\ idOf[Current] # "none"
  BY <1>4, <1>6, NumberFacts DEF ShownOK
<1>10. Newest' = Newest
  <2>1. Newest = (IF idOf[Current] # "none" THEN L + 1 ELSE L)
    BY <1>2, <1>6, ShownFacts
  <2>2. CASE stream = <<>>
    BY <1>5, <1>7, <1>8, <1>9, <2>1, <2>2 DEF Newest
  <2>3. CASE stream # <<>>
    <3>1. Newest' = (IF idOf'[Current'] # "none" THEN At' ELSE At' - 1)
      BY <1>7, <1>8, <2>3 DEF Newest
    <3> QED BY <1>1, <1>2, <1>6, <1>7, <2>1, <3>1
  <2> QED BY <2>2, <2>3
<1>11. ASSUME NEW m \in DOMAIN list', NEW R, NEW k, R = list'[m], k = cursor' + m
       PROVE  RowOK(R, k)'
  <2>1. RowOK(R, k) /\ m \in DOMAIN list /\ R.text \in Nat
    BY <1>1, <1>11, StateFacts DEF ShownOK
  <2>2. k \in Nat /\ k >= 1 /\ k <= L + 1
    BY <1>1, <1>2, <1>11, <2>1, ShownFacts, StateFacts
  <2>3. (ItemAt(k))' = ItemAt(k)
    BY <1>1, <1>2, <1>3, <1>5, <2>2 DEF ItemAt
  <2>4. k # L + 1 => R.text = (TextAt(k))'
    BY <1>2, <1>5, <1>6, <2>1, <2>2 DEF RowOK, TextAt
  <2>5. (TextAt(L + 1))' = said
    BY <1>2, <1>5 DEF TextAt
  <2>6. k = L + 1 => R.text + Len(stream) = said /\ R.id = idOf[Current]
    BY <1>6, <2>1 DEF RowOK
  <2>7. k = L + 1 /\ stream = <<>> => R.text = said
    <3>1. PICK len \in Nat : len = Len(stream) /\ (stream = <<>> => len = 0)
      BY <1>9, NumberFacts
    <3> QED BY <1>4, <2>1, <2>6, <3>1
  <2> QED BY <1>1, <1>6, <1>7, <2>1, <2>3, <2>4, <2>5, <2>6, <2>7 DEF RowOK
<1>12. \A m \in DOMAIN list' : RowOK(list[m], cursor + m)'
  BY <1>11, RowsStep
<1>13. cursor' + Len(list') = Newest'
  BY <1>1, <1>10 DEF ShownOK
<1>14. \A i \in DOMAIN stream' : stream'[i] = Current'
  BY <1>1, <1>6, <1>7 DEF ShownOK
<1>15. idOf'[Current'] = "none" => Len(stream') = Said'
  BY <1>1, <1>6, <1>7 DEF ShownOK
<1>16. At' # 0
  BY <1>2, <1>7
<1> QED BY <1>8, <1>12, <1>13, <1>14, <1>15, <1>16 DEF ShownOK

(* A turn that ends without an answer has shown none.                       *)
LEMMA DropsShown ==
  ASSUME TypeOK, TypeOK', TurnInv, PageInv, ShownOK, CodexDrops, ~crossed'
  PROVE  ShownOK'
<1>1. /\ turn # 0 /\ spoken = 0 /\ turn' = 0 /\ spoken' = 0
      /\ UNCHANGED <<store, asking, stream, list, idOf, cursor, pages>>
  <2>1. /\ turn # 0 /\ turn' = 0 /\ spoken' = 0 /\ crossed' = (crossed \/ spoken > 0)
        /\ UNCHANGED <<store, asking, stream, list, idOf, cursor, pages>>
    BY DEF CodexDrops, listVars, pageVars
  <2>2. ~(spoken > 0)
    BY Zenon, <2>1
  <2> QED BY <2>1, <2>2, NumberFacts
<1>2. PICK L \in Nat : L = Len(store) /\ DOMAIN store = 1..L
  BY StateFacts
<1>3. InTurn /\ Said = 0 /\ At = L + 1
  BY <1>1, <1>2 DEF InTurn, Said, At
<1>4. PICK N \in Nat : N = Len(list) /\ DOMAIN list = 1..N
  BY StateFacts
<1>5. PICK c \in Nat : c = cursor /\ (c = 0 \/ c < L)
  BY <1>2, StateFacts DEF PageInv, Cursor
<1>6. \A m \in DOMAIN list : c + m # L + 1
  <2>1. ASSUME NEW m \in DOMAIN list, c + m = L + 1
        PROVE  FALSE
    <3>1. RowOK(list[m], L + 1)
      BY <1>5, <2>1 DEF ShownOK
    <3>2. list[m].text + Len(stream) = 0
      BY <1>3, <3>1 DEF RowOK
    <3> QED BY <2>1, <3>2, StateFacts, NumberFacts
  <2> QED BY <2>1
<1>7. c + N = Newest /\ Newest = (IF idOf[Current] # "none" THEN L + 1 ELSE L + 1 - 1)
      /\ asking = 0
  BY <1>3, <1>4, <1>5, ShownFacts DEF ShownOK
<1>8. idOf[Current] = "none"
  <2>1. CASE N = 0
    BY <1>2, <1>5, <1>7, <2>1
  <2>2. CASE N # 0
    <3>1. N \in DOMAIN list
      BY <1>4, <2>2
    <3> QED BY <1>6, <1>7, <3>1
  <2> QED BY <2>1, <2>2
<1>9. stream = <<>>
  BY <1>3, <1>8, NumberFacts DEF ShownOK
<1>10. c + N = L
  BY <1>2, <1>7, <1>8
<1>11. ~InTurn' /\ Newest' = L
  BY <1>1, <1>2, <1>7, <1>9 DEF InTurn, Newest
<1>12. ASSUME NEW m \in DOMAIN list', NEW R, NEW k, R = list'[m], k = cursor' + m
       PROVE  RowOK(R, k)'
  <2>1. RowOK(R, k) /\ m \in DOMAIN list
    BY <1>1, <1>12 DEF ShownOK
  <2>2. k \in Nat /\ k >= 1 /\ k <= L
    BY <1>1, <1>4, <1>5, <1>10, <1>12, <2>1
  <2> QED BY <1>1, <1>2, <1>3, <1>11, <2>1, <2>2 DEF RowOK, ItemAt, TextAt
<1>13. \A m \in DOMAIN list' : RowOK(list[m], cursor + m)'
  BY <1>12, RowsStep
<1>14. cursor' + Len(list') = Newest'
  BY <1>1, <1>4, <1>5, <1>10, <1>11
<1>15. DOMAIN stream' = {} /\ stream' = <<>>
  BY <1>1, <1>9
<1> QED BY <1>1, <1>7, <1>11, <1>13, <1>14, <1>15 DEF ShownOK

LEMMA DeltaShown ==
  ASSUME TypeOK, TypeOK', TurnInv, PageInv, ShownOK, OnDelta
  PROVE  ShownOK'
<1>1. /\ stream # <<>> /\ stream' = Tail(stream)
      /\ UNCHANGED <<store, turn, spoken, asking, cursor, pages>>
  BY DeltaStep DEF serverVars, pageVars
<1>2. InTurn
  BY <1>1 DEF InTurn
<1>3. PICK L \in Nat : L = Len(store)
  BY StateFacts
<1>4. PICK n \in Items : n = Current
  BY <1>2, ShownFacts
<1>5. PICK at \in Nat \ {0} : at = At /\ (at = L \/ at = L + 1)
  BY <1>2, <1>3, ShownFacts
<1>6. PICK said \in Nat : said = Said
  BY <1>2, ShownFacts
<1>7. PICK len \in Nat \ {0} : len = Len(stream) /\ Len(stream') = len - 1
  BY <1>1, DeltaFacts DEF TypeOK
<1>8. Head(stream) = n
  <2>1. Head(stream) = stream[1] /\ 1 \in DOMAIN stream
    BY <1>1, DeltaFacts DEF TypeOK
  <2> QED BY <1>4, <2>1 DEF ShownOK
<1>9. /\ Current' = n /\ At' = at /\ Said' = said
      /\ ~InTurn' => turn = 0 /\ stream' = <<>>
  BY <1>1, <1>4, <1>5, <1>6 DEF Current, At, Said, InTurn
<1>10. asking = 0 /\ asking' = 0
  BY <1>1, <1>2, ShownFacts
<1>11. ~InTurn' => len = 1 /\ at = L /\ said = store[L].text
  <2>1. stream' = <<>> => Len(stream') = 0
    BY EmptySeq DEF TypeOK
  <2>2. turn = 0 => at = L /\ said = store[L].text
    BY <1>3, <1>5, <1>6 DEF At, Said
  <2>3. stream' = <<>> => len = 1
    <3>1. ASSUME stream' = <<>> PROVE len - 1 = 0
      BY <1>7, <2>1, <3>1
    <3>2. \A x \in Nat : x - 1 = 0 => x = 1
      OBVIOUS
    <3>3. len \in Nat
      BY <1>7
    <3> QED BY Zenon, <3>1, <3>2, <3>3
  <2> QED BY <1>9, <2>2, <2>3
<1>12. \A i \in DOMAIN stream' : stream'[i] = Current'
  <2>1. \A i \in DOMAIN stream' : stream'[i] = stream[i + 1] /\ i + 1 \in DOMAIN stream
    BY <1>1, DeltaFacts DEF TypeOK
  <2> QED BY <1>4, <1>9, <2>1 DEF ShownOK
<1>13. PICK c \in Nat : c = cursor /\ c = cursor'
  BY <1>1, StateFacts
<1>14. PICK N \in Nat : N = Len(list) /\ DOMAIN list = 1..N
  BY StateFacts
<1>15. c + N = Newest /\ Newest = (IF idOf[n] # "none" THEN at ELSE at - 1)
  BY <1>2, <1>4, <1>5, <1>13, <1>14, ShownFacts DEF ShownOK
<1>16. idOf'[n] # "none" => Newest' = at
  BY <1>1, <1>3, <1>9, <1>10, <1>11 DEF Newest
(* A row of the next state, where the rest of the stream is one shorter.    *)
<1>17. ASSUME NEW R, NEW k \in Nat, R.text \in Nat, R.item = ItemAt(k), k <= at,
              k = at => R.text + (len - 1) = said /\ R.id = idOf'[n],
              k # at => R.text = TextAt(k),
              R.id = "live" => \A p \in DOMAIN pages :
                pages[p].kind = "more" => pages[p].cursor < k
       PROVE  RowOK(R, k)'
  <2>1. (ItemAt(k))' = ItemAt(k) /\ (TextAt(k))' = TextAt(k)
    BY <1>1 DEF ItemAt, TextAt
  <2>2. ~InTurn' /\ k = at => R.text = TextAt(k)
    <3>1. TextAt(L) = store[L].text
      BY <1>3 DEF TextAt
    <3>2. PICK t \in Nat : t = R.text
      BY <1>17
    <3>3. len = 1 /\ k = at => t = said
      BY <1>6, <1>7, <1>17, <3>2
    <3> QED BY <1>11, <3>1, <3>2, <3>3
  <2>3. k = at => R.text + Len(stream') = said
    BY <1>7, <1>17
  <2> QED BY <1>1, <1>9, <1>17, <2>1, <2>2, <2>3 DEF RowOK
<1>18. \A m \in DOMAIN list : RowOK(list[m], c + m) /\ c + m \in Nat /\ m \in Nat
  BY <1>13, <1>14 DEF ShownOK
<1>19. \A m \in DOMAIN list : list[m].item = n <=> c + m = at
  <2>1. \A m \in DOMAIN list : list[m].item = n => c + m = at
    BY <1>2, <1>4, <1>5, <1>13, ItemsApart
  <2>2. ItemAt(at) = n
    BY <1>2, <1>4, <1>5, ShownFacts
  <2> QED BY <1>18, <2>1, <2>2 DEF RowOK
<1>20. CASE idOf[n] # "none"
  <2>1. /\ idOf' = idOf /\ DOMAIN list' = DOMAIN list /\ Len(list') = Len(list)
        /\ \A m \in DOMAIN list :
             /\ list'[m].item = list[m].item
             /\ list'[m].id = list[m].id
             /\ list'[m].text = IF list[m].item = n /\ list[m].id = idOf[n]
                                THEN list[m].text + 1 ELSE list[m].text
    <3>1. idOf[Head(stream)] # "none"
      BY <1>8, <1>20
    <3>2. /\ idOf' = idOf /\ DOMAIN list' = DOMAIN list /\ Len(list') = Len(list)
          /\ \A m \in DOMAIN list :
               /\ list'[m].item = list[m].item
               /\ list'[m].id = list[m].id
               /\ list'[m].text =
                    IF list[m].item = Head(stream) /\ list[m].id = idOf[Head(stream)]
                    THEN list[m].text + 1 ELSE list[m].text
      BY <3>1, DeltaStep
    <3> QED BY <1>8, <3>2
  <2>2. ASSUME NEW m \in DOMAIN list', NEW R, NEW k, R = list'[m], k = cursor' + m
        PROVE  RowOK(R, k)'
    <3>1. PICK Q : Q = list[m]
      OBVIOUS
    <3>2. m \in DOMAIN list /\ k = c + m /\ k \in Nat /\ RowOK(Q, k) /\ Q.text \in Nat
      BY <1>13, <1>18, <2>1, <2>2, <3>1, StateFacts
    <3>3. /\ R.item = Q.item /\ R.id = Q.id
          /\ R.text = IF Q.item = n /\ Q.id = idOf[n] THEN Q.text + 1 ELSE Q.text
      BY <2>1, <2>2, <3>1, <3>2
    <3>4. k <= at
      BY <1>14, <1>15, <1>20, <2>2, <3>2
    <3>5. k = at => R.text + (len - 1) = said /\ R.id = idOf'[n]
      <4>1. k = at => Q.item = n /\ Q.id = idOf[n] /\ Q.text + len = said
        BY <1>2, <1>4, <1>5, <1>6, <1>7, <1>19, <3>1, <3>2 DEF RowOK
      <4>2. PICK t \in Nat : t = Q.text
        BY <3>2
      <4>3. t + len = said => (t + 1) + (len - 1) = said
        BY <1>6, <1>7, <4>2
      <4> QED BY <2>1, <3>3, <4>1, <4>2, <4>3
    <3>6. k # at => R.text = TextAt(k)
      BY <1>5, <1>19, <3>1, <3>2, <3>3 DEF RowOK
    <3>7. R.text \in Nat /\ R.item = ItemAt(k)
      BY <3>2, <3>3 DEF RowOK
    <3>8. R.id = "live" => \A p \in DOMAIN pages :
            pages[p].kind = "more" => pages[p].cursor < k
      BY <3>2, <3>3 DEF RowOK
    <3> QED BY <1>17, <3>2, <3>4, <3>5, <3>6, <3>7, <3>8
  <2>3. \A m \in DOMAIN list' : RowOK(list[m], cursor + m)'
    BY <2>2, RowsStep
  <2>4. cursor' + Len(list') = Newest'
    BY <1>13, <1>14, <1>15, <1>16, <1>20, <2>1
  <2>5. idOf'[n] # "none"
    BY <1>20, <2>1
  <2> QED BY <1>5, <1>9, <1>10, <1>12, <2>3, <2>4, <2>5 DEF ShownOK
<1>21. CASE idOf[n] = "none"
  <2>1. list' = Append(list, Message(n, "live", 1)) /\ idOf' = [idOf EXCEPT ![n] = "live"]
    BY <1>8, <1>21, DeltaStep
  <2>2. idOf'[n] = "live"
    BY <2>1 DEF TypeOK
  <2>3. /\ Len(list') = N + 1 /\ DOMAIN list' = 1..(N + 1)
        /\ \A m \in DOMAIN list : list'[m] = list[m]
        /\ list'[N + 1].item = n
        /\ list'[N + 1].id = "live"
        /\ list'[N + 1].text = 1
    BY <1>14, <2>1, AppendFacts DEF TypeOK
  <2>4. c + N = at - 1 /\ len = said
    BY <1>2, <1>4, <1>6, <1>7, <1>15, <1>21 DEF ShownOK
  <2>5. ASSUME NEW m \in DOMAIN list', NEW R, NEW k, R = list'[m], k = cursor' + m
        PROVE  RowOK(R, k)'
    <3>1. CASE m = N + 1
      <4>1. k = at /\ R.item = n /\ R.id = "live" /\ R.text = 1
        BY <1>5, <1>13, <1>14, <2>3, <2>4, <2>5, <3>1
      <4>2. ItemAt(at) = n
        BY <1>2, <1>4, <1>5, ShownFacts
      <4>3. 1 + (len - 1) = said
        BY <1>7, <2>4
      <4>4. \A p \in DOMAIN pages : pages[p].cursor < at
        <5>1. \A p \in DOMAIN pages :
                pages[p].cursor \in Nat /\ (pages[p].cursor = 0 \/ pages[p].cursor < L)
          BY <1>3, StateFacts DEF PageInv, PageOK, Cursor
        <5> QED BY <1>3, <1>5, <5>1
      <4> QED BY <1>5, <1>17, <2>2, <4>1, <4>2, <4>3, <4>4
    <3>2. CASE m # N + 1
      <4>1. m \in DOMAIN list /\ k = c + m /\ k \in Nat /\ k <= at - 1
        BY <1>5, <1>13, <1>14, <2>3, <2>4, <2>5, <3>2
      <4>2. RowOK(R, k) /\ R.text \in Nat
        BY <1>18, <2>3, <2>5, <4>1, StateFacts
      <4>3. k <= at /\ k # at
        BY <1>5, <4>1
      <4>4. R.item = ItemAt(k) /\ R.text = TextAt(k)
        BY <1>5, <4>2, <4>3 DEF RowOK
      <4>5. R.id = "live" => \A p \in DOMAIN pages :
              pages[p].kind = "more" => pages[p].cursor < k
        BY <4>2 DEF RowOK
      <4> QED BY <1>17, <4>1, <4>2, <4>3, <4>4, <4>5
    <3> QED BY <3>1, <3>2
  <2>6. \A m \in DOMAIN list' : RowOK(list[m], cursor + m)'
    BY <2>5, RowsStep
  <2>7. cursor' + Len(list') = Newest'
    <3>1. c + (N + 1) = at
      BY <1>5, <1>13, <1>14, <2>4
    <3> QED BY <1>13, <1>16, <2>2, <2>3, <3>1
  <2> QED BY <1>5, <1>9, <1>10, <1>12, <2>2, <2>6, <2>7 DEF ShownOK
<1> QED BY <1>20, <1>21

LEMMA FirstPageShown ==
  ASSUME TypeOK, TypeOK', TurnInv, PageInv, NEW p \in DOMAIN pages, OnFirstPage(p), ~crossed'
  PROVE  ShownOK'
<1>1. PICK data : data = pages[p].data
  OBVIOUS
<1>2. PICK next : next = pages[p].next
  OBVIOUS
<1>3. /\ pages[p].at = "answered" /\ list' = data /\ cursor' = next
      /\ UpToDate(data) /\ UNCHANGED <<store, turn, asking, stream>>
  BY <1>1, <1>2 DEF OnFirstPage, serverVars
<1>4. PICK L \in Nat : L = Len(store) /\ DOMAIN store = 1..L
  BY StateFacts
<1>5. PICK D \in Nat : D = Len(data) /\ DOMAIN data = 1..D
  BY <1>1, <1>3, AnsweredFacts
<1>6. /\ next \in Nat /\ next + D <= L
      /\ \A m \in DOMAIN data : /\ data[m].item = store[next + m].item
                                /\ data[m].text = store[next + m].text
                                /\ data[m].id = "history"
      /\ data = <<>> => next = 0
      /\ data \in Seq(Messages)
  BY <1>1, <1>2, <1>3, <1>4, <1>5, AnsweredFacts
<1>7. /\ turn = 0 /\ asking = 0 /\ stream = <<>>
      /\ data # <<>> => store # <<>> /\ data[D].item = store[L].item
      /\ data = <<>> => store = <<>>
  BY <1>3, <1>4, <1>5 DEF UpToDate, Last
<1>8. ~InTurn' /\ Newest' = L
  BY <1>3, <1>4, <1>7 DEF InTurn, Newest
<1>9. next + D = L
  <2>1. CASE data = <<>>
    <3>1. D = 0 /\ L = 0
      BY <1>4, <1>5, <1>7, <2>1
    <3> QED BY <1>6, <2>1, <3>1
  <2>2. CASE data # <<>>
    <3>1. D # 0
      BY <1>5, <1>6, <2>2, EmptySeq
    <3>2. D \in DOMAIN data /\ next + D \in DOMAIN store /\ L \in DOMAIN store
      BY <1>4, <1>5, <1>6, <3>1
    <3>3. store[next + D].item = store[L].item
      BY <1>6, <1>7, <2>2, <3>2
    <3> QED BY <3>2, <3>3 DEF TurnInv
  <2> QED BY <2>1, <2>2
<1>10. ASSUME NEW m \in DOMAIN list', NEW R, NEW k, R = list'[m], k = cursor' + m
       PROVE  RowOK(R, k)'
  <2>1. m \in DOMAIN data /\ R = data[m] /\ k = next + m /\ k <= L
    BY <1>3, <1>5, <1>6, <1>9, <1>10
  <2>2. R.item = store[k].item /\ R.text = store[k].text /\ R.id # "live"
    BY <1>6, <2>1
  <2> QED BY <1>3, <1>4, <1>8, <2>1, <2>2 DEF RowOK, ItemAt, TextAt
<1>11. \A m \in DOMAIN list' : RowOK(list[m], cursor + m)'
  BY <1>10, RowsStep
<1>12. cursor' + Len(list') = Newest'
  BY <1>3, <1>5, <1>8, <1>9
<1>13. DOMAIN stream' = {} /\ stream' = <<>>
  BY <1>3, <1>7
<1> QED BY <1>3, <1>7, <1>8, <1>11, <1>12, <1>13 DEF ShownOK

LEMMA MorePageShown ==
  ASSUME TypeOK, TypeOK', TurnInv, PageInv, ShownOK,
         NEW p \in DOMAIN pages, OnMorePage(p), Fits(p)
  PROVE  ShownOK'
<1>1. /\ UNCHANGED <<store, turn, spoken, asking, stream>>
      /\ idOf' = WithIds(pages[p].data)
      /\ pages[p].at = "answered" /\ pages[p].kind = "more"
      /\ Finish(p)
  BY DEF OnMorePage, serverVars
<1>2. PICK b \in Nat : b = cursor
  BY StateFacts
<1>3. PICK ask \in Nat : ask = pages[p].cursor
  BY StateFacts
<1>4. PICK d \in Nat :
        /\ cursor' = cursor - d
        /\ cursor' \in Nat
        /\ cursor <= pages[p].cursor
        /\ Len(list') = d + Len(list)
        /\ DOMAIN list' = 1..(d + Len(list))
        /\ \A m \in 1..d : /\ list'[m].item = store[cursor' + m].item
                           /\ list'[m].text = store[cursor' + m].text
                           /\ list'[m].id = "history"
        /\ \A m \in DOMAIN list : list'[d + m] = list[m]
  BY MoreFits
<1>5. PICK c \in Nat : c = cursor' /\ c = b - d /\ b <= ask
  BY <1>2, <1>3, <1>4
<1>6. PICK L \in Nat : L = Len(store) /\ DOMAIN store = 1..L
  BY StateFacts
<1>7. ask < L
  BY <1>1, <1>3, <1>6, NumberFacts DEF PageInv, PageOK, Cursor
<1>8. PICK N \in Nat : N = Len(list) /\ DOMAIN list = 1..N
  BY StateFacts
<1>9. Current' = Current /\ Said' = Said /\ At' = At /\ (InTurn' <=> InTurn)
  BY <1>1 DEF Current, Said, At, InTurn
<1>10. At >= L /\ At \in Nat
  BY <1>6, ShownFacts
<1>11. InTurn => idOf'[Current] = idOf[Current]
  <2>1. PICK data : data = pages[p].data
    OBVIOUS
  <2>2. PICK next \in Nat : next = pages[p].next
    BY StateFacts
  <2>3. PICK D \in Nat : D = Len(data) /\ DOMAIN data = 1..D
    BY <1>1, <2>1, AnsweredFacts
  <2>4. /\ \A m \in DOMAIN data : data[m].item = store[next + m].item
        /\ next + D = ask
    BY <1>1, <1>3, <2>1, <2>2, <2>3, AnsweredFacts
  <2>5. ASSUME InTurn, NEW m \in DOMAIN data
        PROVE  data[m].item # Current
    <3>1. PICK a \in Nat \ {0} : a = At /\ (a = L + 1 => turn # 0) /\ a <= L + 1
      BY <1>6, <2>5, ShownFacts DEF At
    <3>2. Current = ItemAt(a) /\ data[m].item = ItemAt(next + m)
      BY <1>6, <1>7, <2>3, <2>4, <2>5, <3>1, ShownFacts DEF ItemAt
    <3>3. next + m \in 1..(L + 1) /\ next + m < L /\ a >= L /\ a \in 1..(L + 1)
      BY <1>7, <1>10, <2>3, <2>4, <3>1
    <3> QED BY <1>6, <3>1, <3>2, <3>3, PositionsApart
  <2>6. ASSUME InTurn
        PROVE  idOf'[Current] = idOf[Current]
    <3>1. PICK n \in Items : n = Current
      BY <2>6, ShownFacts
    <3>2. \A m \in DOMAIN data : data[m].item # n
      BY <2>5, <2>6, <3>1
    <3> QED BY <1>1, <2>1, <3>1, <3>2, IdsStep
  <2> QED BY <2>6
<1>12. Newest' = Newest
  BY <1>1, <1>9, <1>11 DEF Newest
<1>13. \A q \in DOMAIN pages' : \E n \in DOMAIN pages : pages'[q] = pages[n]
  BY <1>1, FinishFacts DEF TypeOK
<1>14. ASSUME NEW m \in DOMAIN list', NEW R, NEW k, R = list'[m], k = cursor' + m
       PROVE  RowOK(R, k)'
  <2>0. m \in Nat /\ m >= 1 /\ m <= d + N
    BY <1>4, <1>8
  <2>1. CASE m <= d
    <3>1. m \in 1..d /\ k \in Nat /\ k <= b /\ k = c + m
      <4>1. k = c + m /\ m \in 1..d
        <5>1. m \in 1..d
          BY <2>0, <2>1
        <5> QED BY <1>5, <1>14, <5>1
      <4>2. \A x, y, z \in Nat : \A i \in 1..y : x = z - y => x + i \in Nat /\ x + i <= z
        OBVIOUS
      <4>3. c = b - d
        BY <1>5
      <4>4. c + m \in Nat /\ c + m <= b
        BY <4>1, <4>2, <4>3
      <4> QED BY <4>1, <4>4
    <3>2. R.item = store[k].item /\ R.text = store[k].text /\ R.id = "history"
      BY <1>4, <1>5, <1>14, <3>1
    <3>3. k # At /\ k <= L
      BY <1>5, <1>7, <1>10, <3>1
    <3> QED BY <1>1, <1>6, <1>9, <3>2, <3>3 DEF RowOK, ItemAt, TextAt
  <2>2. CASE m > d
    <3>1. PICK i \in DOMAIN list : m = d + i
      <4>1. m - d \in DOMAIN list /\ m = d + (m - d)
        BY <1>8, <2>0, <2>2
      <4> QED BY <4>1
    <3>2. R = list[i] /\ k = b + i
      <4>1. c + (d + i) = b + i
        BY <1>5, <1>8
      <4> QED BY <1>4, <1>5, <1>14, <3>1, <4>1
    <3>3. RowOK(R, k)
      BY <1>2, <3>2 DEF ShownOK
    <3> QED BY <1>1, <1>9, <1>11, <1>13, <3>3 DEF RowOK, ItemAt, TextAt
  <2> QED BY <2>0, <2>1, <2>2
<1>15. \A m \in DOMAIN list' : RowOK(list[m], cursor + m)'
  BY <1>14, RowsStep
<1>16. cursor' + Len(list') = Newest'
  <2>1. b + N = Newest /\ c + (d + N) = b + N
    BY <1>2, <1>5, <1>8 DEF ShownOK
  <2> QED BY <1>4, <1>5, <1>8, <1>12, <2>1
<1>17. InTurn /\ idOf'[Current] = "none" => Len(stream') = Said
  BY <1>1, <1>11 DEF ShownOK
<1> QED BY <1>1, <1>9, <1>15, <1>16, <1>17 DEF ShownOK

LEMMA ShownStep ==
  TypeOK /\ TypeOK' /\ TurnInv /\ PageInv /\ ListInv /\ ShownInv /\ [Next]_vars => ShownInv'
<1> SUFFICES ASSUME TypeOK, TypeOK', TurnInv, PageInv, ListInv, ShownInv, [Next]_vars,
                    loaded', ~crossed'
             PROVE  ShownOK'
  BY DEF ShownInv
<1>1. ASSUME loaded, ~crossed
      PROVE  ShownOK
  BY <1>1 DEF ShownInv
<1>2. CASE Send
  BY <1>1, <1>2, SendShown DEF Send
<1>3. CASE SendFails \/ StartsElsewhere
  BY <1>3 DEF SendFails, StartsElsewhere
<1>4. CASE \E j \in posts : CodexStarts(j)
  <2>1. PICK j \in posts : CodexStarts(j)
    BY <1>4
  <2>2. loaded /\ ~crossed
    BY <2>1 DEF CodexStarts, Starts, listVars
  <2> QED BY <1>1, <2>1, <2>2, StartsShown
<1>5. CASE CodexSpeaks
  BY <1>1, <1>5, SpeaksShown DEF CodexSpeaks, listVars, historyVars
<1>6. CASE CodexStores
  BY <1>1, <1>6, StoresShown DEF CodexStores, listVars, historyVars
<1>7. CASE CodexDrops
  BY <1>1, <1>7, DropsShown DEF CodexDrops, listVars
<1>8. CASE OnDelta
  BY <1>1, <1>8, DeltaShown DEF OnDelta, historyVars
<1>9. ASSUME UNCHANGED <<list, cursor, idOf, loaded, crossed, stream, turn, store, spoken, asking>>,
             \A q \in DOMAIN pages' : pages'[q].kind = "more" =>
               \/ cursor # 0 /\ pages'[q].cursor = cursor
               \/ \E r \in DOMAIN pages : /\ pages[r].kind = "more"
                                          /\ pages'[q].cursor = pages[r].cursor
      PROVE  ShownOK'
  <2>1. ShownOK
    BY <1>1, <1>9
  <2> QED BY <1>9, <2>1, SameShown
<1>10. CASE AskFirst
  <2>1. /\ UNCHANGED <<list, cursor, idOf, loaded, crossed, stream, turn, store, spoken, asking>>
        /\ Ask("first", 0)
    BY <1>10 DEF AskFirst, serverVars, listVars, historyVars
  <2>2. \A q \in DOMAIN pages' : pages'[q].kind = "more" =>
          \E r \in DOMAIN pages : /\ pages[r].kind = "more"
                                  /\ pages'[q].cursor = pages[r].cursor
    <3>1. \A q \in DOMAIN pages' :
            \/ \E n \in DOMAIN pages : pages'[q] = pages[n]
            \/ pages'[q].kind = "first"
      BY <2>1, AskFacts DEF TypeOK
    <3> QED BY <3>1
  <2> QED BY <1>9, <2>1, <2>2
<1>11. CASE AskMore
  <2>1. /\ UNCHANGED <<list, cursor, idOf, loaded, crossed, stream, turn, store, spoken, asking>>
        /\ Ask("more", cursor) /\ cursor # 0
    BY <1>11 DEF AskMore, serverVars, listVars, historyVars
  <2>2. PICK c \in Nat : c = cursor
    BY StateFacts
  <2>3. \A q \in DOMAIN pages' : pages'[q].kind = "more" =>
          \/ pages'[q].cursor = cursor
          \/ \E r \in DOMAIN pages : /\ pages[r].kind = "more"
                                     /\ pages'[q].cursor = pages[r].cursor
    BY SMTT(30), <2>1, <2>2, AskFacts DEF TypeOK
  <2> QED BY <1>9, <2>1, <2>3
<1>12. CASE AskMoreElsewhere \/ MoreElsewhereOver \/ UNCHANGED vars
  <2>1. UNCHANGED <<list, cursor, idOf, loaded, crossed, stream, turn, store, spoken, asking, pages>>
    BY <1>12 DEF AskMoreElsewhere, MoreElsewhereOver, vars, serverVars, listVars, pageVars,
                 historyVars
  <2> QED BY <1>9, <2>1
<1>13. ASSUME NEW p \in DOMAIN pages, ListThreadMessages(p)
       PROVE  ShownOK'
  <2>1. UNCHANGED <<list, cursor, idOf, loaded, crossed, stream, turn, store, spoken, asking>>
    BY <1>13 DEF ListThreadMessages, serverVars, listVars, historyVars
  <2>2. /\ DOMAIN pages' = DOMAIN pages
        /\ \A q \in DOMAIN pages : /\ pages'[q].kind = pages[q].kind
                                   /\ pages'[q].cursor = pages[q].cursor
    BY <1>13, AnswerFacts DEF TypeOK
  <2> QED BY <1>9, <2>1, <2>2
<1>14. ASSUME NEW p \in DOMAIN pages, OnPageFailed(p)
       PROVE  ShownOK'
  <2>1. /\ UNCHANGED <<list, cursor, idOf, loaded, crossed, stream, turn, store, spoken, asking>>
        /\ Finish(p)
    BY <1>14 DEF OnPageFailed, serverVars, listVars, historyVars
  <2>2. \A q \in DOMAIN pages' : \E n \in DOMAIN pages : pages'[q] = pages[n]
    BY <2>1, FinishFacts DEF TypeOK
  <2> QED BY <1>9, <2>1, <2>2
<1>15. ASSUME NEW p \in DOMAIN pages, OnFirstPage(p)
       PROVE  ShownOK'
  BY <1>15, FirstPageShown
<1>16. ASSUME NEW p \in DOMAIN pages, OnMorePage(p)
       PROVE  ShownOK'
  <2>1. loaded /\ ~crossed /\ Fits(p)
    BY <1>16 DEF OnMorePage
  <2> QED BY <1>1, <1>16, <2>1, MorePageShown
<1> QED BY <1>2, <1>3, <1>4, <1>5, <1>6, <1>7, <1>8, <1>10, <1>11, <1>12, <1>13, <1>14, <1>15, <1>16
       DEF Next


-----------------------------------------------------------------------------
(* The messages of a thread: theorems                                       *)

LEMMA HistoryInit == Init => HistoryInv
BY TypeInit, TurnInit, PageInit, UniqueInit, ShownInit DEF HistoryInv

LEMMA HistoryNext == HistoryInv /\ [Next]_vars => HistoryInv'
<1> SUFFICES ASSUME HistoryInv, [Next]_vars PROVE HistoryInv'
  OBVIOUS
<1>1. TypeOK /\ TurnInv /\ PageInv /\ ListInv /\ ShownInv
  BY DEF HistoryInv
<1>2. TypeOK'
  BY <1>1, TypeStep
<1>3. TurnInv' /\ PageInv'
  BY <1>1, <1>2, TurnStep, PageStep
<1>4. ListInv' /\ ShownInv'
  BY <1>1, <1>2, <1>3, ListStep, ShownStep
<1> QED BY <1>2, <1>3, <1>4 DEF HistoryInv

(* The invariant of the messages of a thread: codex stores each once, pages *)
(* of history hold what is stored, a live message is ahead of every older   *)
(* page that is still to come, and the list shows every message from the    *)
(* cursor on once, an answer as far as its deltas have come.                *)
THEOREM HistoryInvariant == Spec => []HistoryInv
<1>1. Init => HistoryInv
  BY HistoryInit
<1>2. HistoryInv /\ [Next]_vars => HistoryInv'
  BY HistoryNext
<1> QED BY <1>1, <1>2, PTL DEF Spec

(* No message is shown twice, whatever pages and deltas cross, turns are    *)
(* interrupted and sends fail: the merge of an older page compares ids, and *)
(* the history and the live one of a message never meet; unless a first     *)
(* page began behind an answer whose first delta was still to come.         *)
THEOREM EachShownOnce == Spec => []ShownOnce
<1>1. HistoryInv => ShownOnce
  BY DEF HistoryInv, ListInv, OnceInv, ShownOnce
<1> QED BY <1>1, HistoryInvariant, PTL

(* The list has no gap and no disorder, and "Load more" continues where it  *)
(* begins, however pages and turns interleave.  It takes, since the last    *)
(* first page that was up to date as it arrived: a send before the turn     *)
(* before is over on this tab or one that fails, a turn that was not asked  *)
(* for here or was given up, an answer dropped half said, or an older page  *)
(* that comes twice and late.                                               *)
THEOREM NoGapInList == Spec => []NoGap
<1>1. HistoryInv => NoGap
  <2> SUFFICES ASSUME HistoryInv, loaded, ~crossed, NEW m \in DOMAIN list
               PROVE  IF cursor + m <= Len(store)
                      THEN list[m].item = store[cursor + m].item
                      ELSE m = Len(list) /\ list[m].item \notin Before(Len(store))
    BY DEF NoGap
  <2>1. TypeOK /\ TurnInv /\ ShownOK
    BY DEF HistoryInv, ShownInv
  <2>2. PICK L \in Nat : L = Len(store) /\ DOMAIN store = 1..L
    BY <2>1, StateFacts
  <2>3. PICK N \in Nat : N = Len(list) /\ m \in 1..N
    BY <2>1, StateFacts
  <2>4. PICK c \in Nat : c = cursor
    BY <2>1, StateFacts
  <2>5. /\ list[m].item = ItemAt(c + m)
        /\ c + N <= L + 1
        /\ c + N = L + 1 => turn # 0 \/ asking # 0
    BY <2>1, <2>2, <2>3, <2>4, ShownFacts DEF ShownOK, RowOK
  <2>6. CASE c + m <= L
    BY <2>2, <2>4, <2>5, <2>6 DEF ItemAt
  <2>7. CASE ~(c + m <= L)
    <3>1. m = N /\ c + m = L + 1 /\ (turn # 0 \/ asking # 0)
      BY <2>3, <2>5, <2>7
    <3>2. ASSUME NEW n \in 1..L
          PROVE  store[n].item # list[m].item
      <4>1. store[n].item = ItemAt(n)
        BY <2>2 DEF ItemAt
      <4>2. n \in 1..(L + 1) /\ L + 1 \in 1..(L + 1) /\ n # L + 1
        BY <3>2
      <4>3. ItemAt(n) # ItemAt(L + 1)
        BY <2>1, <2>2, <3>1, <4>2, PositionsApart
      <4> QED BY <2>5, <3>1, <4>1, <4>3
    <3> QED BY <2>2, <2>3, <2>4, <2>7, <3>1, <3>2 DEF Before
  <2> QED BY <2>6, <2>7
<1> QED BY <1>1, HistoryInvariant, PTL

(* When every delta is delivered and no turn runs, every message shown has  *)
(* its whole text, as codex stored it, and the newest one is shown, with    *)
(* the same exceptions.                                                     *)
THEOREM TextIsComplete == Spec => []TextComplete
<1>1. HistoryInv => TextComplete
  <2> SUFFICES ASSUME HistoryInv, loaded, ~crossed, turn = 0, asking = 0, stream = <<>>
               PROVE  /\ cursor + Len(list) = Len(store)
                      /\ \A m \in DOMAIN list : list[m].text = store[cursor + m].text
    BY DEF TextComplete
  <2>1. TypeOK /\ TurnInv /\ ShownOK
    BY DEF HistoryInv, ShownInv
  <2>2. PICK L \in Nat : L = Len(store)
    BY <2>1, StateFacts
  <2>3. ~InTurn /\ Newest = L
    BY <2>2 DEF InTurn, Newest
  <2>4. cursor + Len(list) = L
    BY <2>1, <2>3 DEF ShownOK
  <2>5. ASSUME NEW m \in DOMAIN list
        PROVE  list[m].text = store[cursor + m].text
    <3>1. PICK k \in Nat : k = cursor + m /\ k <= L
      BY <2>1, <2>3, ShownFacts
    <3>2. list[m].text = TextAt(k)
      BY <2>1, <2>3, <3>1 DEF ShownOK, RowOK
    <3> QED BY <2>2, <3>1, <3>2 DEF TextAt
  <2> QED BY <2>2, <2>4, <2>5
<1> QED BY <1>1, HistoryInvariant, PTL

-----------------------------------------------------------------------------
(* MessageList: the rows of the virtual list                                *)

(* Between two commits the list only grows, at its end while messages are   *)
(* added and at its beginning while older pages are.                        *)
Kinds == {"page", "older", "tail"}

BatchInv ==
  /\ batch \in Seq(Kinds)
  /\ shown \in Seq(Messages)
  /\ firstItemIndex \in Int
  /\ ~crossed /\ Range(batch) \subseteq {"tail"} =>
       /\ Len(shown) <= Len(list)
       /\ \A m \in DOMAIN shown : list[m].item = shown[m].item /\ list[m].id = shown[m].id
  /\ ~crossed /\ Range(batch) \subseteq {"older"} =>
       /\ Len(shown) <= Len(list)
       /\ \A m \in DOMAIN shown : list[m + (Len(list) - Len(shown))] = shown[m]

RowsInv == HistoryInv /\ BatchInv

LEMMA RangeFacts ==
  ASSUME NEW S, NEW s \in Seq(S), NEW e \in S
  PROVE  /\ Append(s, e) \in Seq(S)
         /\ Append(s, e) # <<>>
         /\ e \in Range(Append(s, e))
         /\ Range(s) \subseteq Range(Append(s, e))
<1>1. /\ Append(s, e) \in Seq(S)
      /\ Len(Append(s, e)) = Len(s) + 1
      /\ \A i \in 1..Len(s) : Append(s, e)[i] = s[i]
      /\ Append(s, e)[Len(s) + 1] = e
  BY AppendProperties
<1>2. /\ Len(s) \in Nat /\ DOMAIN s = 1..Len(s)
      /\ DOMAIN Append(s, e) = 1..(Len(s) + 1)
  BY <1>1, DomainOfSeq
<1>3. Append(s, e) # <<>>
  BY <1>1, <1>2, EmptySeq
<1> QED BY <1>1, <1>2, <1>3 DEF Range

LEMMA DispatchedFacts ==
  ASSUME batch \in Seq(Kinds), NEW kind \in Kinds, Dispatched(kind)
  PROVE  /\ batch' \in Seq(Kinds)
         /\ batch' # <<>>
         /\ kind \in Range(batch')
         /\ Range(batch) \subseteq Range(batch')
         /\ UNCHANGED <<shown, firstItemIndex>>
BY RangeFacts DEF Dispatched

(* A change at the end of the list leaves the rows there are.               *)
LEMMA TailStep ==
  ASSUME TypeOK, Send \/ OnDelta
  PROVE  /\ Len(list) <= Len(list')
         /\ \A m \in DOMAIN list : list'[m].item = list[m].item /\ list'[m].id = list[m].id
         /\ ~crossed' => ~crossed
<1> USE Constants
<1>1. Len(list) \in Nat
  BY StateFacts
<1>2. CASE Send
  <2>1. PICK j \in 1..MaxTurns : j = turns + 1
    BY <1>2, StateFacts DEF Send
  <2>2. list' = Append(list, Message(Question(j), "live", 1)) /\ (~crossed' => ~crossed)
    BY <1>2, <2>1 DEF Send
  <2>3. /\ Len(list') = Len(list) + 1
        /\ \A m \in DOMAIN list : list'[m] = list[m]
    BY <2>1, <2>2, AppendFacts, TurnItems DEF TypeOK
  <2> QED BY <1>1, <2>2, <2>3
<1>3. CASE OnDelta
  <2>1. crossed' = crossed /\ Head(stream) \in Items
    BY <1>3, DeltaStep DEF historyVars
  <2>2. CASE idOf[Head(stream)] # "none"
    <3>1. /\ Len(list') = Len(list)
          /\ \A m \in DOMAIN list : list'[m].item = list[m].item /\ list'[m].id = list[m].id
      BY <1>3, <2>2, DeltaStep
    <3> QED BY <1>1, <2>1, <3>1
  <2>3. CASE idOf[Head(stream)] = "none"
    <3>1. list' = Append(list, Message(Head(stream), "live", 1))
      BY <1>3, <2>3, DeltaStep
    <3>2. /\ Len(list') = Len(list) + 1
          /\ \A m \in DOMAIN list : list'[m] = list[m]
      BY <2>1, <3>1, AppendFacts DEF TypeOK
    <3> QED BY <1>1, <2>1, <3>2
  <2> QED BY <2>2, <2>3
<1> QED BY <1>2, <1>3

LEMMA HistoryStepIsNext == HistoryStep => Next
BY DEF HistoryStep, Next

LEMMA RowsInit == ListInit => RowsInv
<1> SUFFICES ASSUME ListInit PROVE RowsInv
  OBVIOUS
<1>1. HistoryInv
  BY HistoryInit DEF ListInit
<1>2. shown = <<>> /\ batch = <<>> /\ firstItemIndex \in Int /\ list = <<>>
  BY DEF ListInit, Init, InitialIndex
<1>3. shown \in Seq(Messages) /\ batch \in Seq(Kinds)
  BY <1>2, EmptySeq
<1>4. Len(shown) <= Len(list) /\ DOMAIN shown = {}
  BY <1>2, EmptySeq
<1> QED BY <1>1, <1>2, <1>3, <1>4 DEF RowsInv, BatchInv

LEMMA RowsNext == RowsInv /\ [ListNext]_<<vars, viewVars>> => RowsInv'
<1> SUFFICES ASSUME RowsInv, [ListNext]_<<vars, viewVars>> PROVE RowsInv'
  OBVIOUS
<1>1. HistoryInv /\ BatchInv /\ TypeOK /\ TurnInv /\ PageInv /\ ListInv /\ ShownInv
  BY DEF RowsInv, HistoryInv
<1>2. [Next]_vars
  BY HistoryStepIsNext DEF ListNext, Commit
<1>3. HistoryInv' /\ TypeOK'
  BY <1>1, <1>2, HistoryNext DEF HistoryInv
<1>4. /\ Len(list) \in Nat /\ DOMAIN list = 1..Len(list) /\ Len(list') \in Nat
      /\ Len(shown) \in Nat /\ DOMAIN shown = 1..Len(shown)
      /\ batch \in Seq(Kinds) /\ shown \in Seq(Messages) /\ firstItemIndex \in Int
  <2>1. list \in Seq(Messages) /\ list' \in Seq(Messages)
    BY <1>1, <1>3 DEF TypeOK
  <2>2. batch \in Seq(Kinds) /\ shown \in Seq(Messages) /\ firstItemIndex \in Int
    BY <1>1 DEF BatchInv
  <2> QED BY <2>1, <2>2, DomainOfSeq
<1>5. CASE UNCHANGED <<list, shown, firstItemIndex, batch>> /\ (~crossed' => ~crossed)
  BY <1>1, <1>3, <1>5 DEF RowsInv, BatchInv
<1>6. CASE (Send \/ OnDelta) /\ Dispatched("tail")
  <2>1. /\ batch' \in Seq(Kinds) /\ "tail" \in Range(batch')
        /\ Range(batch) \subseteq Range(batch') /\ UNCHANGED <<shown, firstItemIndex>>
    BY <1>4, <1>6, DispatchedFacts DEF Kinds
  <2>2. /\ Len(list) <= Len(list')
        /\ \A m \in DOMAIN list : list'[m].item = list[m].item /\ list'[m].id = list[m].id
        /\ ~crossed' => ~crossed
    BY <1>1, <1>6, TailStep
  <2>3. ~(Range(batch') \subseteq {"older"})
    BY <2>1
  <2>4. ASSUME ~crossed, Range(batch) \subseteq {"tail"}
        PROVE  /\ Len(shown) <= Len(list')
               /\ \A m \in DOMAIN shown :
                    list'[m].item = shown[m].item /\ list'[m].id = shown[m].id
    <3>1. /\ Len(shown) <= Len(list)
          /\ \A m \in DOMAIN shown : list[m].item = shown[m].item /\ list[m].id = shown[m].id
      BY <1>1, <2>4 DEF BatchInv
    <3>2. \A m \in DOMAIN shown : m \in DOMAIN list
      BY <1>4, <3>1
    <3> QED BY <1>4, <2>2, <3>1, <3>2
  <2> QED BY <1>3, <1>4, <2>1, <2>2, <2>3, <2>4 DEF RowsInv, BatchInv
<1>7. ASSUME NEW p \in DOMAIN pages, OnFirstPage(p), Dispatched("page")
      PROVE  RowsInv'
  <2>1. /\ batch' \in Seq(Kinds) /\ "page" \in Range(batch')
        /\ UNCHANGED <<shown, firstItemIndex>>
    BY <1>4, <1>7, DispatchedFacts DEF Kinds
  <2>2. ~(Range(batch') \subseteq {"older"}) /\ ~(Range(batch') \subseteq {"tail"})
    BY <2>1
  <2> QED BY <1>3, <1>4, <2>1, <2>2 DEF RowsInv, BatchInv
<1>8. ASSUME NEW p \in DOMAIN pages, OnMorePage(p), Dispatched("older")
      PROVE  RowsInv'
  <2>1. /\ batch' \in Seq(Kinds) /\ "older" \in Range(batch')
        /\ Range(batch) \subseteq Range(batch') /\ UNCHANGED <<shown, firstItemIndex>>
    BY <1>4, <1>8, DispatchedFacts DEF Kinds
  <2>2. ~(Range(batch') \subseteq {"tail"})
    BY <2>1
  <2>3. crossed' = (crossed \/ ~Fits(p)) /\ pages[p].kind = "more"
    BY <1>8 DEF OnMorePage
  <2>4. ASSUME ~crossed', Range(batch) \subseteq {"older"}
        PROVE  /\ Len(shown) <= Len(list')
               /\ \A m \in DOMAIN shown : list'[m + (Len(list') - Len(shown))] = shown[m]
    <3>1. ~crossed /\ Fits(p)
      BY <2>3, <2>4
    <3>2. ShownOK
      <4>1. loaded
        BY <1>1, <2>3 DEF PageInv, PageOK
      <4> QED BY <1>1, <3>1, <4>1 DEF ShownInv
    <3>3. PICK d \in Nat : /\ Len(list') = d + Len(list)
                           /\ \A m \in DOMAIN list : list'[d + m] = list[m]
      BY <1>1, <1>8, <3>1, <3>2, MoreFits
    <3>4. /\ Len(shown) <= Len(list)
          /\ \A m \in DOMAIN shown : list[m + (Len(list) - Len(shown))] = shown[m]
      BY <1>1, <2>4, <3>1 DEF BatchInv
    <3>5. ASSUME NEW m \in DOMAIN shown
          PROVE  list'[m + (Len(list') - Len(shown))] = shown[m]
      <4>1. m + (Len(list) - Len(shown)) \in DOMAIN list
        BY <1>4, <3>4
      <4>2. d + (m + (Len(list) - Len(shown))) = m + ((d + Len(list)) - Len(shown))
        BY <1>4
      <4> QED BY <3>3, <3>4, <4>1, <4>2
    <3> QED BY <1>4, <3>3, <3>4, <3>5
  <2> QED BY <1>3, <1>4, <2>1, <2>2, <2>4 DEF RowsInv, BatchInv
<1>9. CASE Commit
  <2>1. shown' = list /\ batch' = <<>> /\ list' = list
    BY <1>9 DEF Commit, vars, listVars
  <2>2. firstItemIndex' \in Int
    <3>1. AddedCount(shown, list) \in Int
      <4>1. PICK k : k = Len(list) - Len(shown)
        OBVIOUS
      <4>2. k \in Int
        BY <1>4, <4>1
      <4>3. \E x \in {k, 0} : \A y \in {k, 0} : x >= y
        BY <4>2
      <4>4. Max({k, 0}) \in {k, 0}
        BY <4>3 DEF Max
      <4> QED BY <4>1, <4>2, <4>4 DEF AddedCount
    <3> QED BY <1>4, <1>9, <3>1 DEF Commit
  <2>3. batch' \in Seq(Kinds) /\ shown' \in Seq(Messages)
    BY <1>1, <2>1, EmptySeq DEF TypeOK
  <2>4. Len(shown') <= Len(list')
    BY <1>4, <2>1
  <2>5. \A m \in DOMAIN shown' : list'[m + (Len(list') - Len(shown'))] = shown'[m]
    BY <1>4, <2>1
  <2> QED BY <1>3, <2>1, <2>2, <2>3, <2>4, <2>5 DEF RowsInv, BatchInv
<1>10. CASE UNCHANGED viewVars /\ (\/ SendFails \/ StartsElsewhere \/ CodexSpeaks
                                   \/ CodexStores \/ CodexDrops
                                   \/ \E j \in posts : CodexStarts(j)
                                   \/ AskFirst \/ AskMore \/ AskMoreElsewhere
                                   \/ MoreElsewhereOver)
  <2>1. UNCHANGED <<list, shown, firstItemIndex, batch>>
    BY <1>10 DEF viewVars, SendFails, StartsElsewhere, Starts, CodexSpeaks, CodexStores,
      CodexDrops, CodexStarts, AskFirst, AskMore, AskMoreElsewhere, MoreElsewhereOver, listVars
  <2>2. ~crossed' => ~crossed
    BY <1>10 DEF SendFails, StartsElsewhere, CodexSpeaks, CodexStores, CodexDrops,
      CodexStarts, AskFirst, AskMore, AskMoreElsewhere, MoreElsewhereOver, historyVars
  <2> QED BY <1>5, <2>1, <2>2
<1>11. ASSUME NEW p \in DOMAIN pages, ListThreadMessages(p) \/ OnPageFailed(p),
              UNCHANGED viewVars
       PROVE  RowsInv'
  BY <1>5, <1>11 DEF viewVars, ListThreadMessages, OnPageFailed, listVars, historyVars
<1>12. CASE UNCHANGED <<vars, viewVars>>
  BY <1>5, <1>12 DEF vars, viewVars, listVars, historyVars
<1>13. ASSUME NEW p \in DOMAIN pages,
              (OnFirstPage(p) /\ Dispatched("page")) \/ (OnMorePage(p) /\ Dispatched("older"))
       PROVE  RowsInv'
  BY <1>7, <1>8, <1>13
<1>14. CASE HistoryStep
  <2>1. CASE (Send \/ OnDelta) /\ Dispatched("tail")
    BY <1>6, <2>1
  <2>2. CASE \E p \in DOMAIN pages :
               (OnFirstPage(p) /\ Dispatched("page")) \/ (OnMorePage(p) /\ Dispatched("older"))
    BY <1>13, <2>2
  <2>3. CASE UNCHANGED viewVars /\ \E p \in DOMAIN pages :
               ListThreadMessages(p) \/ OnPageFailed(p)
    BY <1>11, <2>3
  <2>4. CASE /\ \/ SendFails \/ StartsElsewhere \/ CodexSpeaks \/ CodexStores \/ CodexDrops
                \/ \E j \in posts : CodexStarts(j)
                \/ AskFirst \/ AskMore \/ AskMoreElsewhere \/ MoreElsewhereOver
                \/ \E p \in DOMAIN pages : ListThreadMessages(p) \/ OnPageFailed(p)
             /\ UNCHANGED viewVars
    BY <1>10, <2>3, <2>4
  <2> QED BY <1>14, <2>1, <2>2, <2>4 DEF HistoryStep
<1> QED BY <1>9, <1>12, <1>14 DEF ListNext


LEMMA RowsInvariant == ListSpec => []RowsInv
<1>1. ListInit => RowsInv
  BY RowsInit
<1>2. RowsInv /\ [ListNext]_<<vars, viewVars>> => RowsInv'
  BY RowsNext
<1> QED BY <1>1, <1>2, PTL DEF ListSpec

(* A commit leaves every row at its index: a change at the end does not     *)
(* move the first index, and an older page lowers it by as many rows as it  *)
(* has put above, also when merging has left nothing of it.                 *)
THEOREM RowsAnchored == ListSpec => Anchored
<1> DEFINE A == batch' = <<>> /\ ~crossed
                /\ "page" \notin Range(batch) /\ ~({"older", "tail"} \subseteq Range(batch)) =>
                  \A m \in DOMAIN shown, n \in DOMAIN shown' :
                    shown[m].item = shown'[n].item => IndexOf(m) = IndexOf(n)'
<1>1. RowsInv /\ [ListNext]_<<vars, viewVars>> => [A]_viewVars
  <2> SUFFICES ASSUME RowsInv, [ListNext]_<<vars, viewVars>>, ~(UNCHANGED viewVars),
                      batch' = <<>>, ~crossed, "page" \notin Range(batch),
                      ~({"older", "tail"} \subseteq Range(batch)),
                      NEW m \in DOMAIN shown, NEW n \in DOMAIN shown',
                      shown[m].item = shown'[n].item
               PROVE  IndexOf(m) = IndexOf(n)'
    OBVIOUS
  <2>1. HistoryInv /\ BatchInv /\ TypeOK /\ TurnInv /\ ListInv /\ ShownInv
    BY DEF RowsInv, HistoryInv
  <2>2. /\ Len(list) \in Nat /\ DOMAIN list = 1..Len(list)
        /\ Len(shown) \in Nat /\ DOMAIN shown = 1..Len(shown)
        /\ batch \in Seq(Kinds) /\ shown \in Seq(Messages) /\ firstItemIndex \in Int
        /\ list \in Seq(Messages)
    <3>1. list \in Seq(Messages)
      BY <2>1 DEF TypeOK
    <3>2. batch \in Seq(Kinds) /\ shown \in Seq(Messages) /\ firstItemIndex \in Int
      BY <2>1 DEF BatchInv
    <3> QED BY <3>1, <3>2, DomainOfSeq
  <2>3. Commit
    <3>1. \A kind \in Kinds : ~Dispatched(kind)
      BY <2>2, DispatchedFacts
    <3> QED BY <3>1 DEF ListNext, HistoryStep, Kinds, vars
  <2>4. /\ shown' = list
        /\ firstItemIndex' = firstItemIndex -
             (IF PrependedOlderPage(shown, list) THEN AddedCount(shown, list) ELSE 0)
    BY <2>3 DEF Commit
  <2>5. m \in 1..Len(shown) /\ n \in 1..Len(list) /\ shown[m].item = list[n].item
    BY <2>2, <2>4
  <2>6. shown # <<>>
    BY <2>2, <2>5, EmptySeq
  <2>7. Head(shown) = shown[1] /\ (list # <<>> => Head(list) = list[1])
    BY <2>2, <2>6
  <2>8. \A i, j \in DOMAIN list : list[i].item = list[j].item => i = j
    <3>1. CASE loaded
      BY <2>1, <3>1, ItemsApart DEF ShownInv
    <3>2. CASE ~loaded
      BY <2>1, <3>2 DEF ListInv, OnceInv
    <3> QED BY <3>1, <3>2
  <2>9. CASE Range(batch) \subseteq {"tail"}
    <3>1. /\ Len(shown) <= Len(list)
          /\ \A i \in DOMAIN shown : list[i].item = shown[i].item /\ list[i].id = shown[i].id
      BY <2>1, <2>9 DEF BatchInv
    <3>2. n = m
      BY <2>2, <2>5, <2>8, <3>1
    <3>3. ~PrependedOlderPage(shown, list)
      <4>1. 1 \in DOMAIN shown
        BY <2>2, <2>5
      <4> QED BY <2>7, <3>1, <4>1 DEF PrependedOlderPage, FirstMessageId
    <3>4. firstItemIndex' = firstItemIndex
      BY <2>2, <2>4, <3>3
    <3> QED BY <3>2, <3>4 DEF IndexOf
  <2>10. CASE Range(batch) \subseteq {"older"}
    <3>1. PICK d : d = Len(list) - Len(shown)
      OBVIOUS
    <3>2. /\ Len(shown) <= Len(list)
          /\ \A i \in DOMAIN shown : list[i + d] = shown[i]
      BY <2>1, <2>10, <3>1 DEF BatchInv
    <3>3. d \in Nat /\ m + d \in DOMAIN list
      BY <2>2, <2>5, <3>1, <3>2
    <3>4. n = m + d
      BY <2>2, <2>5, <2>8, <3>2, <3>3
    <3>5. CASE d = 0
      <4>1. 1 \in DOMAIN shown /\ list[1] = shown[1]
        BY <2>2, <2>5, <3>2, <3>5
      <4>2. ~PrependedOlderPage(shown, list)
        BY <2>7, <4>1 DEF PrependedOlderPage, FirstMessageId
      <4>3. firstItemIndex' = firstItemIndex /\ n = m
        BY <2>2, <2>4, <2>5, <3>4, <3>5, <4>2
      <4> QED BY <4>3 DEF IndexOf
    <3>6. CASE d # 0
      <4>1. 1 \in DOMAIN shown /\ list[1 + d] = shown[1] /\ 1 \in DOMAIN list
            /\ 1 + d \in DOMAIN list /\ 1 # 1 + d
        <5>1. 1 \in 1..Len(shown) /\ 1 + d \in 1..Len(list) /\ 1 \in 1..Len(list) /\ 1 # 1 + d
          <6>1. PICK a \in Nat, b \in Nat : a = Len(shown) /\ b = Len(list)
            BY <2>2
          <6>2. a >= 1 /\ d \in Nat /\ d # 0 /\ d = b - a
            BY <2>5, <3>1, <3>3, <3>6, <6>1
          <6>3. 1 \in 1..a /\ 1 + d \in 1..b /\ 1 \in 1..b /\ 1 # 1 + d
            BY <6>2
          <6> QED BY <6>1, <6>3
        <5> QED BY <2>2, <3>2, <5>1
      <4>2. list[1].item # shown[1].item
        BY <2>8, <4>1
      <4>3. list # <<>>
        BY <2>2, <2>5, EmptySeq
      <4>4. FirstMessageId(shown) # FirstMessageId(list)
        BY <2>7, <4>2, <4>3 DEF FirstMessageId
      <4>5. LastMessageSignature(shown) = LastMessageSignature(list)
        <5>1. Len(shown) \in DOMAIN shown /\ Len(shown) + d = Len(list)
          BY <2>2, <2>5, <3>1
        <5>2. list[Len(list)] = shown[Len(shown)]
          BY <3>2, <5>1
        <5> QED BY <5>2 DEF LastMessageSignature, Last
      <4>6. AddedCount(shown, list) = d
        <5>1. \A x \in {d, 0} : (\A y \in {d, 0} : x >= y) <=> x = d
          BY <3>3, <3>6
        <5>2. Max({d, 0}) = d
          BY <5>1 DEF Max
        <5> QED BY <3>1, <5>2 DEF AddedCount
      <4>7. firstItemIndex' = firstItemIndex - d
        BY <2>4, <2>6, <4>3, <4>4, <4>5, <4>6 DEF PrependedOlderPage
      <4>8. PICK f \in Int : f = firstItemIndex
        BY <2>2
      <4>9. f + m = (f - d) + n
        BY <2>5, <3>3, <3>4
      <4> QED BY <4>7, <4>8, <4>9 DEF IndexOf
    <3> QED BY <3>5, <3>6
  <2>11. \A kind \in Range(batch) : kind \in Kinds
    BY <2>2, DomainOfSeq DEF Range
  <2> QED BY <2>9, <2>10, <2>11 DEF Kinds
<1>2. [][A]_viewVars => Anchored
  BY DEF Anchored
<1> QED BY <1>1, <1>2, RowsInvariant, PTL DEF ListSpec


-----------------------------------------------------------------------------
(* Code fences: the inductive invariant                                     *)

CodeTypeOK ==
  /\ highlightCache \in Seq(Codes)
  /\ inFlight \in SUBSET Codes
  /\ running \in [Codes -> Nat]
  /\ waiting \in SUBSET (Blocks \X Codes)
  /\ pendingHighlights \in Seq(Blocks \X Codes)
  /\ isProcessingQueue \in BOOLEAN
  /\ code \in [Blocks -> Codes \cup {NoCode}]
  /\ mounted \in [Blocks -> BOOLEAN]
  /\ requested \in [Blocks -> BOOLEAN]
  /\ hasCleanup \in [Blocks -> BOOLEAN]
  /\ highlightedHtml \in [Blocks -> Codes \cup {NoCode}]
  /\ outrun \in SUBSET Blocks

(* A job is in inFlightHighlights until its result is in the cache.         *)
JobInv ==
  /\ \A k \in Codes :
       /\ running[k] <= 1
       /\ running[k] > 0 => k \in inFlight
       /\ k \in inFlight => ~Cached(k)
  /\ \A w \in waiting : w[2] \in inFlight

Wants(b) == mounted[b] /\ code[b] # NoCode

Settled(b) == IF b \in outrun THEN highlightedHtml[b] # NoCode ELSE highlightedHtml[b] = code[b]

(* A fence that wants a highlighting shows it, is queued or waits for it,   *)
(* unless its job was rejected; what is under way for a fence that was not  *)
(* outrun, and was not rejected, is for the code it has.                    *)
FenceInv ==
  \A b \in Blocks :
    /\ Wants(b) => requested[b]
    /\ Wants(b) => \/ Settled(b)
                   \/ Contains(pendingHighlights, <<b, code[b]>>)
                   \/ <<b, code[b]>> \in waiting
                   \/ code[b] \in Rejected
    /\ b \notin outrun =>
         \A k \in Codes \ Rejected :
           <<b, k>> \in waiting \/ Contains(pendingHighlights, <<b, k>>) => k = code[b]

CodeInv == CodeTypeOK /\ JobInv /\ FenceInv

LEMMA ContainsFacts ==
  ASSUME NEW S, NEW s \in Seq(S)
  PROVE  /\ \A e \in S : \A w : Contains(Append(s, e), w) <=> Contains(s, w) \/ w = e
         /\ s # <<>> =>
              /\ s[1] \in S
              /\ Tail(s) \in Seq(S)
              /\ \A w : Contains(s, w) <=> w = s[1] \/ Contains(Tail(s), w)
         /\ s = <<>> => \A w : ~Contains(s, w)
<1>1. Len(s) \in Nat /\ DOMAIN s = 1..Len(s) /\ \A i \in 1..Len(s) : s[i] \in S
  BY DomainOfSeq
<1>2. ASSUME NEW e \in S, NEW w
      PROVE  Contains(Append(s, e), w) <=> Contains(s, w) \/ w = e
  <2>1. /\ Len(Append(s, e)) = Len(s) + 1
        /\ \A i \in 1..Len(s) : Append(s, e)[i] = s[i]
        /\ Append(s, e)[Len(s) + 1] = e
    BY AppendProperties
  <2>2. ASSUME Contains(s, w) PROVE Contains(Append(s, e), w)
    <3>1. PICK i \in 1..Len(s) : s[i] = w
      BY <2>2 DEF Contains
    <3>2. i \in 1..Len(Append(s, e)) /\ Append(s, e)[i] = w
      BY <1>1, <2>1, <3>1
    <3> QED BY <3>2 DEF Contains
  <2>3. ASSUME w = e PROVE Contains(Append(s, e), w)
    <3>1. Len(s) + 1 \in 1..Len(Append(s, e))
      BY <1>1, <2>1
    <3> QED BY <2>1, <2>3, <3>1 DEF Contains
  <2>4. ASSUME Contains(Append(s, e), w) PROVE Contains(s, w) \/ w = e
    <3>1. PICK i \in 1..(Len(s) + 1) : Append(s, e)[i] = w
      BY <2>1, <2>4 DEF Contains
    <3>2. i = Len(s) + 1 \/ i \in 1..Len(s)
      BY <1>1
    <3> QED BY <2>1, <3>1, <3>2 DEF Contains
  <2> QED BY <2>2, <2>3, <2>4
<1>3. ASSUME s # <<>>
      PROVE  /\ s[1] \in S
             /\ Tail(s) \in Seq(S)
             /\ \A w : Contains(s, w) <=> w = s[1] \/ Contains(Tail(s), w)
  <2>1. /\ Tail(s) \in Seq(S)
        /\ Len(Tail(s)) = Len(s) - 1
        /\ \A i \in 1..Len(Tail(s)) : Tail(s)[i] = s[i + 1]
    BY <1>3, HeadTailProperties
  <2>2. Len(s) # 0
    BY <1>3, EmptySeq
  <2>3. 1 \in 1..Len(s)
    BY <1>1, <2>2
  <2>4. ASSUME NEW w, Contains(s, w) PROVE w = s[1] \/ Contains(Tail(s), w)
    <3>1. PICK i \in 1..Len(s) : s[i] = w
      BY <2>4 DEF Contains
    <3>2. CASE i = 1
      BY <3>1, <3>2
    <3>3. CASE i # 1
      <4>1. i - 1 \in 1..Len(Tail(s)) /\ (i - 1) + 1 = i
        BY <1>1, <2>1, <3>3
      <4>2. Tail(s)[i - 1] = w
        BY <2>1, <3>1, <4>1
      <4> QED BY <4>1, <4>2 DEF Contains
    <3> QED BY <3>2, <3>3
  <2>5. ASSUME NEW w, w = s[1] PROVE Contains(s, w)
    BY <2>3, <2>5 DEF Contains
  <2>6. ASSUME NEW w, Contains(Tail(s), w) PROVE Contains(s, w)
    <3>1. PICK i \in 1..Len(Tail(s)) : Tail(s)[i] = w
      BY <2>6 DEF Contains
    <3>2. i + 1 \in 1..Len(s) /\ s[i + 1] = w
      BY <1>1, <2>1, <3>1
    <3> QED BY <3>2 DEF Contains
  <2> QED BY <1>1, <2>1, <2>3, <2>4, <2>5, <2>6
<1>4. ASSUME s = <<>>, NEW w PROVE ~Contains(s, w)
  <2>1. Len(s) = 0
    BY <1>4, EmptySeq
  <2> QED BY <2>1 DEF Contains
<1> QED BY <1>2, <1>3, <1>4


(* What a step of the queue that finds these tasks does.                    *)
Moved(tasks, isRequested) ==
  /\ pendingHighlights' \in Seq(Blocks \X Codes)
  /\ isProcessingQueue' \in BOOLEAN
  /\ highlightCache' = highlightCache
  /\ inFlight' \in SUBSET Codes
  /\ running' \in [Codes -> Nat]
  /\ waiting' \in SUBSET (Blocks \X Codes)
  /\ highlightedHtml' \in [Blocks -> Codes \cup {NoCode}]
  /\ Rejected \subseteq Rejected'
  /\ waiting \subseteq waiting'
  /\ \A w \in waiting' : w \in waiting \/ Contains(tasks, w)
  /\ \A w : Contains(pendingHighlights', w) => Contains(tasks, w)
  /\ \A c \in Blocks :
       \/ highlightedHtml'[c] = highlightedHtml[c]
       \/ \E k \in Codes \ Rejected : Contains(tasks, <<c, k>>) /\ highlightedHtml'[c] = k
  /\ \A c \in Blocks, k \in Codes : Contains(tasks, <<c, k>>) /\ isRequested[c] =>
       \/ Contains(pendingHighlights', <<c, k>>)
       \/ <<c, k>> \in waiting'
       \/ highlightedHtml'[c] = k

(* highlightCode shows what is cached, or waits for the one job of the code. *)
LEMMA HighlightFacts ==
  ASSUME CodeTypeOK, JobInv, NEW b \in Blocks, NEW k \in Codes, HighlightCode(b, k)
  PROVE  /\ highlightCache' = highlightCache
         /\ inFlight' \in SUBSET Codes
         /\ running' \in [Codes -> Nat]
         /\ waiting' \in SUBSET (Blocks \X Codes)
         /\ highlightedHtml' \in [Blocks -> Codes \cup {NoCode}]
         /\ JobInv'
         /\ Rejected \subseteq Rejected'
         /\ waiting \subseteq waiting'
         /\ \A w \in waiting' : w \in waiting \/ w = <<b, k>>
         /\ \A c \in Blocks : \/ highlightedHtml'[c] = highlightedHtml[c]
                              \/ c = b /\ highlightedHtml'[c] = k /\ k \notin Rejected
         /\ <<b, k>> \in waiting' \/ highlightedHtml'[b] = k
<1>1. CASE Cached(k) /\ highlightedHtml' = [highlightedHtml EXCEPT ![b] = k] /\ UNCHANGED jobVars
  <2>1. UNCHANGED <<highlightCache, inFlight, running, waiting>>
    BY <1>1 DEF jobVars
  <2>2. JobInv' /\ Rejected' = Rejected
    BY <2>1 DEF JobInv, Cached, Rejected
  <2>3. /\ highlightedHtml' \in [Blocks -> Codes \cup {NoCode}]
        /\ highlightedHtml'[b] = k
        /\ \A c \in Blocks : c # b => highlightedHtml'[c] = highlightedHtml[c]
    BY <1>1 DEF CodeTypeOK
  <2>4. k \notin Rejected
    BY <1>1 DEF JobInv, Rejected
  <2> QED BY <2>1, <2>2, <2>3, <2>4 DEF CodeTypeOK
<1>2. CASE /\ ~Cached(k)
           /\ StartJob(k)
           /\ waiting' = waiting \cup {<<b, k>>}
           /\ UNCHANGED <<highlightCache, highlightedHtml>>
  <2>1. /\ inFlight' = inFlight \cup {k} /\ inFlight' \in SUBSET Codes
        /\ waiting' \in SUBSET (Blocks \X Codes)
    BY <1>2 DEF StartJob, CodeTypeOK
  <2>2. CASE k \in inFlight
    <3>1. running' = running /\ inFlight' = inFlight
      BY <1>2, <2>1, <2>2 DEF StartJob
    <3>2. \A w \in waiting' : w[2] \in inFlight'
      BY <1>2, <2>2, <3>1 DEF JobInv
    <3>3. JobInv'
      BY <1>2, <3>1, <3>2 DEF JobInv, Cached
    <3> QED BY <1>2, <2>1, <3>1, <3>3 DEF CodeTypeOK, Rejected
  <2>3. CASE k \notin inFlight
    <3>1. running[k] = 0
      BY <2>3 DEF JobInv, CodeTypeOK
    <3>2. running' = [running EXCEPT ![k] = running[k] + 1]
      BY <1>2, <2>3 DEF StartJob
    <3>3. /\ running' \in [Codes -> Nat]
          /\ running'[k] = 1
          /\ \A j \in Codes : j # k => running'[j] = running[j]
      BY <3>1, <3>2 DEF CodeTypeOK
    <3>4. \A w \in waiting' : w[2] \in inFlight'
      BY <1>2, <2>1 DEF JobInv
    <3>5. \A j \in Codes : /\ running'[j] <= 1
                           /\ running'[j] > 0 => j \in inFlight'
      BY <2>1, <3>3 DEF JobInv
    <3>6. \A j \in Codes : j \in inFlight' => ~Contains(highlightCache', j)
      BY <1>2, <2>1 DEF JobInv, Cached
    <3>7. JobInv'
      BY <3>4, <3>5, <3>6 DEF JobInv, Cached
    <3>8. Rejected \subseteq Rejected'
      BY <2>1, <2>3, <3>3 DEF Rejected, CodeTypeOK
    <3> QED BY <1>2, <2>1, <3>3, <3>7, <3>8 DEF CodeTypeOK
  <2> QED BY <2>2, <2>3
<1> QED BY <1>1, <1>2 DEF HighlightCode

LEMMA StillMoved ==
  ASSUME CodeTypeOK, JobInv, NEW tasks \in Seq(Blocks \X Codes), NEW isRequested,
         pendingHighlights' = tasks, isProcessingQueue' \in BOOLEAN,
         UNCHANGED <<jobVars, highlightedHtml>>
  PROVE  Moved(tasks, isRequested) /\ JobInv'
<1>1. UNCHANGED <<highlightCache, inFlight, running, waiting, highlightedHtml>>
  BY DEF jobVars
<1>2. JobInv' /\ Rejected' = Rejected
  BY <1>1 DEF JobInv, Cached, Rejected
<1> QED BY <1>1, <1>2 DEF Moved, CodeTypeOK

(* One task of the queue runs, or the queue is done.                        *)
LEMMA ProcessFacts ==
  ASSUME CodeTypeOK, JobInv, NEW tasks \in Seq(Blocks \X Codes),
         NEW isRequested \in [Blocks -> BOOLEAN], ProcessQueue(tasks, isRequested)
  PROVE  Moved(tasks, isRequested) /\ JobInv'
<1>1. CASE tasks = <<>> /\ pendingHighlights' = tasks /\ isProcessingQueue' = FALSE
           /\ UNCHANGED <<jobVars, highlightedHtml>>
  BY <1>1, StillMoved
<1>2. CASE tasks # <<>> /\ RunTask(tasks[1][1], tasks[1][2], isRequested)
           /\ pendingHighlights' = Tail(tasks) /\ isProcessingQueue' = TRUE
  <2>1. /\ tasks[1] \in Blocks \X Codes
        /\ Tail(tasks) \in Seq(Blocks \X Codes)
        /\ \A w : Contains(tasks, w) <=> w = tasks[1] \/ Contains(Tail(tasks), w)
    BY <1>2, ContainsFacts
  <2>2. PICK b \in Blocks, k \in Codes : tasks[1] = <<b, k>>
    BY <2>1
  <2>3. RunTask(b, k, isRequested)
    BY <1>2, <2>2
  <2>4. /\ \A w : Contains(pendingHighlights', w) => Contains(tasks, w)
        /\ \A w : Contains(tasks, w) => Contains(pendingHighlights', w) \/ w = <<b, k>>
        /\ Contains(tasks, <<b, k>>)
        /\ pendingHighlights' \in Seq(Blocks \X Codes) /\ isProcessingQueue' \in BOOLEAN
    BY <1>2, <2>1, <2>2
  <2>5. CASE isRequested[b] /\ HighlightCode(b, k)
    <3>1. /\ highlightCache' = highlightCache
          /\ inFlight' \in SUBSET Codes
          /\ running' \in [Codes -> Nat]
          /\ waiting' \in SUBSET (Blocks \X Codes)
          /\ highlightedHtml' \in [Blocks -> Codes \cup {NoCode}]
          /\ JobInv'
          /\ Rejected \subseteq Rejected'
          /\ waiting \subseteq waiting'
          /\ \A w \in waiting' : w \in waiting \/ w = <<b, k>>
          /\ \A c \in Blocks : \/ highlightedHtml'[c] = highlightedHtml[c]
                               \/ c = b /\ highlightedHtml'[c] = k /\ k \notin Rejected
          /\ <<b, k>> \in waiting' \/ highlightedHtml'[b] = k
      BY <2>5, HighlightFacts
    <3>2. \A c \in Blocks, j \in Codes : Contains(tasks, <<c, j>>) =>
            \/ Contains(pendingHighlights', <<c, j>>)
            \/ <<c, j>> \in waiting'
            \/ highlightedHtml'[c] = j
      <4>1. ASSUME NEW c \in Blocks, NEW j \in Codes, <<c, j>> = <<b, k>>
            PROVE  <<c, j>> \in waiting' \/ highlightedHtml'[c] = j
        BY <3>1, <4>1
      <4> QED BY <2>4, <4>1
    <3>3. \A c \in Blocks :
            \/ highlightedHtml'[c] = highlightedHtml[c]
            \/ \E j \in Codes \ Rejected : Contains(tasks, <<c, j>>) /\ highlightedHtml'[c] = j
      BY <2>4, <3>1
    <3>4. \A w \in waiting' : w \in waiting \/ Contains(tasks, w)
      BY <2>4, <3>1
    <3> QED BY <2>4, <3>1, <3>2, <3>3, <3>4 DEF Moved
  <2>6. CASE ~isRequested[b] /\ UNCHANGED <<jobVars, highlightedHtml>>
    <3>1. UNCHANGED <<highlightCache, inFlight, running, waiting, highlightedHtml>>
      BY <2>6 DEF jobVars
    <3>2. JobInv' /\ Rejected' = Rejected
      BY <3>1 DEF JobInv, Cached, Rejected
    <3>3. \A c \in Blocks, j \in Codes : Contains(tasks, <<c, j>>) /\ isRequested[c] =>
            Contains(pendingHighlights', <<c, j>>)
      <4>1. ASSUME NEW c \in Blocks, NEW j \in Codes, isRequested[c] PROVE <<c, j>> # <<b, k>>
        BY <2>6, <4>1
      <4> QED BY <2>4, <4>1
    <3> QED BY <2>4, <3>1, <3>2, <3>3 DEF Moved, CodeTypeOK
  <2> QED BY <2>3, <2>5, <2>6 DEF RunTask
<1> QED BY <1>1, <1>2 DEF ProcessQueue

LEMMA ScheduleFacts ==
  ASSUME CodeTypeOK, JobInv, NEW b \in Blocks, NEW k \in Codes,
         NEW isRequested \in [Blocks -> BOOLEAN], ScheduleHighlight(b, k, isRequested)
  PROVE  Moved(Append(pendingHighlights, <<b, k>>), isRequested) /\ JobInv'
<1>1. PICK tasks : tasks = Append(pendingHighlights, <<b, k>>)
  OBVIOUS
<1>2. tasks \in Seq(Blocks \X Codes)
  <2>1. pendingHighlights \in Seq(Blocks \X Codes) /\ <<b, k>> \in Blocks \X Codes
    BY DEF CodeTypeOK
  <2> QED BY <1>1, <2>1, AppendProperties
<1>3. CASE isProcessingQueue /\ pendingHighlights' = tasks
           /\ UNCHANGED <<isProcessingQueue, jobVars, highlightedHtml>>
  <2>1. isProcessingQueue' \in BOOLEAN
    BY <1>3 DEF CodeTypeOK
  <2> QED BY <1>1, <1>2, <1>3, <2>1, StillMoved
<1>4. CASE ~isProcessingQueue /\ ProcessQueue(tasks, isRequested)
  BY <1>1, <1>2, <1>4, ProcessFacts
<1> QED BY <1>1, <1>3, <1>4 DEF ScheduleHighlight


LEMMA CodeInitInv == CodeInit => CodeInv
<1> SUFFICES ASSUME CodeInit PROVE CodeInv
  OBVIOUS
<1>1. CodeTypeOK
  <2>1. highlightCache \in Seq(Codes) /\ pendingHighlights \in Seq(Blocks \X Codes)
    BY EmptySeq DEF CodeInit
  <2>2. inFlight = {} /\ waiting = {} /\ outrun = {} /\ running \in [Codes -> Nat]
    BY DEF CodeInit
  <2>3. /\ code \in [Blocks -> Codes \cup {NoCode}]
        /\ highlightedHtml \in [Blocks -> Codes \cup {NoCode}]
    BY DEF CodeInit
  <2>4. /\ isProcessingQueue \in BOOLEAN
        /\ mounted \in [Blocks -> BOOLEAN]
        /\ requested \in [Blocks -> BOOLEAN]
        /\ hasCleanup \in [Blocks -> BOOLEAN]
    BY DEF CodeInit
  <2> QED BY <2>1, <2>2, <2>3, <2>4 DEF CodeTypeOK
<1>2. JobInv
  BY DEF CodeInit, JobInv
<1>3. pendingHighlights \in Seq(Blocks \X Codes) /\ pendingHighlights = <<>>
  BY <1>1 DEF CodeInit, CodeTypeOK
<1>4. \A w : ~Contains(pendingHighlights, w)
  BY <1>3, ContainsFacts
<1>5. FenceInv
  BY <1>4 DEF CodeInit, FenceInv, Wants
<1> QED BY <1>1, <1>2, <1>5 DEF CodeInv

(* A fence is given a code: what was under way for it is then outrun.       *)
LEMMA GiveCodeStep ==
  ASSUME CodeInv, NEW b \in Blocks, NEW k \in Codes, GiveCode(b, k)
  PROVE  CodeInv'
<1> USE CodeHighlightAssumption
<1>1. CodeTypeOK /\ JobInv /\ FenceInv
  BY DEF CodeInv
<1>2. PICK isRequested : isRequested = CleanupThenEffect(b)
  OBVIOUS
<1>3. /\ isRequested \in [Blocks -> BOOLEAN]
      /\ isRequested[b] = TRUE
      /\ \A c \in Blocks : c # b => isRequested[c] = requested[c]
  BY <1>1, <1>2 DEF CleanupThenEffect, CodeTypeOK
<1>4. /\ mounted[b]
      /\ code' = [code EXCEPT ![b] = k]
      /\ requested' = isRequested
      /\ hasCleanup' = [hasCleanup EXCEPT ![b] = ~Cached(k)]
      /\ outrun' = IF Busy(b) THEN outrun \cup {b} ELSE outrun
      /\ mounted' = mounted
  BY <1>2 DEF GiveCode
<1>5. /\ code' \in [Blocks -> Codes \cup {NoCode}] /\ code'[b] = k
      /\ \A c \in Blocks : c # b => code'[c] = code[c] /\ (c \in outrun' <=> c \in outrun)
      /\ b \notin outrun' => ~Busy(b)
      /\ outrun' \in SUBSET Blocks
  BY <1>1, <1>4 DEF CodeTypeOK
<1>6. hasCleanup' \in [Blocks -> BOOLEAN] /\ mounted' \in [Blocks -> BOOLEAN]
      /\ requested' \in [Blocks -> BOOLEAN]
  BY <1>1, <1>3, <1>4 DEF CodeTypeOK
<1>7. k # NoCode
  OBVIOUS
<1>8. ASSUME NEW c \in Blocks, c # b, Wants(c)'
      PROVE  Wants(c) /\ requested'[c]
  <2>1. Wants(c)
    BY <1>4, <1>5, <1>8 DEF Wants
  <2> QED BY <1>1, <1>3, <1>4, <1>8, <2>1 DEF FenceInv
<1>9. CASE /\ Cached(k)
           /\ highlightedHtml' = [highlightedHtml EXCEPT ![b] = k]
           /\ UNCHANGED <<jobVars, queueVars>>
  <2>1. UNCHANGED <<highlightCache, inFlight, running, waiting, pendingHighlights,
                    isProcessingQueue>>
    BY <1>9 DEF jobVars, queueVars
  <2>2. /\ highlightedHtml' \in [Blocks -> Codes \cup {NoCode}]
        /\ highlightedHtml'[b] = k
        /\ \A c \in Blocks : c # b => highlightedHtml'[c] = highlightedHtml[c]
    BY <1>1, <1>9 DEF CodeTypeOK
  <2>3. CodeTypeOK'
    BY <1>1, <1>5, <1>6, <2>1, <2>2 DEF CodeTypeOK
  <2>4. JobInv' /\ Rejected' = Rejected
    BY <1>1, <2>1 DEF JobInv, Cached, Rejected
  <2>5. ASSUME NEW c \in Blocks, Wants(c)'
        PROVE  /\ requested'[c]
               /\ \/ Settled(c)'
                  \/ Contains(pendingHighlights', <<c, code'[c]>>)
                  \/ <<c, code'[c]>> \in waiting'
                  \/ code'[c] \in Rejected'
    <3>1. CASE c = b
      <4>1. Settled(b)'
        BY <1>5, <1>7, <2>2 DEF Settled
      <4> QED BY <1>3, <1>4, <3>1, <4>1
    <3>2. CASE c # b
      <4>1. Wants(c) /\ requested'[c]
        BY <1>8, <2>5, <3>2
      <4>2. Settled(c) => Settled(c)'
        BY <1>5, <2>2, <3>2 DEF Settled
      <4> QED BY <1>1, <1>5, <2>1, <2>4, <3>2, <4>1, <4>2 DEF FenceInv
    <3> QED BY <3>1, <3>2
  <2>6. ASSUME NEW c \in Blocks, c \notin outrun', NEW j \in Codes \ Rejected',
               <<c, j>> \in waiting' \/ Contains(pendingHighlights', <<c, j>>)
        PROVE  j = code'[c]
    <3>1. <<c, j>> \in waiting \/ Contains(pendingHighlights, <<c, j>>)
      BY <2>1, <2>6
    <3>2. c # b
      BY <1>5, <2>4, <2>6, <3>1 DEF Busy
    <3> QED BY <1>1, <1>5, <2>4, <2>6, <3>1, <3>2 DEF FenceInv
  <2>7. FenceInv'
    BY <2>5, <2>6 DEF FenceInv
  <2> QED BY <2>3, <2>4, <2>7 DEF CodeInv
<1>10. CASE ~Cached(k) /\ ScheduleHighlight(b, k, isRequested)
  <2>1. PICK tasks : tasks = Append(pendingHighlights, <<b, k>>)
    OBVIOUS
  <2>2. Moved(tasks, isRequested) /\ JobInv'
    BY <1>1, <1>3, <1>10, <2>1, ScheduleFacts
  <2>3. \A w : Contains(tasks, w) <=> Contains(pendingHighlights, w) \/ w = <<b, k>>
    <3>1. pendingHighlights \in Seq(Blocks \X Codes) /\ <<b, k>> \in Blocks \X Codes
      BY <1>1 DEF CodeTypeOK
    <3> QED BY <2>1, <3>1, ContainsFacts
  <2>4. CodeTypeOK'
    BY <1>1, <1>5, <1>6, <2>2 DEF CodeTypeOK, Moved
  <2>5. ASSUME NEW c \in Blocks, Wants(c)'
        PROVE  /\ requested'[c]
               /\ \/ Settled(c)'
                  \/ Contains(pendingHighlights', <<c, code'[c]>>)
                  \/ <<c, code'[c]>> \in waiting'
                  \/ code'[c] \in Rejected'
    <3>1. CASE c = b
      <4>1. Contains(tasks, <<b, k>>)
        BY <2>3
      <4>2. \/ Contains(pendingHighlights', <<b, k>>)
            \/ <<b, k>> \in waiting'
            \/ highlightedHtml'[b] = k
        BY <1>3, <2>2, <4>1 DEF Moved
      <4>3. highlightedHtml'[b] = k => Settled(b)'
        BY <1>5, <1>7 DEF Settled
      <4> QED BY <1>3, <1>4, <1>5, <3>1, <4>2, <4>3
    <3>2. CASE c # b
      <4>1. Wants(c) /\ requested'[c] /\ isRequested[c]
        BY <1>4, <1>8, <2>5, <3>2
      <4>2. code[c] \in Codes /\ code'[c] = code[c] /\ (c \in outrun' <=> c \in outrun)
        BY <1>1, <1>5, <3>2, <4>1 DEF Wants, CodeTypeOK
      <4>3. \A j \in Codes : Contains(tasks, <<c, j>>) <=> Contains(pendingHighlights, <<c, j>>)
        BY <2>3, <3>2
      <4>4. CASE Settled(c)
        <5>1. highlightedHtml'[c] = highlightedHtml[c] \/ highlightedHtml'[c] \in Codes
          BY <2>2 DEF Moved
        <5>2. c \notin outrun => highlightedHtml'[c] = highlightedHtml[c]
                                 \/ highlightedHtml'[c] = code[c]
          BY <1>1, <2>2, <4>3 DEF Moved, FenceInv
        <5>3. Settled(c)'
          BY <4>2, <4>4, <5>1, <5>2 DEF Settled
        <5> QED BY <4>1, <5>3
      <4>5. CASE Contains(pendingHighlights, <<c, code[c]>>)
        <5>1. \/ Contains(pendingHighlights', <<c, code[c]>>)
              \/ <<c, code[c]>> \in waiting'
              \/ highlightedHtml'[c] = code[c]
          BY <2>2, <4>1, <4>2, <4>3, <4>5 DEF Moved
        <5>2. highlightedHtml'[c] = code[c] => Settled(c)'
          BY <4>2 DEF Settled
        <5> QED BY <4>1, <4>2, <5>1, <5>2
      <4>6. CASE <<c, code[c]>> \in waiting \/ code[c] \in Rejected
        BY <2>2, <4>1, <4>2, <4>6 DEF Moved
      <4> QED BY <1>1, <4>1, <4>4, <4>5, <4>6 DEF FenceInv
    <3> QED BY <3>1, <3>2
  <2>6. ASSUME NEW c \in Blocks, c \notin outrun', NEW j \in Codes \ Rejected',
               <<c, j>> \in waiting' \/ Contains(pendingHighlights', <<c, j>>)
        PROVE  j = code'[c]
    <3>1. <<c, j>> \in waiting \/ Contains(tasks, <<c, j>>)
      BY <2>2, <2>6 DEF Moved
    <3>2. <<c, j>> \in waiting \/ Contains(pendingHighlights, <<c, j>>) \/ <<c, j>> = <<b, k>>
      BY <2>3, <3>1
    <3>3. j \in Codes \ Rejected
      BY <2>2, <2>6 DEF Moved
    <3>4. CASE c = b
      BY <1>5, <2>6, <3>2, <3>3, <3>4 DEF Busy
    <3>5. CASE c # b
      BY <1>1, <1>5, <2>6, <3>2, <3>3, <3>5 DEF FenceInv
    <3> QED BY <3>4, <3>5
  <2>7. FenceInv'
    BY <2>5, <2>6 DEF FenceInv
  <2> QED BY <2>2, <2>4, <2>7 DEF CodeInv
<1> QED BY <1>2, <1>9, <1>10 DEF GiveCode


LEMMA FrameStep ==
  ASSUME CodeInv, Frame
  PROVE  CodeInv'
<1> USE CodeHighlightAssumption
<1>1. CodeTypeOK /\ JobInv /\ FenceInv
  BY DEF CodeInv
<1>2. /\ ProcessQueue(pendingHighlights, requested)
      /\ UNCHANGED <<code, mounted, requested, hasCleanup, outrun>>
  BY DEF Frame, blockVars
<1>3. Moved(pendingHighlights, requested) /\ JobInv'
  <2>1. pendingHighlights \in Seq(Blocks \X Codes) /\ requested \in [Blocks -> BOOLEAN]
    BY <1>1 DEF CodeTypeOK
  <2> QED BY <1>1, <1>2, <2>1, ProcessFacts
<1>4. CodeTypeOK'
  BY <1>1, <1>2, <1>3 DEF CodeTypeOK, Moved
<1>5. ASSUME NEW c \in Blocks, Wants(c)'
      PROVE  /\ requested'[c]
             /\ \/ Settled(c)'
                \/ Contains(pendingHighlights', <<c, code'[c]>>)
                \/ <<c, code'[c]>> \in waiting'
                \/ code'[c] \in Rejected'
  <2>1. Wants(c) /\ requested[c] /\ code[c] \in Codes
    BY <1>1, <1>2, <1>5 DEF Wants, FenceInv, CodeTypeOK
  <2>2. CASE Settled(c)
    <3>1. highlightedHtml'[c] = highlightedHtml[c] \/ highlightedHtml'[c] \in Codes
      BY <1>3 DEF Moved
    <3>2. c \notin outrun => highlightedHtml'[c] = highlightedHtml[c]
                             \/ highlightedHtml'[c] = code[c]
      BY <1>1, <1>3 DEF Moved, FenceInv
    <3>3. Settled(c)'
      BY <1>2, <2>2, <3>1, <3>2 DEF Settled
    <3> QED BY <1>2, <2>1, <3>3
  <2>3. CASE Contains(pendingHighlights, <<c, code[c]>>)
    <3>1. \/ Contains(pendingHighlights', <<c, code[c]>>)
          \/ <<c, code[c]>> \in waiting'
          \/ highlightedHtml'[c] = code[c]
      BY <1>3, <2>1, <2>3 DEF Moved
    <3>2. highlightedHtml'[c] = code[c] => Settled(c)'
      BY <1>2, <2>1 DEF Settled
    <3> QED BY <1>2, <2>1, <3>1, <3>2
  <2>4. CASE <<c, code[c]>> \in waiting \/ code[c] \in Rejected
    BY <1>2, <1>3, <2>1, <2>4 DEF Moved
  <2> QED BY <1>1, <2>1, <2>2, <2>3, <2>4 DEF FenceInv
<1>6. ASSUME NEW c \in Blocks, c \notin outrun', NEW j \in Codes \ Rejected',
             <<c, j>> \in waiting' \/ Contains(pendingHighlights', <<c, j>>)
      PROVE  j = code'[c]
  <2>1. /\ <<c, j>> \in waiting \/ Contains(pendingHighlights, <<c, j>>)
        /\ j \in Codes \ Rejected
    BY <1>3, <1>6 DEF Moved
  <2> QED BY <1>1, <1>2, <1>6, <2>1 DEF FenceInv
<1>7. FenceInv'
  BY <1>5, <1>6 DEF FenceInv
<1> QED BY <1>3, <1>4, <1>7 DEF CodeInv

LEMMA UnmountStep ==
  ASSUME CodeInv, NEW b \in Blocks, Unmount(b)
  PROVE  CodeInv'
<1>1. CodeTypeOK /\ JobInv /\ FenceInv
  BY DEF CodeInv
<1>2. /\ mounted' = [mounted EXCEPT ![b] = FALSE]
      /\ requested' = [requested EXCEPT ![b] = requested[b] /\ ~hasCleanup[b]]
      /\ UNCHANGED <<highlightCache, inFlight, running, waiting, pendingHighlights,
                     isProcessingQueue, code, hasCleanup, highlightedHtml, outrun>>
  BY DEF Unmount, jobVars, queueVars
<1>3. /\ mounted' \in [Blocks -> BOOLEAN] /\ requested' \in [Blocks -> BOOLEAN]
      /\ mounted'[b] = FALSE
      /\ \A c \in Blocks : c # b => mounted'[c] = mounted[c] /\ requested'[c] = requested[c]
  BY <1>1, <1>2 DEF CodeTypeOK
<1>4. CodeTypeOK'
  BY <1>1, <1>2, <1>3 DEF CodeTypeOK
<1>5. JobInv' /\ Rejected' = Rejected
  BY <1>1, <1>2 DEF JobInv, Cached, Rejected
<1>6. FenceInv'
  BY <1>1, <1>2, <1>3, <1>5 DEF FenceInv, Wants, Settled
<1> QED BY <1>4, <1>5, <1>6 DEF CodeInv

LEMMA JobEnds ==
  ASSUME CodeInv, NEW k \in Codes, running[k] > 0,
         running' = [running EXCEPT ![k] = running[k] - 1],
         waiting' = {w \in waiting : w[2] # k}
  PROVE  /\ k \in inFlight /\ ~Cached(k)
         /\ running' \in [Codes -> Nat] /\ running'[k] = 0
         /\ \A j \in Codes : j # k => running'[j] = running[j]
         /\ waiting' \in SUBSET (Blocks \X Codes)
         /\ \A w \in waiting' : w \in waiting /\ w[2] # k
         /\ \A c \in Blocks, j \in Codes : <<c, j>> \in waiting /\ j # k => <<c, j>> \in waiting'
<1>1. /\ running \in [Codes -> Nat] /\ waiting \in SUBSET (Blocks \X Codes)
      /\ running[k] <= 1 /\ k \in inFlight /\ ~Cached(k)
  BY DEF CodeInv, CodeTypeOK, JobInv
<1>2. running[k] = 1
  BY <1>1
<1>3. running' = [running EXCEPT ![k] = 0]
  BY <1>2
<1> QED BY <1>1, <1>3

(* A job is done: those waiting for it show its result.                     *)
LEMMA JobDoneStep ==
  ASSUME CodeInv, NEW k \in Codes, JobDone(k)
  PROVE  CodeInv'
<1> USE CodeHighlightAssumption
<1>1. CodeTypeOK /\ JobInv /\ FenceInv
  BY DEF CodeInv
<1>2. /\ running[k] > 0
      /\ running' = [running EXCEPT ![k] = running[k] - 1]
      /\ inFlight' = inFlight \ {k}
      /\ highlightCache' = Store(k)
      /\ highlightedHtml' = [c \in Blocks |->
           IF <<c, k>> \in waiting /\ requested[c] THEN k ELSE highlightedHtml[c]]
      /\ waiting' = {w \in waiting : w[2] # k}
      /\ UNCHANGED <<pendingHighlights, isProcessingQueue, code, mounted, requested,
                     hasCleanup, outrun>>
  BY DEF JobDone, ShowToWaiting, queueVars, blockVars
<1>3. /\ k \in inFlight /\ ~Cached(k)
      /\ running' \in [Codes -> Nat] /\ running'[k] = 0
      /\ \A j \in Codes : j # k => running'[j] = running[j]
      /\ waiting' \in SUBSET (Blocks \X Codes)
      /\ \A w \in waiting' : w \in waiting /\ w[2] # k
      /\ \A c \in Blocks, j \in Codes : <<c, j>> \in waiting /\ j # k => <<c, j>> \in waiting'
  BY <1>2, JobEnds
<1>4. /\ highlightCache' \in Seq(Codes)
      /\ \A j : Contains(highlightCache', j) => Contains(highlightCache, j) \/ j = k
  <2>1. PICK entries : entries = Append(highlightCache, k)
    OBVIOUS
  <2>2. highlightCache \in Seq(Codes)
    BY <1>1 DEF CodeTypeOK
  <2>3. entries \in Seq(Codes)
    BY <2>1, <2>2, AppendProperties
  <2>4. \A j : Contains(entries, j) <=> Contains(highlightCache, j) \/ j = k
    BY <2>1, <2>2, ContainsFacts
  <2>5. highlightCache' = IF Len(entries) > MaxCache THEN Tail(entries) ELSE entries
    BY <1>2, <1>3, <2>1 DEF Store
  <2>6. entries # <<>>
    BY <2>1, <2>2, AppendProperties, EmptySeq
  <2>7. Tail(entries) \in Seq(Codes) /\ \A j : Contains(Tail(entries), j) => Contains(entries, j)
    BY <2>3, <2>6, ContainsFacts
  <2> QED BY <2>3, <2>4, <2>5, <2>7
<1>5. /\ highlightedHtml' \in [Blocks -> Codes \cup {NoCode}]
      /\ \A c \in Blocks : highlightedHtml'[c] =
           IF <<c, k>> \in waiting /\ requested[c] THEN k ELSE highlightedHtml[c]
  BY <1>1, <1>2 DEF CodeTypeOK
<1>6. CodeTypeOK'
  BY <1>1, <1>2, <1>3, <1>4, <1>5 DEF CodeTypeOK
<1>7. JobInv'
  <2>1. \A j \in Codes : running'[j] <= 1 /\ (running'[j] > 0 => j \in inFlight')
    BY <1>1, <1>2, <1>3 DEF JobInv
  <2>2. \A j \in Codes : j \in inFlight' => ~Contains(highlightCache', j)
    BY <1>1, <1>2, <1>4 DEF JobInv, Cached
  <2>3. \A w \in waiting' : w[2] \in inFlight'
    BY <1>1, <1>2, <1>3 DEF JobInv
  <2> QED BY <2>1, <2>2, <2>3 DEF JobInv, Cached
<1>8. Rejected \subseteq Rejected'
  BY <1>1, <1>2, <1>3 DEF Rejected, CodeTypeOK
<1>9. ASSUME NEW c \in Blocks, Wants(c)'
      PROVE  /\ requested'[c]
             /\ \/ Settled(c)'
                \/ Contains(pendingHighlights', <<c, code'[c]>>)
                \/ <<c, code'[c]>> \in waiting'
                \/ code'[c] \in Rejected'
  <2>1. Wants(c) /\ requested[c] /\ code[c] \in Codes /\ code[c] # NoCode
    BY <1>1, <1>2, <1>9 DEF Wants, FenceInv, CodeTypeOK
  <2>2. CASE Settled(c)
    <3>1. <<c, k>> \in waiting /\ c \notin outrun => k = code[c]
      <4>1. running[k] # 0
        BY <1>1, <1>2 DEF CodeTypeOK
      <4>2. k \in Codes \ Rejected
        BY <4>1 DEF Rejected
      <4> QED BY <1>1, <4>2 DEF FenceInv
    <3>2. Settled(c)'
      BY <1>2, <1>5, <2>2, <3>1 DEF Settled
    <3> QED BY <1>2, <2>1, <3>2
  <2>3. CASE <<c, code[c]>> \in waiting
    <3>1. CASE code[c] = k
      <4>1. highlightedHtml'[c] = code[c]
        BY <1>5, <2>1, <2>3, <3>1
      <4>2. Settled(c)'
        BY <1>2, <2>1, <4>1 DEF Settled
      <4> QED BY <1>2, <2>1, <4>2
    <3>2. CASE code[c] # k
      BY <1>2, <1>3, <2>1, <2>3, <3>2
    <3> QED BY <3>1, <3>2
  <2>4. CASE Contains(pendingHighlights, <<c, code[c]>>) \/ code[c] \in Rejected
    BY <1>2, <1>8, <2>1, <2>4
  <2> QED BY <1>1, <2>1, <2>2, <2>3, <2>4 DEF FenceInv
<1>10. ASSUME NEW c \in Blocks, c \notin outrun', NEW j \in Codes \ Rejected',
              <<c, j>> \in waiting' \/ Contains(pendingHighlights', <<c, j>>)
       PROVE  j = code'[c]
  BY <1>1, <1>2, <1>3, <1>8, <1>10 DEF FenceInv
<1>11. FenceInv'
  BY <1>9, <1>10 DEF FenceInv
<1> QED BY <1>6, <1>7, <1>11 DEF CodeInv

LEMMA JobFailsStep ==
  ASSUME CodeInv, NEW k \in Codes, JobFails(k)
  PROVE  CodeInv'
<1>1. CodeTypeOK /\ JobInv /\ FenceInv
  BY DEF CodeInv
<1>2. /\ running[k] > 0
      /\ running' = [running EXCEPT ![k] = running[k] - 1]
      /\ waiting' = {w \in waiting : w[2] # k}
      /\ UNCHANGED <<highlightCache, inFlight, pendingHighlights, isProcessingQueue, code,
                     mounted, requested, hasCleanup, highlightedHtml, outrun>>
  BY DEF JobFails, queueVars, blockVars
<1>3. /\ k \in inFlight
      /\ running' \in [Codes -> Nat] /\ running'[k] = 0
      /\ \A j \in Codes : j # k => running'[j] = running[j]
      /\ waiting' \in SUBSET (Blocks \X Codes)
      /\ \A w \in waiting' : w \in waiting /\ w[2] # k
      /\ \A c \in Blocks, j \in Codes : <<c, j>> \in waiting /\ j # k => <<c, j>> \in waiting'
  BY <1>2, JobEnds
<1>4. CodeTypeOK'
  BY <1>1, <1>2, <1>3 DEF CodeTypeOK
<1>5. JobInv'
  <2>1. \A j \in Codes : running'[j] <= 1 /\ (running'[j] > 0 => j \in inFlight')
    BY <1>1, <1>2, <1>3 DEF JobInv
  <2>2. \A w \in waiting' : w[2] \in inFlight'
    BY <1>1, <1>2, <1>3 DEF JobInv
  <2> QED BY <1>1, <1>2, <2>1, <2>2 DEF JobInv, Cached
<1>6. k \in Rejected' /\ Rejected \subseteq Rejected'
  BY <1>1, <1>2, <1>3 DEF Rejected, CodeTypeOK
<1>7. ASSUME NEW c \in Blocks, Wants(c)'
      PROVE  /\ requested'[c]
             /\ \/ Settled(c)'
                \/ Contains(pendingHighlights', <<c, code'[c]>>)
                \/ <<c, code'[c]>> \in waiting'
                \/ code'[c] \in Rejected'
  <2>1. Wants(c) /\ requested[c] /\ code[c] \in Codes
    BY <1>1, <1>2, <1>7 DEF Wants, FenceInv, CodeTypeOK
  <2>2. Settled(c) => Settled(c)'
    BY <1>2 DEF Settled
  <2>3. <<c, code[c]>> \in waiting => <<c, code'[c]>> \in waiting' \/ code'[c] \in Rejected'
    BY <1>2, <1>3, <1>6, <2>1
  <2> QED BY <1>1, <1>2, <1>6, <2>1, <2>2, <2>3 DEF FenceInv
<1>8. ASSUME NEW c \in Blocks, c \notin outrun', NEW j \in Codes \ Rejected',
             <<c, j>> \in waiting' \/ Contains(pendingHighlights', <<c, j>>)
      PROVE  j = code'[c]
  BY <1>1, <1>2, <1>3, <1>6, <1>8 DEF FenceInv
<1>9. FenceInv'
  BY <1>7, <1>8 DEF FenceInv
<1> QED BY <1>4, <1>5, <1>9 DEF CodeInv

LEMMA CodeInvNext == CodeInv /\ [CodeNext]_codeVars => CodeInv'
<1> SUFFICES ASSUME CodeInv, [CodeNext]_codeVars PROVE CodeInv'
  OBVIOUS
<1>1. CASE UNCHANGED codeVars
  <2>1. UNCHANGED <<highlightCache, inFlight, running, waiting, pendingHighlights,
                    isProcessingQueue, code, mounted, requested, hasCleanup,
                    highlightedHtml, outrun>>
    BY <1>1 DEF codeVars, jobVars, queueVars, blockVars
  <2>2. CodeTypeOK'
    BY <2>1 DEF CodeInv, CodeTypeOK
  <2>3. JobInv'
    BY <2>1 DEF CodeInv, JobInv, Cached
  <2>4. FenceInv'
    BY <2>1 DEF CodeInv, FenceInv, Wants, Settled, Rejected
  <2> QED BY <2>2, <2>3, <2>4 DEF CodeInv
<1> QED
  BY <1>1, GiveCodeStep, UnmountStep, FrameStep, JobDoneStep, JobFailsStep DEF CodeNext

LEMMA CodeInvariant == CodeSpec => []CodeInv
<1>1. CodeInit => CodeInv
  BY CodeInitInv
<1>2. CodeInv /\ [CodeNext]_codeVars => CodeInv'
  BY CodeInvNext
<1> QED BY <1>1, <1>2, PTL DEF CodeSpec

-----------------------------------------------------------------------------
(* Code fences: theorems                                                    *)

(* A code is highlighted by one job at a time, and never while its result   *)
(* is in the cache: what is in inFlightHighlights is not cached, and every  *)
(* job that runs is in it.                                                  *)
THEOREM OneJobAtATime == CodeSpec => []OneJobPerCode
<1>1. CodeInv => OneJobPerCode
  BY DEF CodeInv, JobInv, OneJobPerCode
<1> QED BY <1>1, CodeInvariant, PTL

(* When the queue, the frames and the jobs are all at rest, each fence on   *)
(* the page shows a highlighting, its own one unless it was outrun, but for *)
(* codes whose job was rejected.                                            *)
THEOREM QuietIsHighlighted == CodeSpec => []QuietShowsCode
<1>1. CodeInv => QuietShowsCode
  <2> SUFFICES ASSUME CodeInv, Quiet, NEW b \in Blocks,
                      mounted[b], code[b] \notin Rejected \cup {NoCode}
               PROVE  /\ highlightedHtml[b] # NoCode
                      /\ b \notin outrun => highlightedHtml[b] = code[b]
    BY DEF QuietShowsCode
  <2>1. CodeTypeOK /\ JobInv /\ FenceInv
    BY DEF CodeInv
  <2>2. Wants(b) /\ code[b] \in Codes /\ code[b] # NoCode
    BY <2>1 DEF Wants, CodeTypeOK
  <2>3. ~Contains(pendingHighlights, <<b, code[b]>>)
    <3>1. pendingHighlights \in Seq(Blocks \X Codes) /\ pendingHighlights = <<>>
      BY <2>1 DEF CodeTypeOK, Quiet
    <3> QED BY ZenonT(30), <3>1, ContainsFacts
  <2>4. <<b, code[b]>> \notin waiting
    BY <2>1, <2>2 DEF JobInv, Rejected, Quiet
  <2>5. Settled(b)
    BY <2>1, <2>2, <2>3, <2>4 DEF FenceInv
  <2> QED BY <2>2, <2>5 DEF Settled
<1> QED BY <1>1, CodeInvariant, PTL

=============================================================================
