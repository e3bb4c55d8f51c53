--------------------------- MODULE OpsConsoleProofs ---------------------------
(***************************************************************************)
(* TLAPS proofs about OpsConsole, for every set of tasks, every length of  *)
(* the list of recent tasks and any number of calls and faults.            *)
(***************************************************************************)
EXTENDS OpsConsole, DictTheorems, SequenceTheorems, FiniteSetTheorems

\* An element removed from a sequence: the ones behind it move up.
LEMMA RemoveFacts ==
  ASSUME NEW S, NEW s \in Seq(S), NEW n \in 1 .. Len(s)
  PROVE  /\ RemoveAt(s, n) \in Seq(S)
         /\ Len(RemoveAt(s, n)) = Len(s) - 1
         /\ \A i \in 1 .. (Len(s) - 1) :
              RemoveAt(s, n)[i] = s[IF i < n THEN i ELSE i + 1]
  <1> DEFINE front == SubSeq(s, 1, n - 1)
             back == SubSeq(s, n + 1, Len(s))
  <1>0. Len(s) \in Nat /\ n \in Nat /\ (n < Len(s) \/ n = Len(s))
    OBVIOUS
  <1>1. /\ Len(s) \in Nat /\ n \in Nat /\ DOMAIN s = 1 .. Len(s)
        /\ \A i \in 1 .. Len(s) : s[i] \in S
    OBVIOUS
  <1>2. /\ front \in Seq(S) /\ Len(front) = n - 1
        /\ \A i \in 1 .. (n - 1) : front[i] = s[i]
    <2>1. \A i \in 1 .. (n - 1) : s[i] \in S
      BY <1>1
    <2>2. QED
      BY <1>1, <2>1, SubSeqProperties
  <1>3. /\ back \in Seq(S) /\ Len(back) = Len(s) - n
        /\ \A i \in 1 .. (Len(s) - n) : back[i] = s[n + i]
    <2>1. \A i \in (n + 1) .. Len(s) : s[i] \in S
      BY <1>1
    <2>2. /\ back \in Seq(S)
          /\ Len(back) = IF n + 1 <= Len(s) THEN Len(s) - (n + 1) + 1 ELSE 0
          /\ \A i \in 1 .. (Len(s) - (n + 1) + 1) : back[i] = s[n + 1 + i - 1]
      BY <1>1, <2>1, SubSeqProperties
    <2> HIDE DEF front, back
    <2>3. Len(back) = Len(s) - n
      <3>1. CASE n < Len(s)
        BY <1>0, <2>2, <3>1
      <3>2. CASE n = Len(s)
        BY <1>0, <2>2, <3>2
      <3>3. QED
        BY <1>0, <3>1, <3>2
    <2>4. ASSUME NEW i \in 1 .. (Len(s) - n)
          PROVE  back[i] = s[n + i]
      <3>1. i \in 1 .. (Len(s) - (n + 1) + 1) /\ n + 1 + i - 1 = n + i
        BY <1>1
      <3>2. QED
        BY <2>2, <3>1
    <2>5. QED
      BY <2>2, <2>3, <2>4
  <1>4. /\ front \o back \in Seq(S)
        /\ Len(front \o back) = (n - 1) + (Len(s) - n)
        /\ \A i \in 1 .. ((n - 1) + (Len(s) - n)) :
             (front \o back)[i] = IF i <= n - 1 THEN front[i] ELSE back[i - (n - 1)]
    <2> HIDE DEF front, back
    <2>1. /\ front \o back \in Seq(S)
          /\ Len(front \o back) = Len(front) + Len(back)
          /\ \A i \in 1 .. (Len(front) + Len(back)) :
               (front \o back)[i] = IF i <= Len(front) THEN front[i] ELSE back[i - Len(front)]
      BY <1>2, <1>3, ConcatProperties
    <2>2. QED
      BY <1>2, <1>3, <2>1
  <1>5. (n - 1) + (Len(s) - n) = Len(s) - 1
    BY <1>1
  <1>6. ASSUME NEW i \in 1 .. (Len(s) - 1)
        PROVE  (front \o back)[i] = s[IF i < n THEN i ELSE i + 1]
    <2> HIDE DEF front, back
    <2>0. (front \o back)[i] = IF i <= n - 1 THEN front[i] ELSE back[i - (n - 1)]
      BY <1>4, <1>5
    <2>1. CASE i < n
      <3>1. i \in 1 .. (n - 1) /\ i <= n - 1
        BY <1>1, <2>1
      <3>2. QED
        BY <1>2, <2>0, <2>1, <3>1
    <2>2. CASE ~(i < n)
      <3>1. /\ i - (n - 1) \in 1 .. (Len(s) - n) /\ n + (i - (n - 1)) = i + 1
            /\ ~(i <= n - 1)
        BY <1>1, <2>2
      <3>2. QED
        BY <1>3, <2>0, <2>2, <3>1
    <2>3. QED
      BY <2>1, <2>2
  <1>7. QED
    BY <1>4, <1>5, <1>6 DEF RemoveAt

\* The lesser of two lengths.
LEMMA MinFacts ==
  ASSUME NEW m \in Nat, NEW n \in Nat
  PROVE  Min({m, n}) = IF m <= n THEN m ELSE n
  <1>1. Min({m, n}) = CHOOSE x \in {m, n} : \A y \in {m, n} : x <= y
    BY DEF Min
  <1>2. QED
    BY <1>1

\* A list without the entry of task t.
LEMMA WithoutFacts ==
  ASSUME NEW list \in Seq(View), OnePerTask(list), NEW t
  PROVE  LET rest == Without(list, t)
         IN /\ rest \in Seq(View)
            /\ IF \E i \in DOMAIN list : list[i].task = t
               THEN Len(rest) = Len(list) - 1 ELSE rest = list
            /\ OnePerTask(rest)
            /\ \A i \in DOMAIN rest : rest[i].task # t /\ \E j \in DOMAIN list : rest[i] = list[j]
            /\ \A j \in DOMAIN list : list[j].task # t => \E i \in DOMAIN rest : rest[i] = list[j]
  <1> DEFINE rest == Without(list, t)
             I == {i \in 1 .. Len(list) : list[i].task = t}
  <1>0. DOMAIN list = 1 .. Len(list) /\ Len(list) \in Nat
    OBVIOUS
  <1>1. CASE \E i \in DOMAIN list : list[i].task = t
    <2>1. PICK n \in 1 .. Len(list) : list[n].task = t
      BY <1>0, <1>1
    <2>2. I = {n}
      BY <1>0, <2>1 DEF OnePerTask
    <2>3. SelectInSeq(list, LAMBDA other : other.task = t) = Min(I)
      BY <2>2 DEF SelectInSeq
    <2>4. Min({n}) = n
      BY DEF Min
    <2>5. rest = RemoveAt(list, n)
      BY <2>1, <2>2, <2>3, <2>4 DEF Without, RemoveFirstMatch
    <2> HIDE DEF rest, I
    <2>6. /\ rest \in Seq(View) /\ Len(rest) = Len(list) - 1
          /\ DOMAIN rest = 1 .. (Len(list) - 1)
          /\ \A i \in 1 .. (Len(list) - 1) : rest[i] = list[IF i < n THEN i ELSE i + 1]
      <3>1. /\ rest \in Seq(View) /\ Len(rest) = Len(list) - 1
            /\ \A i \in 1 .. (Len(list) - 1) : rest[i] = list[IF i < n THEN i ELSE i + 1]
        BY <2>5, RemoveFacts
      <3>2. QED
        BY <3>1
    <2>7. \A i \in 1 .. (Len(list) - 1) :
            /\ (IF i < n THEN i ELSE i + 1) \in 1 .. Len(list)
            /\ (IF i < n THEN i ELSE i + 1) # n
      BY <1>0
    <2>8. OnePerTask(rest)
      <3> SUFFICES ASSUME NEW i \in 1 .. (Len(list) - 1), NEW j \in 1 .. (Len(list) - 1),
                          rest[i].task = rest[j].task
                   PROVE  i = j
        BY <2>6 DEF OnePerTask
      <3>1. ASSUME NEW a \in DOMAIN list, NEW b \in DOMAIN list,
                   rest[i] = list[a], rest[j] = list[b]
            PROVE  a = b
        BY <3>1 DEF OnePerTask
      <3>2. /\ (IF i < n THEN i ELSE i + 1) \in DOMAIN list
            /\ rest[i] = list[IF i < n THEN i ELSE i + 1]
            /\ (IF j < n THEN j ELSE j + 1) \in DOMAIN list
            /\ rest[j] = list[IF j < n THEN j ELSE j + 1]
        BY <1>0, <2>6, <2>7
      <3>3. (IF i < n THEN i ELSE i + 1) = (IF j < n THEN j ELSE j + 1)
        BY <3>1, <3>2
      <3>4. QED
        BY <1>0, <3>3
    <2>9. \A i \in DOMAIN rest : rest[i].task # t /\ \E j \in DOMAIN list : rest[i] = list[j]
      BY <1>0, <2>1, <2>6, <2>7 DEF OnePerTask
    <2>10. ASSUME NEW j \in DOMAIN list, list[j].task # t
           PROVE  \E i \in DOMAIN rest : rest[i] = list[j]
      <3>1. j # n
        BY <2>1, <2>10
      <3>2. CASE j < n
        BY <1>0, <2>6, <3>2
      <3>3. CASE j > n
        <4>1. j - 1 \in 1 .. (Len(list) - 1) /\ ~(j - 1 < n) /\ (j - 1) + 1 = j
          BY <1>0, <3>3
        <4>2. QED
          BY <2>6, <4>1
      <3>4. QED
        BY <1>0, <3>1, <3>2, <3>3
    <2>11. QED
      BY <1>1, <2>6, <2>8, <2>9, <2>10 DEF rest
  <1>2. CASE ~ \E i \in DOMAIN list : list[i].task = t
    <2>1. rest = list
      BY <1>0, <1>2 DEF Without, RemoveFirstMatch
    <2>2. QED
      BY <1>2, <2>1
  <1>3. QED
    BY <1>1, <1>2

\* A view put in front of a list, cut at the length the page keeps.
LEMMA PushedFacts ==
  ASSUME NEW list \in Seq(View), NEW view \in View
  PROVE  LET new == Pushed(list, view)
         IN /\ new \in Seq(View)
            /\ Len(new) = IF MaxRecent <= Len(list) + 1 THEN MaxRecent ELSE Len(list) + 1
            /\ \A i \in 1 .. Len(new) : new[i] = IF i = 1 THEN view ELSE list[i - 1]
  <1> DEFINE all == <<view>> \o list
             m == Min({MaxRecent, Len(list) + 1})
  <1>0. MaxRecent \in Nat /\ MaxRecent >= 1 /\ Len(list) \in Nat
    BY ConsoleAssumption
  <1>1. m = IF MaxRecent <= Len(list) + 1 THEN MaxRecent ELSE Len(list) + 1
    BY <1>0, MinFacts
  <1>2. m \in Nat /\ 1 <= m /\ m <= Len(list) + 1
    BY <1>0, <1>1
  <1>3. /\ all \in Seq(View) /\ Len(all) = Len(list) + 1
        /\ \A i \in 1 .. (Len(list) + 1) : all[i] = IF i = 1 THEN view ELSE list[i - 1]
    <2>1. <<view>> \in Seq(View) /\ Len(<<view>>) = 1 /\ <<view>>[1] = view
      OBVIOUS
    <2>2. /\ all \in Seq(View) /\ Len(all) = 1 + Len(list)
          /\ \A i \in 1 .. (1 + Len(list)) :
               all[i] = IF i <= 1 THEN <<view>>[i] ELSE list[i - 1]
      BY <2>1, ConcatProperties
    <2> HIDE DEF all
    <2>3. QED
      BY <1>0, <2>1, <2>2
  <1> HIDE DEF all, m
  <1>4. \A i \in 1 .. m : i \in 1 .. (Len(list) + 1) /\ all[i] \in View
    BY <1>0, <1>2, <1>3
  <1>5. /\ SubSeq(all, 1, m) \in Seq(View)
        /\ Len(SubSeq(all, 1, m)) = IF 1 <= m THEN m - 1 + 1 ELSE 0
        /\ \A i \in 1 .. (m - 1 + 1) : SubSeq(all, 1, m)[i] = all[1 + i - 1]
    BY <1>2, <1>4, SubSeqProperties
  <1>6. Len(SubSeq(all, 1, m)) = m
    BY <1>2, <1>5
  <1>7. ASSUME NEW i \in 1 .. m
        PROVE  SubSeq(all, 1, m)[i] = IF i = 1 THEN view ELSE list[i - 1]
    <2>1. i \in 1 .. (m - 1 + 1) /\ 1 + i - 1 = i
      BY <1>2
    <2>2. QED
      BY <1>3, <1>4, <1>5, <2>1
  <1>8. Pushed(list, view) = SubSeq(all, 1, m)
    BY DEF Pushed, all, m
  <1>9. QED
    BY <1>1, <1>5, <1>6, <1>7, <1>8

\* The list after an upsert: the view comes first, the others follow without the old
\* entry of its task, and one that is full loses its last.
Upserted(list, view, new) ==
  /\ new \in Seq(View) /\ Len(new) <= MaxRecent
  /\ OnePerTask(new)
  /\ \E i \in DOMAIN new : new[i] = view
  /\ \A i \in DOMAIN new :
       \/ new[i] = view
       \/ new[i].task # view.task /\ \E j \in DOMAIN list : new[i] = list[j]
  /\ Len(list) < MaxRecent \/ (\E i \in DOMAIN list : list[i].task = view.task) =>
       \A j \in DOMAIN list : \E i \in DOMAIN new : new[i].task = list[j].task

\* The upsert of the page does that.
LEMMA UpsertFacts ==
  ASSUME NEW list \in Seq(View), OnePerTask(list), Len(list) <= MaxRecent, NEW view \in View
  PROVE  Upserted(list, view, Upsert(list, view))
  <1> DEFINE rest == Without(list, view.task)
             new == Pushed(rest, view)
  <1>0. MaxRecent \in Nat /\ MaxRecent >= 1 /\ Len(list) \in Nat /\ DOMAIN list = 1 .. Len(list)
    BY ConsoleAssumption
  <1>1. /\ rest \in Seq(View)
        /\ IF \E i \in DOMAIN list : list[i].task = view.task
           THEN Len(rest) = Len(list) - 1 ELSE rest = list
        /\ OnePerTask(rest)
        /\ \A i \in DOMAIN rest :
             rest[i].task # view.task /\ \E j \in DOMAIN list : rest[i] = list[j]
        /\ \A j \in DOMAIN list : list[j].task # view.task => \E i \in DOMAIN rest : rest[i] = list[j]
    BY WithoutFacts
  <1> HIDE DEF rest
  <1>2. Len(rest) \in Nat /\ DOMAIN rest = 1 .. Len(rest) /\ Len(rest) <= Len(list)
    <2>1. rest \in Seq(View)
      BY <1>1
    <2>2. Len(rest) \in Nat /\ DOMAIN rest = 1 .. Len(rest)
      BY <2>1
    <2>3. Len(rest) = Len(list) - 1 \/ Len(rest) = Len(list)
      BY <1>1
    <2>4. Len(rest) <= Len(list)
      <3>1. Len(list) \in Nat
        OBVIOUS
      <3>2. QED
        BY <2>3, <3>1
    <2>5. QED
      BY <2>2, <2>4
  <1>3. /\ new \in Seq(View)
        /\ Len(new) = IF MaxRecent <= Len(rest) + 1 THEN MaxRecent ELSE Len(rest) + 1
        /\ \A i \in 1 .. Len(new) : new[i] = IF i = 1 THEN view ELSE rest[i - 1]
    BY <1>1, PushedFacts
  <1> HIDE DEF new
  <1>4. /\ Len(new) \in Nat /\ 1 <= Len(new) /\ Len(new) <= MaxRecent /\ Len(new) <= Len(rest) + 1
        /\ DOMAIN new = 1 .. Len(new)
    BY <1>0, <1>2, <1>3
  <1>5. new[1] = view /\ 1 \in DOMAIN new
    BY <1>3, <1>4
  <1>6. \A i \in 1 .. Len(new) : i # 1 => i - 1 \in DOMAIN rest /\ new[i] = rest[i - 1]
    BY <1>2, <1>3, <1>4
  <1>7. OnePerTask(new)
    <2> SUFFICES ASSUME NEW i \in 1 .. Len(new), NEW j \in 1 .. Len(new),
                        new[i].task = new[j].task
                 PROVE  i = j
      BY <1>4 DEF OnePerTask
    <2>1. CASE i # 1 /\ j # 1
      <3>1. i - 1 = j - 1
        <4>1. /\ i - 1 \in DOMAIN rest /\ new[i] = rest[i - 1]
              /\ j - 1 \in DOMAIN rest /\ new[j] = rest[j - 1]
          BY <1>6, <2>1
        <4>2. OnePerTask(rest)
          BY <1>1
        <4>3. QED
          BY <4>1, <4>2 DEF OnePerTask
      <3>2. QED
        BY <1>4, <3>1
    <2>2. CASE i = 1 \/ j = 1
      <3>1. ASSUME NEW k \in 1 .. Len(new), k # 1
            PROVE  new[k].task # view.task
        <4>1. k - 1 \in DOMAIN rest /\ new[k] = rest[k - 1]
          BY <1>6, <3>1
        <4>2. QED
          BY <1>1, <4>1
      <3>2. QED
        BY <1>5, <2>2, <3>1
    <2>3. QED
      BY <2>1, <2>2
  <1>8. \A i \in DOMAIN new :
          new[i] = view \/ (new[i].task # view.task /\ \E j \in DOMAIN list : new[i] = list[j])
    <2> SUFFICES ASSUME NEW i \in 1 .. Len(new), i # 1
                 PROVE  new[i].task # view.task /\ \E j \in DOMAIN list : new[i] = list[j]
      BY <1>4, <1>5
    <2>1. i - 1 \in DOMAIN rest /\ new[i] = rest[i - 1]
      BY <1>6
    <2>2. QED
      BY <1>1, <2>1
  <1>9. ASSUME Len(list) < MaxRecent \/ (\E i \in DOMAIN list : list[i].task = view.task),
               NEW j \in DOMAIN list
        PROVE  \E i \in DOMAIN new : new[i].task = list[j].task
    <2>1. Len(rest) + 1 <= MaxRecent
      <3>1. CASE \E i \in DOMAIN list : list[i].task = view.task
        <4>1. Len(rest) = Len(list) - 1
          BY <1>1, <3>1
        <4>2. QED
          BY <1>0, <4>1
      <3>2. CASE Len(list) < MaxRecent
        BY <1>0, <1>2, <3>2
      <3>3. QED
        BY <1>9, <3>1, <3>2
    <2>2. Len(new) = Len(rest) + 1
      BY <1>0, <1>2, <1>3, <2>1
    <2>3. CASE list[j].task = view.task
      BY <1>5, <2>3
    <2>4. CASE list[j].task # view.task
      <3>1. PICK i \in DOMAIN rest : rest[i] = list[j]
        BY <1>1, <2>4
      <3>2. i + 1 \in 1 .. Len(new) /\ i + 1 # 1 /\ (i + 1) - 1 = i
        BY <1>2, <2>2
      <3>3. QED
        BY <1>4, <1>6, <3>1, <3>2
    <2>5. QED
      BY <2>3, <2>4
  <1>10. QED
    BY <1>3, <1>4, <1>5, <1>7, <1>8, <1>9 DEF Upserted, Upsert, new, rest

\* A list that has no entry of a known task is not full, as long as the known tasks
\* fit in it.
LEMMA ListHasRoom ==
  ASSUME NEW list \in Seq(View), OnePerTask(list), NEW S, IsFiniteSet(S),
         \A i \in DOMAIN list : list[i].task \in S,
         Cardinality(S) <= MaxRecent,
         NEW t \in S, \A i \in DOMAIN list : list[i].task # t
  PROVE  Len(list) < MaxRecent
  <1> DEFINE f == [i \in 1 .. Len(list) |-> list[i].task]
  <1>1. Len(list) \in Nat /\ MaxRecent \in Nat
    BY ConsoleAssumption
  <1>2. DOMAIN list = 1 .. Len(list)
    OBVIOUS
  <1>3. /\ IsFiniteSet(S \ {t}) /\ Cardinality(S \ {t}) = Cardinality(S) - 1
        /\ Cardinality(S) \in Nat
    BY FS_RemoveElement, FS_CardinalityType
  <1>4. IsFiniteSet(1 .. Len(list)) /\ Cardinality(1 .. Len(list)) = Len(list)
    <2>1. /\ IsFiniteSet(1 .. Len(list))
          /\ Cardinality(1 .. Len(list)) = IF 1 > Len(list) THEN 0 ELSE Len(list) - 1 + 1
      <3>1. 1 \in Int /\ Len(list) \in Int
        BY <1>1
      <3>2. QED
        BY <3>1, FS_Interval
    <2>2. QED
      BY <1>1, <2>1
  <1>5. f \in [1 .. Len(list) -> S \ {t}]
    BY <1>2
  <1>6. SUFFICES ASSUME ~(Len(list) < MaxRecent)
                 PROVE  FALSE
    OBVIOUS
  <1>7. Cardinality(S \ {t}) < Cardinality(1 .. Len(list))
    BY <1>1, <1>3, <1>4, <1>6
  <1>8. \E i, j \in 1 .. Len(list) : i # j /\ f[i] = f[j]
    <2> HIDE DEF f
    <2>1. QED
      BY <1>3, <1>4, <1>5, <1>7, FS_PigeonHole
  <1>9. QED
    BY <1>2, <1>8 DEF OnePerTask
-----------------------------------------------------------------------------
CallKinds == {"get", "create", "resume"}

\* Calls and answers are about tasks that exist, and well typed.
CallsKnown ==
  /\ IsDict(calls, Nat, Call)
  /\ \A c \in DOMAIN calls :
       /\ calls[c].kind # "create" => calls[c].task \in Known
       /\ calls[c].kind = "resume" => calls[c].key \in Key
AnswersKnown ==
  answers \in Seq(Reply) /\ \A i \in DOMAIN answers : answers[i].task \in Known

\* What TypeOK and PageKnown say of a call.
LEMMA CallFacts ==
  ASSUME TypeOK, PageKnown
  PROVE  /\ CallsKnown /\ AnswersKnown
         /\ \A c \in DOMAIN calls :
              /\ c \in Nat /\ calls[c] \in Call /\ calls[c].kind \in CallKinds
              /\ calls[c].awaited \in BOOLEAN
              /\ calls[c].kind # "create" => calls[c].task \in Tasks
  BY DEF TypeOK, PageKnown, IsDict, Call, CallKinds, CallsKnown, AnswersKnown, Known

\* A new call about a known task.
LEMMA SendKnown ==
  ASSUME TypeOK, PageKnown, UNCHANGED status,
         NEW kind \in CallKinds, NEW t \in Tasks \cup {NoTask}, NEW k \in Key \cup {NoKey},
         kind # "create" => t \in Known, kind = "resume" => k \in Key,
         Send(kind, t, k)
  PROVE  CallsKnown' /\ sent' \in Nat
  <1> DEFINE call == [kind |-> kind, task |-> t, key |-> k,
                      awaited |-> TRUE, approved |-> FALSE]
  <1>1. call \in Call /\ sent + 1 \in Nat
    BY DEF Call, CallKinds, TypeOK
  <1>2. calls' = Put(calls, sent + 1, call) /\ sent' = sent + 1
    BY DEF Send
  <1>3. IsDict(calls', Nat, Call)
    BY <1>1, <1>2, PutDict DEF TypeOK
  <1>4. Known' = Known
    BY DEF Known
  <1>5. \A c \in DOMAIN calls' : calls'[c] = call \/ (c \in DOMAIN calls /\ calls'[c] = calls[c])
    BY <1>2 DEF Put
  <1>6. call.kind = kind /\ call.task = t /\ call.key = k
    OBVIOUS
  <1> HIDE DEF call
  <1>7. QED
    BY <1>1, <1>2, <1>3, <1>4, <1>5, <1>6 DEF CallsKnown, PageKnown

\* The effect on the selected task.
LEMMA SelectedKnown ==
  ASSUME TypeOK, PageKnown, UNCHANGED status, NEW t \in Known, SetSelected(t)
  PROVE  CallsKnown' /\ sent' \in Nat /\ selected' \in Tasks /\ fetching' \in BOOLEAN
  <1>1. t \in Tasks
    BY DEF Known
  <1>2. CASE Send("get", t, NoKey) /\ fetching' = TRUE
    BY <1>1, <1>2, SendKnown DEF CallKinds, SetSelected
  <1>3. CASE UNCHANGED <<calls, sent, fetching>>
    <2>1. CallsKnown'
      BY <1>3, CallFacts DEF CallsKnown, Known
    <2>2. QED
      BY <1>1, <1>3, <2>1 DEF SetSelected, TypeOK
  <1>4. QED
    BY <1>2, <1>3 DEF SetSelected

\* A served call is gone and answered.
LEMMA AnswerKnown ==
  ASSUME TypeOK, PageKnown, Known \subseteq Known',
         NEW c \in DOMAIN calls, NEW t \in Tasks, t \in Known',
         NEW st \in Status \cup {"error"}, AnswerCall(c, t, st)
  PROVE  CallsKnown' /\ AnswersKnown'
  <1> DEFINE reply == [call |-> c, kind |-> calls[c].kind, task |-> t, status |-> st]
  <1>1. reply \in Reply
    BY CallFacts DEF Reply, CallKinds
  <1>2. calls' = Drop(calls, c) /\ (answers' = Append(answers, reply) \/ answers' = answers)
    BY DEF AnswerCall
  <1>3. CallsKnown'
    <2>1. IsDict(calls', Nat, Call)
      BY <1>2, DropDict DEF TypeOK
    <2>2. \A e \in DOMAIN calls' : e \in DOMAIN calls /\ calls'[e] = calls[e]
      BY <1>2 DEF Drop
    <2>3. QED
      BY <2>1, <2>2 DEF CallsKnown, PageKnown
  <1>4. AnswersKnown'
    <2> HIDE DEF reply
    <2>1. answers \in Seq(Reply) /\ \A i \in DOMAIN answers : answers[i].task \in Known
      BY CallFacts DEF AnswersKnown
    <2>2. CASE answers' = Append(answers, reply)
      <3>1. /\ answers' \in Seq(Reply)
            /\ \A i \in DOMAIN answers' :
                 answers'[i] = reply \/ (i \in DOMAIN answers /\ answers'[i] = answers[i])
        BY <1>1, <2>1, <2>2
      <3>2. reply.task = t
        BY DEF reply
      <3>3. QED
        BY <2>1, <3>1, <3>2 DEF AnswersKnown
    <2>3. CASE answers' = answers
      BY <2>1, <2>3 DEF AnswersKnown
    <2>4. QED
      BY <1>2, <2>2, <2>3
  <1>5. QED
    BY <1>3, <1>4

\* What the page keeps stays well typed and known, if what is not kept is.
LEMMA PageStays ==
  ASSUME TypeOK, PageKnown, Known \subseteq Known', IsFiniteSet(Known'),
         UNCHANGED <<shown, key, recents>>,
         CallsKnown', AnswersKnown', status' \in [Tasks -> Status], IsDict(usedBy', Key, Tasks),
         selected' \in Tasks \cup {NoTask}, fetching' \in BOOLEAN,
         sent' \in Nat, faults' \in Nat, overtaken' \in BOOLEAN
  PROVE  TypeOK' /\ PageKnown'
  BY DEF TypeOK, PageKnown, CallsKnown, AnswersKnown, OnePerTask

\* A step keeps the number of faults or counts one; what was overtaken stays so.
LEMMA FaultsStep ==
  ASSUME TypeOK, [Next]_vars
  PROVE  faults' \in Nat /\ (faults' = 0 => faults = 0) /\ overtaken' \in BOOLEAN
  <1>1. faults \in Nat /\ (faults' = faults \/ faults' = faults + 1)
    BY DEF TypeOK, Next, vars, Select, Refresh, Create, Resume, Reload, Serve, GiveUp,
           Deliver, Fault
  <1>2. overtaken' \in BOOLEAN
    BY DEF TypeOK, Next, vars, Select, Refresh, Create, Resume, Reload, Serve, GiveUp,
           Deliver
  <1>3. QED
    BY <1>1, <1>2

\* The operator's steps keep all well typed and known.
LEMMA OperatorKnown ==
  ASSUME TypeOK, PageKnown, [Next]_vars,
         (\E t \in Tasks : Select(t)) \/ Refresh \/ Create \/ Resume
  PROVE  TypeOK' /\ PageKnown'
  <1>0. /\ faults' \in Nat /\ overtaken' \in BOOLEAN /\ CallsKnown /\ AnswersKnown
        /\ UNCHANGED <<status, usedBy, answers, shown, key, recents>>
    BY FaultsStep, CallFacts DEF Select, Refresh, Create, Resume, server, page
  <1>1. Known' = Known /\ AnswersKnown' /\ IsFiniteSet(Known')
    BY <1>0 DEF Known, AnswersKnown, PageKnown
  <1>2. ASSUME CallsKnown', sent' \in Nat, selected' \in Tasks \cup {NoTask}, fetching' \in BOOLEAN
        PROVE  TypeOK' /\ PageKnown'
    <2>1. status' \in [Tasks -> Status] /\ IsDict(usedBy', Key, Tasks)
      BY <1>0 DEF TypeOK
    <2>2. QED
      BY <1>0, <1>1, <1>2, <2>1, PageStays
  <1>3. ASSUME NEW t \in Tasks, Select(t)
        PROVE  TypeOK' /\ PageKnown'
    <2>1. t \in Known
      BY <1>3 DEF Select, Known, PageKnown
    <2>2. QED
      BY <1>0, <1>2, <1>3, <2>1, SelectedKnown DEF Select
  <1>4. CASE Refresh
    <2>1. shown.task \in Known
      BY <1>4 DEF Refresh, PageKnown
    <2>2. QED
      BY <1>0, <1>2, <1>4, <2>1, SelectedKnown DEF Refresh
  <1>5. CASE Create
    <2>1. Send("create", NoTask, NoKey)
      BY <1>5 DEF Create
    <2>2. CallsKnown' /\ sent' \in Nat
      BY <1>0, <2>1, SendKnown DEF CallKinds
    <2>3. QED
      BY <1>2, <1>5, <2>2 DEF Create, page, TypeOK
  <1>6. CASE Resume
    <2>1. Send("resume", shown.task, key)
      BY <1>6 DEF Resume
    <2>2. shown # NoView
      BY <1>6 DEF Resume, NoView
    <2>3. shown.task \in Known /\ shown.task \in Tasks /\ key \in Key
      BY <2>2 DEF PageKnown, Known
    <2>4. CallsKnown' /\ sent' \in Nat
      BY <1>0, <2>1, <2>3, SendKnown DEF CallKinds
    <2>5. QED
      BY <1>2, <1>6, <2>4 DEF Resume, page, TypeOK
  <1>7. QED
    BY <1>3, <1>4, <1>5, <1>6

\* The steps of the services and of the network keep all well typed and known.
LEMMA ServicesKnown ==
  ASSUME TypeOK, PageKnown, [Next]_vars, Serve \/ \E c \in DOMAIN calls : GiveUp(c)
  PROVE  TypeOK' /\ PageKnown'
  <1>0. /\ faults' \in Nat /\ overtaken' \in BOOLEAN
        /\ UNCHANGED <<shown, selected, key, recents, sent>>
    BY FaultsStep DEF Serve, GiveUp, page
  <1>1. CallsKnown /\ AnswersKnown
    BY CallFacts
  <1>2. ASSUME Known \subseteq Known', IsFiniteSet(Known'), CallsKnown', AnswersKnown',
               status' \in [Tasks -> Status], IsDict(usedBy', Key, Tasks),
               fetching' \in BOOLEAN
        PROVE  TypeOK' /\ PageKnown'
    <2>1. selected' \in Tasks \cup {NoTask} /\ sent' \in Nat
      BY <1>0 DEF TypeOK
    <2>2. QED
      BY <1>0, <1>2, <2>1, PageStays
  <1>3. ASSUME NEW c \in DOMAIN calls, NEW t \in Tasks, NEW st \in Status \cup {"error"},
               AnswerCall(c, t, st), status' \in [Tasks -> Status], IsDict(usedBy', Key, Tasks),
               Known' = Known \cup {t}, UNCHANGED fetching
        PROVE  TypeOK' /\ PageKnown'
    <2>1. IsFiniteSet(Known')
      BY <1>3, FS_AddElement DEF PageKnown
    <2>2. CallsKnown' /\ AnswersKnown'
      BY <1>3, AnswerKnown
    <2>3. QED
      BY <1>2, <1>3, <2>1, <2>2 DEF TypeOK
  <1>4. ASSUME NEW c \in DOMAIN calls, ServeGet(c), UNCHANGED fetching
        PROVE  TypeOK' /\ PageKnown'
    <2>1. UNCHANGED <<status, usedBy>>
      BY <1>4 DEF ServeGet, server
    <2>2. calls[c].task \in Tasks /\ calls[c].task \in Known
      BY <1>1, <1>4, CallFacts DEF ServeGet, CallsKnown
    <2>3. Known' = Known \cup {calls[c].task}
      BY <2>1, <2>2 DEF Known
    <2>4. status[calls[c].task] \in Status
      BY <2>2 DEF TypeOK
    <2>5. QED
      BY <1>3, <1>4, <2>1, <2>2, <2>3, <2>4 DEF ServeGet, TypeOK
  <1>5. ASSUME NEW c \in DOMAIN calls, NEW t \in Tasks, NEW st \in {"awaiting_approval", "exception"},
               ServeCreate(c, t, st), UNCHANGED fetching
        PROVE  TypeOK' /\ PageKnown'
    <2>1. status' = [status EXCEPT ![t] = st] /\ UNCHANGED usedBy /\ AnswerCall(c, t, st)
      BY <1>5 DEF ServeCreate
    <2>2. status' \in [Tasks -> Status] /\ st \in Status
      BY <2>1 DEF TypeOK, Status
    <2>3. Known' = Known \cup {t}
      BY <2>1 DEF Known, TypeOK
    <2>4. QED
      BY <1>3, <1>5, <2>1, <2>2, <2>3 DEF TypeOK
  <1>6. ASSUME NEW c \in DOMAIN calls, RefuseResume(c), UNCHANGED fetching
        PROVE  TypeOK' /\ PageKnown'
    <2>1. UNCHANGED <<status, usedBy>>
      BY <1>6 DEF RefuseResume, server
    <2>2. calls[c].task \in Tasks /\ calls[c].task \in Known
      BY <1>1, <1>6, CallFacts DEF RefuseResume, CallsKnown
    <2>3. Known' = Known \cup {calls[c].task}
      BY <2>1, <2>2 DEF Known
    <2>4. QED
      BY <1>3, <1>6, <2>1, <2>2, <2>3 DEF RefuseResume, TypeOK
  <1>7. ASSUME NEW c \in DOMAIN calls, Approve(c), UNCHANGED fetching
        PROVE  TypeOK' /\ PageKnown'
    <2>1. /\ status' = [status EXCEPT ![calls[c].task] = "approved"]
          /\ calls' = [calls EXCEPT ![c].approved = TRUE]
          /\ UNCHANGED <<usedBy, answers>>
      BY <1>7 DEF Approve
    <2>2. calls[c].task \in Tasks /\ calls[c].task \in Known
      BY <1>1, <1>7, CallFacts DEF Approve, CallsKnown
    <2>3. status' \in [Tasks -> Status] /\ Known' = Known
      BY <2>1, <2>2 DEF TypeOK, Status, Known
    <2>4. CallsKnown'
      <3>1. calls[c] \in Call
        BY CallFacts
      <3>2. [calls[c] EXCEPT !.approved = TRUE] \in Call
        BY <3>1 DEF Call
      <3>3. IsDict(calls', Nat, Call)
        BY <1>1, <2>1, <3>2 DEF CallsKnown, IsDict
      <3>4. \A e \in DOMAIN calls : /\ calls'[e].kind = calls[e].kind
                                    /\ calls'[e].task = calls[e].task
                                    /\ calls'[e].key = calls[e].key
        BY <2>1, <3>1 DEF Call
      <3>5. DOMAIN calls' = DOMAIN calls
        BY <2>1
      <3>6. QED
        BY <1>1, <2>3, <3>3, <3>4, <3>5 DEF CallsKnown
    <2>5. QED
      BY <1>1, <1>2, <1>7, <2>1, <2>3, <2>4 DEF TypeOK, PageKnown, AnswersKnown
  <1>8. ASSUME NEW c \in DOMAIN calls, Release(c), UNCHANGED fetching
        PROVE  TypeOK' /\ PageKnown'
    <2>1. calls[c].task \in Tasks /\ calls[c].task \in Known /\ calls[c].key \in Key
      BY <1>1, <1>8, CallFacts DEF Release, CallsKnown
    <2>2. CASE AnswerCall(c, calls[c].task, "error") /\ UNCHANGED server
      <3>1. UNCHANGED <<status, usedBy>>
        BY <2>2 DEF server
      <3>2. Known' = Known \cup {calls[c].task}
        BY <2>1, <3>1 DEF Known
      <3>3. QED
        BY <1>3, <1>8, <2>1, <2>2, <3>1, <3>2 DEF TypeOK
    <2>3. CASE /\ usedBy' = Put(usedBy, calls[c].key, calls[c].task)
               /\ status' = [status EXCEPT ![calls[c].task] = "settlement_pending"]
               /\ AnswerCall(c, calls[c].task, "settlement_pending")
      <3>1. IsDict(usedBy', Key, Tasks)
        BY <2>1, <2>3, PutDict DEF TypeOK
      <3>2. status' \in [Tasks -> Status] /\ Known' = Known \cup {calls[c].task}
        BY <2>1, <2>3 DEF TypeOK, Status, Known
      <3>3. QED
        BY <1>3, <1>8, <2>1, <2>3, <3>1, <3>2 DEF Status
    <2>4. QED
      BY <1>8, <2>2, <2>3 DEF Release
  <1>9. ASSUME NEW c \in DOMAIN calls, GiveUp(c)
        PROVE  TypeOK' /\ PageKnown'
    <2>1. /\ calls' = [calls EXCEPT ![c].awaited = FALSE]
          /\ fetching' = (fetching /\ calls[c].kind # "get")
          /\ UNCHANGED <<status, usedBy, answers>>
      BY <1>9 DEF GiveUp, server
    <2>2. Known' = Known
      BY <2>1 DEF Known
    <2>3. CallsKnown'
      BY <1>1, <2>1, <2>2, CallFacts DEF CallsKnown, IsDict, Call
    <2>4. QED
      BY <1>1, <1>2, <2>1, <2>2, <2>3 DEF TypeOK, PageKnown, AnswersKnown
  <1>10. CASE Serve
    <2>1. UNCHANGED fetching
      BY <1>10 DEF Serve, page
    <2>2. QED
      BY <1>4, <1>5, <1>6, <1>7, <1>8, <1>10, <2>1 DEF Serve
  <1>11. QED
    BY <1>9, <1>10

\* After a reload nothing is on display and no answer is on its way.
LEMMA ReloadKnown ==
  ASSUME TypeOK, PageKnown, [Next]_vars, Reload
  PROVE  TypeOK' /\ PageKnown'
  <1>1. /\ shown' = NoView /\ selected' = NoTask /\ key' = NoKey /\ fetching' = FALSE
        /\ answers' = <<>> /\ UNCHANGED <<status, usedBy, recents, sent>>
        /\ calls' = [c \in DOMAIN calls |-> [calls[c] EXCEPT !.awaited = FALSE]]
        /\ faults' \in Nat /\ overtaken' \in BOOLEAN
    BY FaultsStep DEF Reload, server
  <1>2. Known' = Known
    BY <1>1 DEF Known
  <1>3. CallsKnown'
    BY <1>1, <1>2, CallFacts DEF CallsKnown, IsDict, Call
  <1>4. AnswersKnown'
    BY <1>1 DEF AnswersKnown
  <1>5. QED
    BY <1>1, <1>2, <1>3, <1>4
    DEF TypeOK, PageKnown, CallsKnown, AnswersKnown, OnePerTask

\* What an answer that is delivered says, and what is left.
LEMMA DeliverFacts ==
  ASSUME TypeOK, PageKnown, NEW n \in DOMAIN answers, Deliver(n)
  PROVE  /\ answers[n] \in Reply /\ answers[n].task \in Tasks /\ answers[n].task \in Known
         /\ answers[n].call \in Nat
         /\ answers[n].status # "error" => answers[n].status \in Status
         /\ n \in Nat /\ DOMAIN answers = 1 .. Len(answers) /\ Len(answers) \in Nat
         /\ answers' \in Seq(Reply) /\ DOMAIN answers' = 1 .. (Len(answers) - 1)
         /\ \A i \in 1 .. (Len(answers) - 1) :
              answers'[i] = answers[IF i < n THEN i ELSE i + 1]
         /\ Known' = Known
  <1>1. answers \in Seq(Reply)
    BY DEF TypeOK
  <1>2. n \in 1 .. Len(answers) /\ DOMAIN answers = 1 .. Len(answers) /\ Len(answers) \in Nat
    BY <1>1
  <1>3. answers[n] \in Reply
    BY <1>1
  <1>4. answers' = RemoveAt(answers, n) /\ UNCHANGED status
    BY DEF Deliver, server
  <1>5. /\ answers' \in Seq(Reply) /\ Len(answers') = Len(answers) - 1
        /\ \A i \in 1 .. (Len(answers) - 1) :
             answers'[i] = answers[IF i < n THEN i ELSE i + 1]
    BY <1>1, <1>2, <1>4, RemoveFacts
  <1>6. DOMAIN answers' = 1 .. (Len(answers) - 1)
    BY <1>5
  <1>7. /\ answers[n].task \in Tasks /\ answers[n].call \in Nat
        /\ answers[n].status # "error" => answers[n].status \in Status
    BY <1>3 DEF Reply
  <1>8. answers[n].task \in Known
    BY DEF PageKnown
  <1>9. QED
    BY <1>2, <1>3, <1>4, <1>5, <1>6, <1>7, <1>8 DEF Known

\* An answer applied to the page: the view, the list and the key it leaves.
LEMMA ApplyFacts ==
  ASSUME TypeOK, PageKnown, NEW n \in DOMAIN answers, Deliver(n),
         NEW reply, reply = answers[n], Apply(reply), reply.status # "error"
  PROVE  /\ shown' = [task |-> reply.task, status |-> reply.status]
         /\ shown' \in View /\ shown'.task = reply.task /\ shown'.status = reply.status
         /\ recents' = Upsert(recents, shown')
         /\ recents \in Seq(View) /\ OnePerTask(recents) /\ Len(recents) <= MaxRecent
         /\ key' \in Key
         /\ key' = FreshKey(reply) \/ (key' = key /\ reply.kind = "get")
         /\ FreshKey(reply).number = reply.call
  <1>1. /\ reply.task \in Tasks /\ reply.status \in Status /\ reply.call \in Nat
    BY DeliverFacts
  <1>2. /\ shown' = [task |-> reply.task, status |-> reply.status]
        /\ recents' = Upsert(recents, [task |-> reply.task, status |-> reply.status])
        /\ key' = NextKey(reply)
    BY DEF Apply
  <1>3. FreshKey(reply) \in Key /\ FreshKey(reply).number = reply.call
    BY <1>1 DEF FreshKey, Key
  <1>4. key # NoKey => key \in Key
    BY DEF TypeOK
  <1>5. key' = FreshKey(reply) \/ (key' = key /\ reply.kind = "get" /\ key # NoKey)
    BY <1>2 DEF NextKey, KeptKey
  <1>6. QED
    BY <1>1, <1>2, <1>3, <1>4, <1>5 DEF View, TypeOK, PageKnown

\* An answer that reaches the page keeps all well typed and known.
LEMMA DeliverKnown ==
  ASSUME TypeOK, PageKnown, [Next]_vars, NEW n \in DOMAIN answers, Deliver(n)
  PROVE  TypeOK' /\ PageKnown'
  <1> SUFFICES ASSUME NEW reply, reply = answers[n]
               PROVE  TypeOK' /\ PageKnown'
    OBVIOUS
  <1>1. /\ faults' \in Nat /\ overtaken' \in BOOLEAN /\ UNCHANGED <<status, usedBy>>
        /\ reply.task \in Known /\ reply.task \in Tasks /\ Known' = Known
        /\ DOMAIN answers = 1 .. Len(answers) /\ Len(answers) \in Nat
        /\ answers' \in Seq(Reply) /\ DOMAIN answers' = 1 .. (Len(answers) - 1)
        /\ \A i \in 1 .. (Len(answers) - 1) :
             answers'[i] = answers[IF i < n THEN i ELSE i + 1]
        /\ n \in Nat
    BY FaultsStep, DeliverFacts DEF Deliver, server
  <1>2. AnswersKnown'
    <2>1. \A i \in 1 .. (Len(answers) - 1) : (IF i < n THEN i ELSE i + 1) \in 1 .. Len(answers)
      BY <1>1
    <2>2. \A i \in 1 .. Len(answers) : answers[i].task \in Known
      BY <1>1 DEF PageKnown
    <2>3. QED
      BY <1>1, <2>1, <2>2 DEF AnswersKnown
  <1>3. CASE UNCHANGED <<calls, page, recents, sent>>
    <2>1. CallsKnown'
      BY <1>1, <1>3, CallFacts DEF CallsKnown
    <2>2. QED
      BY <1>1, <1>2, <1>3, <2>1 DEF TypeOK, PageKnown, page, AnswersKnown, OnePerTask
  <1>4. CASE reply.status # "error" /\ Apply(reply)
    <2>1. /\ CallsKnown' /\ sent' \in Nat /\ selected' \in Tasks \cup {NoTask}
          /\ fetching' \in BOOLEAN
      <3>1. CASE SetSelected(reply.task)
        BY <1>1, <3>1, SelectedKnown
      <3>2. CASE /\ fetching' = (fetching /\ reply.kind # "get")
                 /\ UNCHANGED <<calls, selected, sent>>
        BY <1>1, <3>2, CallFacts DEF CallsKnown, TypeOK
      <3>3. QED
        BY <1>4, <3>1, <3>2 DEF Apply
    <2>2. /\ shown' \in View /\ shown'.task = reply.task
          /\ recents' = Upsert(recents, shown')
          /\ recents \in Seq(View) /\ OnePerTask(recents) /\ Len(recents) <= MaxRecent
          /\ key' \in Key
      BY <1>4, ApplyFacts
    <2>3. /\ recents' \in Seq(View) /\ Len(recents') <= MaxRecent /\ OnePerTask(recents')
          /\ \A i \in DOMAIN recents' :
               \/ recents'[i] = shown'
               \/ \E j \in DOMAIN recents : recents'[i] = recents[j]
      <3>1. Upserted(recents, shown', recents')
        BY <2>2, UpsertFacts
      <3>2. QED
        BY <3>1 DEF Upserted
    <2>4. \A i \in DOMAIN recents' : recents'[i].task \in Known
      BY <1>1, <2>2, <2>3 DEF PageKnown
    <2>5. TypeOK'
      BY <1>1, <2>1, <2>2, <2>3 DEF TypeOK, CallsKnown
    <2>6. PageKnown'
      BY <1>1, <1>2, <2>1, <2>2, <2>3, <2>4 DEF PageKnown, CallsKnown, AnswersKnown
    <2>7. QED
      BY <2>5, <2>6
  <1>5. QED
    BY <1>3, <1>4 DEF Deliver

\* Whatever faults there are, every step keeps all well typed and known.
LEMMA KnownStep ==
  ASSUME TypeOK, PageKnown, [Next]_vars
  PROVE  TypeOK' /\ PageKnown'
  <1>1. CASE UNCHANGED vars
    BY <1>1 DEF vars, server, page, TypeOK, PageKnown, Known, OnePerTask
  <1>2. CASE Next
    BY <1>2, OperatorKnown, ServicesKnown, ReloadKnown, DeliverKnown DEF Next
  <1>3. QED
    BY <1>1, <1>2
-----------------------------------------------------------------------------
\* The calls of before are still out, and those that are new, if any, are one call that
\* is not a resume.
Sent ==
  /\ sent \in Nat /\ sent' \in Nat /\ sent <= sent'
  /\ \A c \in DOMAIN calls : c \in DOMAIN calls' /\ calls'[c] = calls[c]
  /\ \A c \in DOMAIN calls' \ DOMAIN calls :
       /\ c = sent + 1 /\ sent' = sent + 1
       /\ calls'[c].kind # "resume" /\ calls'[c].awaited /\ ~calls'[c].approved
       /\ calls'[c].key = NoKey

\* A call made has the number after the last one, and changes no other call.
LEMMA SendSends ==
  ASSUME TypeOK, NEW kind \in CallKinds, NEW t, NEW k, Send(kind, t, k), CallsAwaited
  PROVE  /\ sent \in Nat /\ sent' = sent + 1
         /\ sent + 1 \notin DOMAIN calls
         /\ DOMAIN calls' = DOMAIN calls \cup {sent + 1}
         /\ \A c \in DOMAIN calls : calls'[c] = calls[c]
         /\ calls'[sent + 1] = [kind |-> kind, task |-> t, key |-> k,
                                awaited |-> TRUE, approved |-> FALSE]
  <1>1. sent \in Nat /\ sent + 1 \notin DOMAIN calls
    BY DEF TypeOK, CallsAwaited
  <1>2. QED
    BY <1>1 DEF Send, Put

\* The effect on the selected task makes a call that looks it up, or none.
LEMMA SelectedSends ==
  ASSUME TypeOK, CallsAwaited, NEW t, SetSelected(t)
  PROVE  Sent
  <1>1. CASE Send("get", t, NoKey)
    <2>1. /\ sent \in Nat /\ sent' = sent + 1
          /\ DOMAIN calls' = DOMAIN calls \cup {sent + 1}
          /\ \A c \in DOMAIN calls : calls'[c] = calls[c]
          /\ calls'[sent + 1] = [kind |-> "get", task |-> t, key |-> NoKey,
                                 awaited |-> TRUE, approved |-> FALSE]
      BY <1>1, SendSends DEF CallKinds
    <2>2. QED
      BY <2>1 DEF Sent
  <1>2. CASE UNCHANGED <<calls, sent>>
    BY <1>2 DEF Sent, TypeOK
  <1>3. QED
    BY <1>1, <1>2 DEF SetSelected

\* What is up to date stays so when nothing but calls are added.
LEMMA SentUpToDate ==
  ASSUME TypeOK, PageUpToDate, UNCHANGED <<status, answers, shown, recents, overtaken>>,
         \A c \in DOMAIN calls : c \in DOMAIN calls' /\ calls'[c] = calls[c]
  PROVE  PageUpToDate'
  <1>1. ASSUME NEW t, NEW st, NEW n, UpToDate(t, st, n)
        PROVE  UpToDate(t, st, n)'
    BY <1>1 DEF UpToDate, News
  <1>2. overtaken \/ (ViewsUpToDate' /\ AnswersUpToDate')
    BY <1>1 DEF PageUpToDate, ViewsUpToDate, AnswersUpToDate, ToSet
  <1>3. ApprovalsAtWork' /\ AllListed'
    BY DEF PageUpToDate, ApprovalsAtWork, AllListed, Known, News
  <1>4. QED
    BY <1>2, <1>3 DEF PageUpToDate

\* A call that is not a resume leaves the keys as they are.
LEMMA SentUnused ==
  ASSUME TypeOK, KeysUnused, UNCHANGED <<usedBy, answers, key>>, Sent
  PROVE  KeysUnused'
  <1>1. /\ CallsAwaited /\ AnsweredOnce /\ OneResume /\ KeysDrawn /\ KeyTold
        /\ sent + 1 \notin 1 .. sent /\ 1 .. sent \subseteq 1 .. sent'
        /\ sent + 1 \in 1 .. (sent + 1)
    BY DEF KeysUnused, Sent
  <1>2. CallsAwaited'
    <2>1. ASSUME NEW c \in DOMAIN calls'
          PROVE  /\ c \in 1 .. sent' /\ calls'[c].awaited
                 /\ \A i \in DOMAIN answers : answers[i].call # c
      <3>1. CASE c \in DOMAIN calls
        BY <1>1, <3>1 DEF CallsAwaited, Sent
      <3>2. CASE c \notin DOMAIN calls
        BY <1>1, <2>1, <3>2 DEF AnsweredOnce, Sent
      <3>3. QED
        BY <3>1, <3>2
    <2>2. QED
      BY <2>1 DEF CallsAwaited
  <1>3. AnsweredOnce'
    BY <1>1 DEF AnsweredOnce
  <1>4. OneResume'
    <2>1. \A c \in DOMAIN calls' :
            calls'[c].kind = "resume" \/ calls'[c].approved =>
              c \in DOMAIN calls /\ calls'[c] = calls[c]
      BY DEF Sent
    <2>2. QED
      BY <1>1, <2>1 DEF OneResume
  <1>5. KeysDrawn'
    <2>1. \A k \in DOMAIN usedBy' \cup {key'} \cup {calls'[c].key : c \in DOMAIN calls'} :
            \/ k \in DOMAIN usedBy \cup {key} \cup {calls[c].key : c \in DOMAIN calls}
            \/ k = NoKey
      BY DEF Sent
    <2>2. ASSUME NEW k, k \in DOMAIN usedBy \cup {key} \cup {calls[c].key : c \in DOMAIN calls}
          PROVE  /\ k.number <= sent' /\ \A c \in DOMAIN calls' : k.number # c
                 /\ \A i \in DOMAIN answers : k.number # answers[i].call
      <3>1. /\ k.number <= sent /\ \A c \in DOMAIN calls : k.number # c
            /\ \A i \in DOMAIN answers : k.number # answers[i].call
        BY <1>1, <2>2 DEF KeysDrawn
      <3>2. k \in Key \cup {NoKey}
        BY <2>2 DEF TypeOK, IsDict, Call
      <3>3. k.number \in Nat
        BY <3>2 DEF Key, NoKey
      <3>4. k.number <= sent' /\ k.number # sent + 1
        BY <3>1, <3>3 DEF Sent
      <3>5. QED
        BY <3>1, <3>4 DEF Sent
    <2>3. /\ NoKey.number <= sent' /\ \A c \in DOMAIN calls' : NoKey.number # c
          /\ \A i \in DOMAIN answers : NoKey.number # answers[i].call
      <3>1. NoKey.number = 0
        BY DEF NoKey
      <3>2. QED
        BY <1>1, <1>2, <3>1 DEF CallsAwaited, AnsweredOnce, Sent
    <2>4. QED
      BY <2>1, <2>2, <2>3 DEF KeysDrawn
  <1>6. KeyTold'
    BY <1>1 DEF KeyTold
  <1>7. QED
    BY <1>2, <1>3, <1>4, <1>5, <1>6 DEF KeysUnused

\* A resume is sent with the key of the page, when no other one is awaited or answered.
LEMMA ResumeUnused ==
  ASSUME TypeOK, PageKnown, KeysUnused, Resume
  PROVE  KeysUnused'
  <1>1. /\ CallsAwaited /\ AnsweredOnce /\ OneResume /\ KeysDrawn /\ KeyTold
        /\ UNCHANGED <<usedBy, answers, key>>
    BY DEF KeysUnused, Resume, page, server
  <1>2. /\ sent \in Nat /\ sent' = sent + 1
        /\ sent + 1 \notin DOMAIN calls
        /\ DOMAIN calls' = DOMAIN calls \cup {sent + 1}
        /\ \A c \in DOMAIN calls : calls'[c] = calls[c]
        /\ calls'[sent + 1] = [kind |-> "resume", task |-> shown.task, key |-> key,
                               awaited |-> TRUE, approved |-> FALSE]
    BY <1>1, SendSends DEF Resume, CallKinds
  <1>3. /\ \A c \in DOMAIN calls : calls[c].kind # "resume"
        /\ \A i \in DOMAIN answers : answers[i].kind # "resume"
    BY <1>1 DEF Resume, Awaits, CallsAwaited
  <1>4. /\ sent + 1 \notin 1 .. sent /\ 1 .. sent \subseteq 1 .. sent'
        /\ sent + 1 \in 1 .. sent'
    BY <1>2
  <1>5. CallsAwaited'
    <2>1. ASSUME NEW c \in DOMAIN calls'
          PROVE  /\ c \in 1 .. sent' /\ calls'[c].awaited
                 /\ \A i \in DOMAIN answers : answers[i].call # c
      <3>1. CASE c \in DOMAIN calls
        BY <1>1, <1>2, <1>4, <3>1 DEF CallsAwaited
      <3>2. CASE c = sent + 1
        BY <1>1, <1>2, <1>4, <3>2 DEF AnsweredOnce
      <3>3. QED
        BY <1>2, <3>1, <3>2
    <2>2. QED
      BY <1>1, <2>1 DEF CallsAwaited
  <1>6. AnsweredOnce'
    BY <1>1, <1>4 DEF AnsweredOnce
  <1>7. OneResume'
    <2>1. key \notin DOMAIN usedBy
      BY <1>1, <1>3 DEF KeyTold
    <2>2. QED
      BY <1>1, <1>2, <1>3, <2>1 DEF OneResume
  <1>8. KeysDrawn'
    <2>1. {calls'[c].key : c \in DOMAIN calls'} = {calls[c].key : c \in DOMAIN calls} \cup {key}
      BY <1>2
    <2>2. ASSUME NEW k, k \in DOMAIN usedBy \cup {key} \cup {calls[c].key : c \in DOMAIN calls}
          PROVE  /\ k.number <= sent' /\ \A c \in DOMAIN calls' : k.number # c
                 /\ \A i \in DOMAIN answers : k.number # answers[i].call
      <3>1. /\ k.number <= sent /\ \A c \in DOMAIN calls : k.number # c
            /\ \A i \in DOMAIN answers : k.number # answers[i].call
        BY <1>1, <2>2 DEF KeysDrawn
      <3>2. k \in Key \cup {NoKey}
        BY <2>2 DEF TypeOK, IsDict, Call
      <3>3. k.number \in Nat
        BY <3>2 DEF Key, NoKey
      <3>4. k.number <= sent' /\ k.number # sent + 1
        BY <1>2, <3>1, <3>3
      <3>5. QED
        BY <1>2, <3>1, <3>4
    <2>3. QED
      BY <1>1, <2>1, <2>2 DEF KeysDrawn
  <1>9. KeyTold'
    BY <1>1 DEF KeyTold
  <1>10. QED
    BY <1>5, <1>6, <1>7, <1>8, <1>9 DEF KeysUnused

\* The operator's steps.
LEMMA OperatorQuiet ==
  ASSUME TypeOK, PageKnown, PageUpToDate, KeysUnused,
         (\E t \in Tasks : Select(t)) \/ Refresh \/ Create \/ Resume
  PROVE  PageUpToDate' /\ KeysUnused'
  <1>0. /\ UNCHANGED <<status, usedBy, answers, shown, key, recents, overtaken>>
        /\ CallsAwaited
    BY DEF Select, Refresh, Create, Resume, server, page, KeysUnused
  <1>1. CASE Sent
    <2>1. \A c \in DOMAIN calls : c \in DOMAIN calls' /\ calls'[c] = calls[c]
      BY <1>1 DEF Sent
    <2>2. QED
      BY <1>0, <1>1, <2>1, SentUpToDate, SentUnused
  <1>2. ASSUME NEW t, SetSelected(t)
        PROVE  Sent
    BY <1>0, <1>2, SelectedSends
  <1>3. CASE Create
    <2>1. /\ sent \in Nat /\ sent' = sent + 1
          /\ DOMAIN calls' = DOMAIN calls \cup {sent + 1}
          /\ \A c \in DOMAIN calls : calls'[c] = calls[c]
          /\ calls'[sent + 1] = [kind |-> "create", task |-> NoTask, key |-> NoKey,
                                 awaited |-> TRUE, approved |-> FALSE]
      BY <1>0, <1>3, SendSends DEF Create, CallKinds
    <2>2. Sent
      BY <2>1 DEF Sent
    <2>3. QED
      BY <1>1, <2>2
  <1>4. CASE Resume
    <2>1. \A c \in DOMAIN calls : c \in DOMAIN calls' /\ calls'[c] = calls[c]
      BY <1>0, <1>4, SendSends DEF Resume, CallKinds
    <2>2. QED
      BY <1>0, <1>4, <2>1, SentUpToDate, ResumeUnused
  <1>5. QED
    BY <1>1, <1>2, <1>3, <1>4 DEF Select, Refresh

\* The page is loaded again when nothing is out.
LEMMA ReloadQuiet ==
  ASSUME TypeOK, PageKnown, PageUpToDate, KeysUnused, Reload, faults' = 0
  PROVE  PageUpToDate' /\ KeysUnused'
  <1>1. answers = <<>> /\ \A c \in DOMAIN calls : ~calls[c].awaited
    <2>1. ~Fault
      BY DEF Fault, TypeOK
    <2>2. QED
      BY <2>1 DEF Reload
  <1>2. DOMAIN calls = {} /\ DOMAIN calls' = {} /\ DOMAIN answers = {}
    BY <1>1 DEF KeysUnused, CallsAwaited, Reload
  <1>3. /\ answers' = answers /\ shown' = NoView /\ key' = NoKey
        /\ UNCHANGED <<status, usedBy, recents, sent, overtaken>>
    BY <1>1 DEF Reload, server
  <1>4. PageUpToDate'
    <2>1. overtaken \/ ViewsUpToDate'
      BY <1>2, <1>3 DEF PageUpToDate, ViewsUpToDate, UpToDate, ToSet
    <2>2. AnswersUpToDate' /\ ApprovalsAtWork'
      BY <1>2, <1>3 DEF PageUpToDate, AnswersUpToDate, ApprovalsAtWork
    <2>3. AllListed'
      BY <1>2, <1>3 DEF PageUpToDate, AllListed, Known, News
    <2>4. QED
      BY <1>3, <2>1, <2>2, <2>3 DEF PageUpToDate
  <1>5. KeysUnused'
    <2>1. CallsAwaited' /\ AnsweredOnce' /\ OneResume'
      BY <1>2, <1>3 DEF CallsAwaited, AnsweredOnce, OneResume
    <2>2. KeysDrawn'
      <3>1. NoKey.number <= sent
        BY DEF NoKey, TypeOK
      <3>2. QED
        BY <1>2, <1>3, <3>1 DEF KeysUnused, KeysDrawn
    <2>3. KeyTold'
      <3>1. NoKey \notin DOMAIN usedBy
        BY ConsoleAssumption DEF TypeOK, IsDict, Key, NoKey
      <3>2. QED
        BY <1>3, <3>1 DEF KeyTold
    <2>4. QED
      BY <2>1, <2>2, <2>3 DEF KeysUnused
  <1>6. QED
    BY <1>4, <1>5
-----------------------------------------------------------------------------
\* An answer given is the last of those on their way.
LEMMA AnswerFacts ==
  ASSUME TypeOK, NEW c \in DOMAIN calls, calls[c].awaited, NEW t, NEW st, AnswerCall(c, t, st),
         NEW m, m = Len(answers) + 1
  PROVE  /\ DOMAIN calls' = DOMAIN calls \ {c}
         /\ \A e \in DOMAIN calls' : calls'[e] = calls[e]
         /\ DOMAIN answers' = DOMAIN answers \cup {m}
         /\ m \notin DOMAIN answers /\ m \in Nat
         /\ \A i \in DOMAIN answers : answers'[i] = answers[i] /\ i \in Nat /\ i < m
         /\ answers'[m].call = c /\ answers'[m].kind = calls[c].kind
         /\ answers'[m].task = t /\ answers'[m].status = st
  <1>1. calls' = Drop(calls, c)
    BY DEF AnswerCall
  <1>2. answers' = Append(answers, [call |-> c, kind |-> calls[c].kind, task |-> t, status |-> st])
    BY DEF AnswerCall
  <1>3. answers \in Seq(Reply)
    BY DEF TypeOK
  <1>4. QED
    BY <1>1, <1>2, <1>3 DEF Drop

\* The keys, when a call is answered: a release uses the key of its call.
LEMMA AnswerUnused ==
  ASSUME TypeOK, KeysUnused, NEW c \in DOMAIN calls, NEW t, NEW st, AnswerCall(c, t, st),
         UNCHANGED <<key, sent>>,
         \/ UNCHANGED usedBy
         \/ /\ calls[c].kind = "resume" /\ st # "error"
            /\ DOMAIN usedBy' = DOMAIN usedBy \cup {calls[c].key}
  PROVE  KeysUnused'
  <1> SUFFICES ASSUME NEW m, m = Len(answers) + 1
               PROVE  KeysUnused'
    OBVIOUS
  <1>1. CallsAwaited /\ AnsweredOnce /\ OneResume /\ KeysDrawn /\ KeyTold
    BY DEF KeysUnused
  <1>2. /\ DOMAIN calls' = DOMAIN calls \ {c}
        /\ \A e \in DOMAIN calls' : calls'[e] = calls[e]
        /\ DOMAIN answers' = DOMAIN answers \cup {m}
        /\ m \notin DOMAIN answers
        /\ \A i \in DOMAIN answers : answers'[i] = answers[i]
        /\ answers'[m].call = c /\ answers'[m].kind = calls[c].kind
        /\ answers'[m].task = t /\ answers'[m].status = st
    <2>1. calls[c].awaited
      BY <1>1 DEF CallsAwaited
    <2>2. QED
      BY <2>1, AnswerFacts
  <1>3. answers'[m].call = c /\ answers'[m].kind = calls[c].kind /\ answers'[m].status = st
    BY <1>2
  <1>4. CallsAwaited'
    BY <1>1, <1>2, <1>3 DEF CallsAwaited
  <1>5. AnsweredOnce'
    <2>1. \A i \in DOMAIN answers : answers[i].call # c
      BY <1>1 DEF CallsAwaited
    <2>2. c \in 1 .. sent
      BY <1>1 DEF CallsAwaited
    <2>3. QED
      BY <1>1, <1>2, <1>3, <2>1, <2>2 DEF AnsweredOnce
  <1>6. OneResume'
    <2>1. ASSUME NEW e \in DOMAIN calls', calls[e].kind = "resume"
          PROVE  /\ calls[e].key \notin DOMAIN usedBy'
                 /\ \A i \in DOMAIN answers' : answers'[i].kind # "resume"
      <3>1. calls[c].kind # "resume"
        BY <1>1, <1>2, <2>1 DEF OneResume
      <3>2. UNCHANGED usedBy
        BY <3>1
      <3>3. QED
        BY <1>1, <1>2, <1>3, <2>1, <3>1, <3>2 DEF OneResume
    <2>2. QED
      BY <1>1, <1>2, <2>1 DEF OneResume
  <1>7. KeysDrawn'
    <2>1. \A k \in DOMAIN usedBy' \cup {key'} \cup {calls'[e].key : e \in DOMAIN calls'} :
            k \in DOMAIN usedBy \cup {key} \cup {calls[e].key : e \in DOMAIN calls}
      BY <1>2
    <2>2. QED
      BY <1>1, <1>2, <1>3, <2>1 DEF KeysDrawn
  <1>8. KeyTold'
    <2>1. CASE key \in DOMAIN usedBy
      <3>1. PICK i \in DOMAIN answers : answers[i].kind = "resume" /\ answers[i].status # "error"
        BY <1>1, <2>1 DEF KeyTold
      <3>2. QED
        BY <1>2, <3>1 DEF KeyTold
    <2>2. CASE key \notin DOMAIN usedBy
      BY <1>2, <1>3, <2>2 DEF KeyTold
    <2>3. QED
      BY <2>1, <2>2
  <1>9. QED
    BY <1>4, <1>5, <1>6, <1>7, <1>8 DEF KeysUnused

\* What the page shows, when a call is answered: the answer tells the status that the
\* task has from now on.
LEMMA AnswerUpToDate ==
  ASSUME TypeOK, PageKnown, PageUpToDate,
         NEW c \in DOMAIN calls, calls[c].awaited, NEW t \in Tasks, NEW st, AnswerCall(c, t, st),
         UNCHANGED <<shown, recents, overtaken>>,
         \/ st = "error" /\ UNCHANGED status /\ ~calls[c].approved
         \/ /\ st # "error" /\ st # "none" /\ status' = [status EXCEPT ![t] = st]
            /\ calls[c].approved => calls[c].task = t
            /\ st = "approved" => UNCHANGED status /\ ~calls[c].approved
  PROVE  PageUpToDate'
  <1> SUFFICES ASSUME NEW m, m = Len(answers) + 1
               PROVE  PageUpToDate'
    OBVIOUS
  <1>1. /\ overtaken \/ (ViewsUpToDate /\ AnswersUpToDate)
        /\ ApprovalsAtWork /\ AllListed
    BY DEF PageUpToDate
  <1>2. /\ DOMAIN calls' = DOMAIN calls \ {c}
        /\ \A e \in DOMAIN calls' : calls'[e] = calls[e]
        /\ DOMAIN answers' = DOMAIN answers \cup {m}
        /\ m \notin DOMAIN answers /\ m \in Nat
        /\ \A i \in DOMAIN answers : answers'[i] = answers[i] /\ i \in Nat /\ i < m
        /\ answers'[m].call = c /\ answers'[m].kind = calls[c].kind
        /\ answers'[m].task = t /\ answers'[m].status = st
    BY AnswerFacts
  <1>3. answers'[m].task = t /\ answers'[m].status = st
    BY <1>2
  <1>4. \A x \in Tasks : status'[x] = status[x] \/ (x = t /\ st # "error" /\ status'[x] = st)
    BY DEF TypeOK
  <1>5. ASSUME NEW x \in Tasks, NEW s, NEW n, n < m, UpToDate(x, s, n)
        PROVE  UpToDate(x, s, n)'
    <2>1. CASE x = t /\ st # "error"
      <3>1. News(m, x)' /\ m \in DOMAIN answers'
        BY <1>2, <1>3, <2>1 DEF News
      <3>2. QED
        BY <1>5, <3>1 DEF UpToDate
    <2>2. CASE ~(x = t /\ st # "error")
      <3>1. status'[x] = status[x]
        BY <1>4, <2>2
      <3>2. \A i \in DOMAIN answers : i \in DOMAIN answers' /\ News(i, x)' = News(i, x)
        BY <1>2 DEF News
      <3>3. \A e \in DOMAIN calls : calls[e].approved /\ calls[e].task = x =>
              e \in DOMAIN calls' /\ calls'[e] = calls[e]
        BY <1>2, <2>2
      <3>4. QED
        BY <1>5, <3>1, <3>2, <3>3 DEF UpToDate
    <2>3. QED
      BY <2>1, <2>2
  <1>6. ASSUME ~overtaken
        PROVE  ViewsUpToDate'
    <2>1. 0 < m
      BY <1>2, LenProperties DEF TypeOK
    <2>2. \A view \in {shown} \cup ToSet(recents) : view # NoView => view.task \in Tasks
      <3>1. \A view \in View : view.task \in Tasks
        BY DEF View
      <3>2. shown # NoView => shown \in View
        BY DEF TypeOK
      <3>3. \A view \in ToSet(recents) : view \in View
        BY DEF ToSet, TypeOK
      <3>4. QED
        BY <3>1, <3>2, <3>3
    <2>3. QED
      BY <1>1, <1>5, <1>6, <2>1, <2>2 DEF ViewsUpToDate
  <1>7. ASSUME ~overtaken
        PROVE  AnswersUpToDate'
    <2>1. ASSUME NEW i \in DOMAIN answers, answers[i].status # "error"
          PROVE  UpToDate(answers[i].task, answers[i].status, i)'
      <3>1. /\ answers[i].task \in Tasks /\ i < m
            /\ UpToDate(answers[i].task, answers[i].status, i)
        BY <1>1, <1>2, <1>7, <2>1 DEF AnswersUpToDate, PageKnown, Known
      <3>2. ASSUME NEW x, x = answers[i].task, NEW s, s = answers[i].status
            PROVE  UpToDate(x, s, i)'
        BY <1>5, <3>1, <3>2
      <3>3. answers'[i] = answers[i]
        BY <1>2
      <3>4. QED
        BY <3>2, <3>3
    <2>2. ASSUME st # "error"
          PROVE  UpToDate(t, st, m)'
      <3>1. status'[t] = st
        BY <2>2 DEF TypeOK
      <3>2. QED
        BY <3>1 DEF UpToDate
    <2>3. QED
      BY <1>2, <1>3, <2>1, <2>2 DEF AnswersUpToDate
  <1>8. ApprovalsAtWork'
    <2>1. ASSUME NEW x \in Tasks, status'[x] = "approved"
          PROVE  \E e \in DOMAIN calls' : calls'[e].approved /\ calls'[e].task = x
      <3>1. status[x] = "approved" /\ ~(calls[c].approved /\ calls[c].task = x)
        BY <1>4, <2>1 DEF TypeOK
      <3>2. PICK e \in DOMAIN calls : calls[e].approved /\ calls[e].task = x
        BY <1>1, <3>1 DEF ApprovalsAtWork
      <3>3. QED
        BY <1>2, <3>1, <3>2
    <2>2. QED
      BY <2>1 DEF ApprovalsAtWork
  <1>9. AllListed'
    <2>1. ASSUME Cardinality(Known') <= MaxRecent, NEW x \in Known'
          PROVE  \/ \E i \in DOMAIN recents : recents[i].task = x
                 \/ \E i \in DOMAIN answers' : News(i, x)'
      <3>1. CASE x \in Known
        <4>1. Known \subseteq Known'
          BY <1>4 DEF Known
        <4>2. IsFiniteSet(Known')
          <5>1. Known' \subseteq Known \cup {t}
            BY <1>4 DEF Known
          <5>2. QED
            BY <5>1, FS_AddElement, FS_Subset DEF PageKnown
        <4>3. Cardinality(Known) <= MaxRecent
          <5>1. /\ Cardinality(Known) <= Cardinality(Known')
                /\ Cardinality(Known) \in Nat /\ Cardinality(Known') \in Nat /\ MaxRecent \in Nat
            BY <4>1, <4>2, FS_Subset, FS_CardinalityType, ConsoleAssumption
          <5>2. QED
            BY <2>1, <5>1
        <4>4. \A i \in DOMAIN answers : i \in DOMAIN answers' /\ News(i, x)' = News(i, x)
          BY <1>2 DEF News
        <4>5. QED
          BY <1>1, <3>1, <4>3, <4>4 DEF AllListed
      <3>2. CASE x \notin Known
        <4>1. x = t /\ st # "error"
          BY <1>4, <2>1, <3>2 DEF Known
        <4>2. News(m, x)' /\ m \in DOMAIN answers'
          BY <1>2, <1>3, <4>1 DEF News
        <4>3. QED
          BY <4>2
      <3>3. QED
        BY <3>1, <3>2
    <2>2. QED
      BY <2>1 DEF AllListed
  <1>10. QED
    BY <1>6, <1>7, <1>8, <1>9 DEF PageUpToDate

\* An approval makes what was known of the task stale, until its release is answered.
LEMMA ApproveQuiet ==
  ASSUME TypeOK, PageKnown, PageUpToDate, KeysUnused, NEW c \in DOMAIN calls, Approve(c),
         UNCHANGED <<page, recents, sent, overtaken>>
  PROVE  PageUpToDate' /\ KeysUnused'
  <1> SUFFICES ASSUME NEW t, t = calls[c].task
               PROVE  PageUpToDate' /\ KeysUnused'
    OBVIOUS
  <1>0. t \in Tasks /\ status[t] = "awaiting_approval" /\ calls[c].kind = "resume"
    BY CallFacts DEF Approve
  <1>1. /\ status' = [status EXCEPT ![t] = "approved"]
        /\ calls' = [calls EXCEPT ![c].approved = TRUE]
        /\ UNCHANGED <<usedBy, answers, shown, key, recents, sent, overtaken>>
    BY DEF Approve, page
  <1>2. /\ DOMAIN calls' = DOMAIN calls
        /\ calls'[c].approved /\ calls'[c].task = t
    BY <1>1, CallFacts DEF Call
  <1>3. \A e \in DOMAIN calls :
          /\ calls'[e].task = calls[e].task /\ calls'[e].kind = calls[e].kind
          /\ calls'[e].key = calls[e].key /\ calls'[e].awaited = calls[e].awaited
          /\ calls'[e].approved = (calls[e].approved \/ e = c)
    BY <1>1, CallFacts DEF Call
  <1>4. \A x \in Tasks : x # t => status'[x] = status[x]
    BY <1>1 DEF TypeOK
  <1>5. Known' = Known
    BY <1>0, <1>1 DEF Known, TypeOK
  <1>6. ASSUME NEW x \in Tasks, NEW s, NEW n, UpToDate(x, s, n)
        PROVE  UpToDate(x, s, n)'
    <2>1. CASE x = t
      BY <1>2, <2>1 DEF UpToDate
    <2>2. CASE x # t
      BY <1>1, <1>2, <1>3, <1>4, <1>6, <2>2 DEF UpToDate, News
    <2>3. QED
      BY <2>1, <2>2
  <1>7. overtaken \/ ViewsUpToDate'
    <2>1. \A view \in {shown} \cup ToSet(recents) : view # NoView => view.task \in Tasks
      <3>1. \A view \in View : view.task \in Tasks
        BY DEF View
      <3>2. shown # NoView => shown \in View
        BY DEF TypeOK
      <3>3. \A view \in ToSet(recents) : view \in View
        BY DEF ToSet, TypeOK
      <3>4. QED
        BY <3>1, <3>2, <3>3
    <2>2. QED
      BY <1>1, <1>6, <2>1 DEF PageUpToDate, ViewsUpToDate
  <1>8. overtaken \/ AnswersUpToDate'
    <2>1. \A i \in DOMAIN answers : answers[i].task \in Tasks
      BY DEF PageKnown, Known
    <2>2. QED
      BY <1>1, <1>6, <2>1 DEF PageUpToDate, AnswersUpToDate
  <1>9. ApprovalsAtWork' /\ AllListed'
    BY <1>1, <1>2, <1>3, <1>4, <1>5 DEF PageUpToDate, ApprovalsAtWork, AllListed, News
  <1>10. CallsAwaited' /\ AnsweredOnce' /\ OneResume' /\ KeyTold'
    BY <1>0, <1>1, <1>2, <1>3 DEF KeysUnused, CallsAwaited, AnsweredOnce, OneResume, KeyTold
  <1>11. KeysDrawn'
    <2>1. {calls'[e].key : e \in DOMAIN calls'} = {calls[e].key : e \in DOMAIN calls}
      BY <1>2, <1>3
    <2>2. QED
      BY <1>1, <1>2, <2>1 DEF KeysUnused, KeysDrawn
  <1>12. QED
    BY <1>1, <1>7, <1>8, <1>9, <1>10, <1>11 DEF PageUpToDate, KeysUnused

\* The steps of the services.
LEMMA ServeQuiet ==
  ASSUME TypeOK, PageKnown, PageUpToDate, KeysUnused, Serve
  PROVE  PageUpToDate' /\ KeysUnused'
  <1>0. UNCHANGED <<shown, key, recents, sent, overtaken>> /\ OneResume /\ CallsAwaited
    BY DEF Serve, page, KeysUnused
  <1>1. ASSUME NEW c \in DOMAIN calls
        PROVE  /\ calls[c].awaited
               /\ calls[c].kind # "create" => calls[c].task \in Tasks /\ calls[c].task \in Known
               /\ calls[c].approved => calls[c].kind = "resume"
    BY <1>0, CallFacts DEF CallsAwaited, OneResume, CallsKnown
  <1>2. ASSUME NEW c \in DOMAIN calls, ServeGet(c)
        PROVE  PageUpToDate' /\ KeysUnused'
    <2> SUFFICES ASSUME NEW t \in Tasks, NEW st, t = calls[c].task, st = status[t], t \in Known
                 PROVE  PageUpToDate' /\ KeysUnused'
      BY <1>1, <1>2 DEF ServeGet
    <2>1. /\ AnswerCall(c, t, st) /\ UNCHANGED <<status, usedBy>>
          /\ ~calls[c].approved /\ calls[c].awaited
      BY <1>1, <1>2 DEF ServeGet, server
    <2>2. st # "error" /\ st # "none" /\ status' = [status EXCEPT ![t] = st]
      BY <2>1 DEF TypeOK, Status, Known
    <2>3. QED
      BY <1>0, <2>1, <2>2, AnswerUpToDate, AnswerUnused
  <1>3. ASSUME NEW c \in DOMAIN calls, NEW t \in Tasks,
               NEW st \in {"awaiting_approval", "exception"}, ServeCreate(c, t, st)
        PROVE  PageUpToDate' /\ KeysUnused'
    <2>1. /\ AnswerCall(c, t, st) /\ UNCHANGED usedBy
          /\ status' = [status EXCEPT ![t] = st]
          /\ ~calls[c].approved /\ calls[c].awaited
      BY <1>1, <1>3 DEF ServeCreate
    <2>2. st # "error" /\ st # "none" /\ st # "approved"
      OBVIOUS
    <2>3. QED
      BY <1>0, <2>1, <2>2, AnswerUpToDate, AnswerUnused
  <1>4. ASSUME NEW c \in DOMAIN calls, RefuseResume(c)
        PROVE  PageUpToDate' /\ KeysUnused'
    <2>1. /\ AnswerCall(c, calls[c].task, "error") /\ UNCHANGED <<status, usedBy>>
          /\ ~calls[c].approved /\ calls[c].awaited /\ calls[c].task \in Tasks
      BY <1>1, <1>4 DEF RefuseResume, server
    <2>2. QED
      BY <1>0, <2>1, AnswerUpToDate, AnswerUnused
  <1>5. ASSUME NEW c \in DOMAIN calls, Release(c)
        PROVE  PageUpToDate' /\ KeysUnused'
    <2>1. calls[c].key \notin DOMAIN usedBy /\ calls[c].kind = "resume"
      BY <1>0, <1>5 DEF Release, OneResume
    <2>2. /\ usedBy' = Put(usedBy, calls[c].key, calls[c].task)
          /\ status' = [status EXCEPT ![calls[c].task] = "settlement_pending"]
          /\ AnswerCall(c, calls[c].task, "settlement_pending")
      BY <1>5, <2>1 DEF Release
    <2>3. DOMAIN usedBy' = DOMAIN usedBy \cup {calls[c].key}
      BY <2>2 DEF Put
    <2>4. calls[c].awaited /\ calls[c].task \in Tasks
      BY <1>1, <2>1
    <2>5. KeysUnused'
      BY <1>0, <2>1, <2>2, <2>3, AnswerUnused
    <2>6. PageUpToDate'
      BY <1>0, <2>2, <2>4, AnswerUpToDate
    <2>7. QED
      BY <2>5, <2>6
  <1>6. QED
    BY <1>2, <1>3, <1>4, <1>5, ApproveQuiet DEF Serve
-----------------------------------------------------------------------------
\* The answers, when the n-th is delivered: the others, in the same order.
LEMMA LeftFacts ==
  ASSUME TypeOK, PageKnown, NEW n \in DOMAIN answers, Deliver(n)
  PROVE  /\ \A i \in DOMAIN answers' :
              \E j \in DOMAIN answers : /\ j # n /\ answers'[i] = answers[j]
                                        /\ j = IF i < n THEN i ELSE i + 1
         /\ \A j \in DOMAIN answers : j # n =>
              \E i \in DOMAIN answers' : answers'[i] = answers[j]
         /\ DOMAIN answers \subseteq Nat /\ DOMAIN answers' \subseteq Nat
  <1>1. /\ DOMAIN answers = 1 .. Len(answers) /\ Len(answers) \in Nat
        /\ DOMAIN answers' = 1 .. (Len(answers) - 1)
        /\ \A i \in 1 .. (Len(answers) - 1) :
             answers'[i] = answers[IF i < n THEN i ELSE i + 1]
        /\ n \in 1 .. Len(answers)
    BY DeliverFacts
  <1>2. ASSUME NEW i \in DOMAIN answers'
        PROVE  \E j \in DOMAIN answers : /\ j # n /\ answers'[i] = answers[j]
                                         /\ j = IF i < n THEN i ELSE i + 1
    <2>1. /\ (IF i < n THEN i ELSE i + 1) \in DOMAIN answers
          /\ (IF i < n THEN i ELSE i + 1) # n
      BY <1>1
    <2>2. answers'[i] = answers[IF i < n THEN i ELSE i + 1]
      BY <1>1
    <2>3. QED
      BY <2>1, <2>2
  <1>3. ASSUME NEW j \in DOMAIN answers, j # n
        PROVE  \E i \in DOMAIN answers' : answers'[i] = answers[j]
    <2>1. CASE j < n
      <3>1. j \in DOMAIN answers'
        BY <1>1, <2>1
      <3>2. QED
        BY <1>1, <2>1, <3>1
    <2>2. CASE j > n
      <3>1. j - 1 \in DOMAIN answers' /\ ~(j - 1 < n) /\ (j - 1) + 1 = j
        BY <1>1, <2>2
      <3>2. QED
        BY <1>1, <3>1
    <2>3. QED
      BY <1>1, <1>3, <2>1, <2>2
  <1>4. QED
    BY <1>1, <1>2, <1>3

\* The answers, when the first one is delivered.
LEMMA FirstFacts ==
  ASSUME TypeOK, PageKnown, 1 \in DOMAIN answers, Deliver(1)
  PROVE  /\ \A i \in DOMAIN answers' : i \in Nat /\ i + 1 \in DOMAIN answers
                                       /\ answers'[i] = answers[i + 1]
         /\ \A i \in DOMAIN answers : i # 1 => /\ i - 1 \in Nat /\ (i - 1) + 1 = i
                                              /\ i - 1 \in DOMAIN answers'
                                              /\ answers'[i - 1] = answers[i]
         /\ \A i \in DOMAIN answers : i \in Nat
  <1>1. /\ DOMAIN answers = 1 .. Len(answers) /\ Len(answers) \in Nat
        /\ DOMAIN answers' = 1 .. (Len(answers) - 1)
        /\ \A i \in 1 .. (Len(answers) - 1) :
             answers'[i] = answers[IF i < 1 THEN i ELSE i + 1]
    BY DeliverFacts
  <1>2. ASSUME NEW i \in DOMAIN answers'
        PROVE  /\ i \in Nat /\ i + 1 \in DOMAIN answers
               /\ answers'[i] = answers[i + 1]
    BY <1>1
  <1>3. ASSUME NEW i \in DOMAIN answers, i # 1
        PROVE  /\ i - 1 \in Nat /\ (i - 1) + 1 = i /\ i - 1 \in DOMAIN answers'
               /\ answers'[i - 1] = answers[i]
    <2>1. /\ i - 1 \in Nat /\ (i - 1) + 1 = i /\ i - 1 \in DOMAIN answers'
      BY <1>1, <1>3
    <2>2. QED
      BY <1>2, <2>1
  <1>4. QED
    BY <1>1, <1>2, <1>3

\* What an answer applied does to the calls that are out.
LEMMA ApplySends ==
  ASSUME TypeOK, CallsAwaited, NEW reply, Apply(reply)
  PROVE  Sent
  <1>1. CASE SetSelected(reply.task)
    BY <1>1, SelectedSends
  <1>2. CASE UNCHANGED <<calls, selected, sent>>
    BY <1>2 DEF Sent, TypeOK
  <1>3. QED
    BY <1>1, <1>2 DEF Apply

\* News that are not in the answer delivered are still on their way.
LEMMA ShiftedNews ==
  ASSUME TypeOK, PageKnown, 1 \in DOMAIN answers, Deliver(1),
         \A c \in DOMAIN calls : c \in DOMAIN calls' /\ calls'[c] = calls[c],
         NEW x, NEW s, NEW m \in Nat,
         \/ UpToDate(x, s, m + 1)
         \/ m = 0 /\ UpToDate(x, s, 0) /\ ~News(1, x)
  PROVE  UpToDate(x, s, m)'
  <1>1. UNCHANGED status
    BY DEF Deliver, server
  <1>2. CASE \E i \in DOMAIN answers : i # 1 /\ i - 1 > m /\ News(i, x)
    <2>1. PICK i \in DOMAIN answers : i # 1 /\ i - 1 > m /\ News(i, x)
      BY <1>2
    <2>2. i - 1 \in DOMAIN answers' /\ answers'[i - 1] = answers[i]
      BY <2>1, FirstFacts
    <2>3. QED
      BY <2>1, <2>2 DEF UpToDate, News
  <1>3. CASE ~ \E i \in DOMAIN answers : i # 1 /\ i - 1 > m /\ News(i, x)
    <2>1. ASSUME NEW i \in DOMAIN answers, News(i, x), i > m + 1 \/ (m = 0 /\ i > 0 /\ i # 1)
          PROVE  FALSE
      <3>1. i \in Nat
        BY FirstFacts
      <3>2. i # 1 /\ i - 1 > m
        BY <2>1, <3>1
      <3>3. QED
        BY <1>3, <2>1, <3>2
    <2>2. \/ s = status[x]
          \/ \E c \in DOMAIN calls : calls[c].approved /\ calls[c].task = x
      BY <2>1 DEF UpToDate
    <2>3. QED
      BY <1>1, <2>2 DEF UpToDate
  <1>4. QED
    BY <1>2, <1>3

\* What an answer that is applied leaves on the page and in the list.
LEMMA ShownFacts ==
  ASSUME TypeOK, PageKnown, NEW n \in DOMAIN answers, Deliver(n),
         NEW reply, reply = answers[n], Apply(reply), reply.status # "error"
  PROVE  /\ shown' \in View /\ shown'.task = reply.task /\ shown'.status = reply.status
         /\ recents' \in Seq(View)
         /\ \E i \in DOMAIN recents' : recents'[i] = shown'
         /\ \A i \in DOMAIN recents' :
              \/ recents'[i] = shown'
              \/ recents'[i].task # shown'.task /\ \E j \in DOMAIN recents : recents'[i] = recents[j]
         /\ Len(recents) < MaxRecent \/ (\E i \in DOMAIN recents : recents[i].task = shown'.task) =>
              \A j \in DOMAIN recents :
                \E i \in DOMAIN recents' : recents'[i].task = recents[j].task
  <1>1. /\ shown' \in View /\ shown'.task = reply.task /\ shown'.status = reply.status
        /\ recents' = Upsert(recents, shown')
        /\ recents \in Seq(View) /\ OnePerTask(recents) /\ Len(recents) <= MaxRecent
    BY ApplyFacts
  <1>2. Upserted(recents, shown', recents')
    BY <1>1, UpsertFacts
  <1>3. QED
    BY <1>1, <1>2 DEF Upserted

\* The list, when any answer is delivered.
LEMMA DeliverListed ==
  ASSUME TypeOK, PageKnown, PageUpToDate, CallsAwaited, NEW n \in DOMAIN answers, Deliver(n)
  PROVE  ApprovalsAtWork' /\ AllListed'
  <1> SUFFICES ASSUME NEW reply, reply = answers[n]
               PROVE  ApprovalsAtWork' /\ AllListed'
    OBVIOUS
  <1>1. ApprovalsAtWork /\ AllListed
    BY DEF PageUpToDate
  <1>2. /\ UNCHANGED status /\ Known' = Known /\ reply.task \in Known
        /\ \/ reply.status # "error" /\ Apply(reply)
           \/ reply.status = "error" /\ UNCHANGED <<calls, shown, recents>>
    BY DeliverFacts DEF Deliver, server, page
  <1>3. \A c \in DOMAIN calls : c \in DOMAIN calls' /\ calls'[c] = calls[c]
    BY <1>2, ApplySends DEF Sent
  <1>4. ApprovalsAtWork'
    BY <1>1, <1>2, <1>3 DEF ApprovalsAtWork
  <1>5. ASSUME NEW i \in DOMAIN answers, i # n, NEW x, News(i, x)
        PROVE  \E j \in DOMAIN answers' : News(j, x)'
    <2>1. PICK j \in DOMAIN answers' : answers'[j] = answers[i]
      BY <1>5, LeftFacts
    <2>2. QED
      BY <1>5, <2>1 DEF News
  <1>6. CASE reply.status = "error" /\ UNCHANGED <<calls, shown, recents>>
    <2>1. \A x : ~News(n, x)
      BY <1>6 DEF News
    <2>2. AllListed'
      BY <1>1, <1>2, <1>5, <1>6, <2>1 DEF AllListed
    <2>3. QED
      BY <1>4, <2>2
  <1>7. CASE reply.status # "error" /\ Apply(reply)
    <2>1. /\ shown'.task = reply.task
          /\ recents \in Seq(View) /\ OnePerTask(recents) /\ Len(recents) <= MaxRecent
      BY <1>7, ApplyFacts
    <2>2. /\ \E i \in DOMAIN recents' : recents'[i] = shown'
          /\ Len(recents) < MaxRecent \/ (\E i \in DOMAIN recents : recents[i].task = shown'.task) =>
               \A j \in DOMAIN recents :
                 \E i \in DOMAIN recents' : recents'[i].task = recents[j].task
      BY <1>7, ShownFacts
    <2>3. ASSUME Cardinality(Known) <= MaxRecent, NEW x \in Known,
                 \A i \in DOMAIN recents' : recents'[i].task # x
          PROVE  \E i \in DOMAIN answers' : News(i, x)'
      <3>1. x # reply.task
        BY <2>1, <2>2, <2>3
      <3>2. Len(recents) < MaxRecent \/ \E i \in DOMAIN recents : recents[i].task = reply.task
        <4>1. CASE \A i \in DOMAIN recents : recents[i].task # reply.task
          <5>1. IsFiniteSet(Known) /\ \A i \in DOMAIN recents : recents[i].task \in Known
            BY DEF PageKnown
          <5>2. QED
            BY <1>2, <2>1, <2>3, <4>1, <5>1, ListHasRoom
        <4>2. QED
          BY <4>1
      <3>3. \A j \in DOMAIN recents : recents[j].task # x
        BY <2>1, <2>2, <2>3, <3>2
      <3>4. PICK i \in DOMAIN answers : News(i, x)
        BY <1>1, <2>3, <3>3 DEF AllListed
      <3>5. i # n
        BY <3>1, <3>4 DEF News
      <3>6. QED
        BY <1>5, <3>4, <3>5
    <2>4. AllListed'
      BY <1>2, <2>3 DEF AllListed
    <2>5. QED
      BY <1>4, <2>4
  <1>8. QED
    BY <1>2, <1>6, <1>7

\* What the page shows, when it applies the first answer.
LEMMA DeliverUpToDate ==
  ASSUME TypeOK, PageKnown, ViewsUpToDate, AnswersUpToDate, CallsAwaited,
         1 \in DOMAIN answers, Deliver(1)
  PROVE  ViewsUpToDate' /\ AnswersUpToDate'
  <1> SUFFICES ASSUME NEW reply, reply = answers[1]
               PROVE  ViewsUpToDate' /\ AnswersUpToDate'
    OBVIOUS
  <1>1. \/ reply.status # "error" /\ Apply(reply)
        \/ reply.status = "error" /\ UNCHANGED <<calls, shown, recents>>
    BY DEF Deliver, page
  <1>2. \A c \in DOMAIN calls : c \in DOMAIN calls' /\ calls'[c] = calls[c]
    BY <1>1, ApplySends DEF Sent
  <1>3. AnswersUpToDate'
    <2>1. ASSUME NEW i \in DOMAIN answers', answers'[i].status # "error",
                 NEW x, x = answers'[i].task, NEW s, s = answers'[i].status
          PROVE  UpToDate(x, s, i)'
      <3>1. i \in Nat /\ i + 1 \in DOMAIN answers /\ answers'[i] = answers[i + 1]
        BY FirstFacts
      <3>2. UpToDate(x, s, i + 1)
        BY <2>1, <3>1 DEF AnswersUpToDate
      <3>3. QED
        BY <1>2, <3>1, <3>2, ShiftedNews
    <2>2. QED
      BY <2>1 DEF AnswersUpToDate
  <1>4. ASSUME NEW x, NEW s, UpToDate(x, s, 0), ~News(1, x)
        PROVE  UpToDate(x, s, 0)'
    BY <1>2, <1>4, ShiftedNews
  <1>5. CASE reply.status = "error" /\ UNCHANGED <<calls, shown, recents>>
    <2>1. \A x : ~News(1, x)
      BY <1>5 DEF News
    <2>2. ViewsUpToDate'
      BY <1>4, <1>5, <2>1 DEF ViewsUpToDate, ToSet
    <2>3. QED
      BY <1>3, <2>2
  <1>6. CASE reply.status # "error" /\ Apply(reply)
    <2>1. /\ shown' \in View /\ shown'.task = reply.task /\ shown'.status = reply.status
          /\ recents' \in Seq(View)
          /\ \A i \in DOMAIN recents' :
               \/ recents'[i] = shown'
               \/ recents'[i].task # shown'.task /\ \E j \in DOMAIN recents : recents'[i] = recents[j]
      BY <1>6, ShownFacts
    <2>2. ASSUME NEW x, x = reply.task, NEW s, s = reply.status
          PROVE  UpToDate(x, s, 0)'
      <3>1. UpToDate(x, s, 0 + 1)
        BY <1>6, <2>2 DEF AnswersUpToDate
      <3>2. QED
        BY <1>2, <3>1, ShiftedNews
    <2>3. ASSUME NEW view \in ToSet(recents'), view # shown', view # NoView,
                 NEW x, x = view.task, NEW s, s = view.status
          PROVE  UpToDate(x, s, 0)'
      <3>1. view.task # shown'.task /\ view \in ToSet(recents)
        BY <2>1, <2>3 DEF ToSet
      <3>2. UpToDate(x, s, 0)
        BY <2>3, <3>1 DEF ViewsUpToDate
      <3>3. ~News(1, x)
        BY <2>1, <2>3, <3>1 DEF News
      <3>4. QED
        BY <1>4, <3>2, <3>3
    <2>4. ASSUME NEW x, x = shown'.task, NEW s, s = shown'.status
          PROVE  UpToDate(x, s, 0)'
      BY <2>1, <2>2, <2>4
    <2>5. ASSUME NEW view \in {shown'} \cup ToSet(recents'), view # NoView,
                 NEW x, x = view.task, NEW s, s = view.status
          PROVE  UpToDate(x, s, 0)'
      BY <2>3, <2>4, <2>5
    <2>6. ViewsUpToDate'
      BY <2>5 DEF ViewsUpToDate
    <2>7. QED
      BY <1>3, <2>6
  <1>7. QED
    BY <1>1, <1>5, <1>6

\* The keys, when any answer arrives: the key drawn with it is new.
LEMMA DeliverUnused ==
  ASSUME TypeOK, PageKnown, KeysUnused, NEW n \in DOMAIN answers, Deliver(n)
  PROVE  KeysUnused'
  <1> SUFFICES ASSUME NEW reply, reply = answers[n]
               PROVE  KeysUnused'
    OBVIOUS
  <1>1. /\ CallsAwaited /\ AnsweredOnce /\ OneResume /\ KeysDrawn /\ KeyTold
        /\ sent \in Nat
    BY DEF KeysUnused, TypeOK
  <1>2. /\ UNCHANGED usedBy
        /\ \/ reply.status # "error" /\ Apply(reply)
           \/ reply.status = "error" /\ UNCHANGED <<calls, key, sent>>
    BY DEF Deliver, server, page
  <1>3. Sent
    BY <1>1, <1>2, ApplySends DEF Sent
  <1>4. /\ \A i \in DOMAIN answers' :
             \E j \in DOMAIN answers : /\ j # n /\ answers'[i] = answers[j]
                                       /\ j = IF i < n THEN i ELSE i + 1
        /\ \A j \in DOMAIN answers : j # n =>
             \E i \in DOMAIN answers' : answers'[i] = answers[j]
        /\ DOMAIN answers \subseteq Nat /\ DOMAIN answers' \subseteq Nat
    BY LeftFacts
  <1>5. \/ key' = key /\ (reply.kind = "get" \/ reply.status = "error")
        \/ key'.number = reply.call
    <2>1. CASE reply.status # "error" /\ Apply(reply)
      BY <2>1, ApplyFacts
    <2>2. QED
      BY <1>2, <2>1
  <1>6. reply.call \in 1 .. sent /\ \A c \in DOMAIN calls : reply.call # c
    BY <1>1 DEF AnsweredOnce, CallsAwaited
  <1>7. \A i \in DOMAIN answers' : answers'[i].call \in 1 .. sent /\ answers'[i].call # reply.call
    BY <1>1, <1>4 DEF AnsweredOnce
  <1>8. \A c \in 1 .. sent : c \in 1 .. sent' /\ c # sent + 1 /\ c <= sent' /\ c \in Nat
    BY <1>3 DEF Sent
  <1>9. CallsAwaited'
    <2>1. ASSUME NEW c \in DOMAIN calls'
          PROVE  /\ c \in 1 .. sent' /\ calls'[c].awaited
                 /\ \A i \in DOMAIN answers' : answers'[i].call # c
      <3>1. CASE c \in DOMAIN calls
        BY <1>1, <1>3, <1>4, <1>8, <3>1 DEF CallsAwaited, Sent
      <3>2. CASE c \notin DOMAIN calls
        <4>1. c = sent + 1 /\ sent' = sent + 1 /\ calls'[c].awaited
          BY <1>3, <2>1, <3>2 DEF Sent
        <4>2. c \in 1 .. sent'
          BY <1>1, <4>1
        <4>3. QED
          BY <1>7, <1>8, <4>1, <4>2
      <3>3. QED
        BY <3>1, <3>2
    <2>2. QED
      BY <2>1 DEF CallsAwaited
  <1>10. AnsweredOnce'
    <2>1. ASSUME NEW i \in DOMAIN answers', NEW j \in DOMAIN answers',
                 answers'[i].call = answers'[j].call
          PROVE  i = j
      <3>1. (IF i < n THEN i ELSE i + 1) = (IF j < n THEN j ELSE j + 1)
        BY <1>1, <1>4, <2>1 DEF AnsweredOnce
      <3>2. i \in Nat /\ j \in Nat /\ n \in Nat
        BY <1>4
      <3>3. QED
        BY <3>1, <3>2
    <2>2. QED
      BY <1>7, <1>8, <2>1 DEF AnsweredOnce
  <1>11. OneResume'
    <2>1. \A c \in DOMAIN calls' :
            calls'[c].kind = "resume" \/ calls'[c].approved =>
              c \in DOMAIN calls /\ calls'[c] = calls[c]
      BY <1>3 DEF Sent
    <2>2. QED
      BY <1>1, <1>2, <1>4, <2>1 DEF OneResume
  <1>12. KeysDrawn'
    <2>1. ASSUME NEW k, k \in DOMAIN usedBy \cup {key} \cup {calls[c].key : c \in DOMAIN calls}
          PROVE  /\ k.number <= sent' /\ \A c \in DOMAIN calls' : k.number # c
                 /\ \A i \in DOMAIN answers' : k.number # answers'[i].call
      <3>1. /\ k.number <= sent /\ \A c \in DOMAIN calls : k.number # c
            /\ \A i \in DOMAIN answers : k.number # answers[i].call
        BY <1>1, <2>1 DEF KeysDrawn
      <3>2. k \in Key \cup {NoKey}
        BY <2>1 DEF TypeOK, IsDict, Call
      <3>3. k.number \in Nat
        BY <3>2 DEF Key, NoKey
      <3>4. k.number <= sent' /\ k.number # sent + 1
        BY <1>3, <3>1, <3>3 DEF Sent
      <3>5. QED
        BY <1>3, <1>4, <3>1, <3>4 DEF Sent
    <2>2. ASSUME NEW k, k.number = reply.call
          PROVE  /\ k.number <= sent' /\ \A c \in DOMAIN calls' : k.number # c
                 /\ \A i \in DOMAIN answers' : k.number # answers'[i].call
      BY <1>3, <1>6, <1>7, <1>8, <2>2 DEF Sent
    <2>3. /\ NoKey.number <= sent' /\ \A c \in DOMAIN calls' : NoKey.number # c
          /\ \A i \in DOMAIN answers' : NoKey.number # answers'[i].call
      <3>1. NoKey.number = 0
        BY DEF NoKey
      <3>2. QED
        BY <1>3, <1>7, <1>9, <3>1 DEF CallsAwaited, Sent
    <2>4. \A k \in DOMAIN usedBy' \cup {key'} \cup {calls'[c].key : c \in DOMAIN calls'} :
            \/ k \in DOMAIN usedBy \cup {key} \cup {calls[c].key : c \in DOMAIN calls}
            \/ k.number = reply.call \/ k = NoKey
      BY <1>2, <1>3, <1>5 DEF Sent
    <2>5. QED
      BY <2>1, <2>2, <2>3, <2>4 DEF KeysDrawn
  <1>13. KeyTold'
    <2>1. SUFFICES ASSUME key' \in DOMAIN usedBy
                   PROVE  \E i \in DOMAIN answers' :
                            answers'[i].kind = "resume" /\ answers'[i].status # "error"
      BY <1>2 DEF KeyTold
    <2>2. key'.number # reply.call
      BY <1>1, <2>1 DEF KeysDrawn
    <2>3. key' = key /\ (reply.kind = "get" \/ reply.status = "error")
      BY <1>5, <2>2
    <2>4. PICK i \in DOMAIN answers : answers[i].kind = "resume" /\ answers[i].status # "error"
      BY <1>1, <2>1, <2>3 DEF KeyTold
    <2>5. i # n
      BY <2>3, <2>4
    <2>6. QED
      BY <1>4, <2>4, <2>5
  <1>14. QED
    BY <1>9, <1>10, <1>11, <1>12, <1>13 DEF KeysUnused

\* As long as there is no fault, every step leaves the page current or about to be.
LEMMA QuietStep ==
  ASSUME TypeOK, PageKnown, PageUpToDate, KeysUnused, [Next]_vars, faults' = 0
  PROVE  PageUpToDate' /\ KeysUnused'
  <1>1. ~Fault
    BY DEF Fault, TypeOK
  <1>2. CASE UNCHANGED vars
    BY <1>2 DEF vars, server, page, PageUpToDate, ViewsUpToDate, AnswersUpToDate,
                ApprovalsAtWork, AllListed, UpToDate, News, Known, KeysUnused, CallsAwaited,
                AnsweredOnce, OneResume, KeysDrawn, KeyTold
  <1>3. ASSUME NEW c \in DOMAIN calls, GiveUp(c)
        PROVE  FALSE
    BY <1>1, <1>3 DEF GiveUp
  <1>4. ASSUME NEW n \in DOMAIN answers, Deliver(n)
        PROVE  PageUpToDate' /\ KeysUnused'
    <2>1. CallsAwaited
      BY DEF KeysUnused
    <2>2. ASSUME ~overtaken'
          PROVE  ViewsUpToDate' /\ AnswersUpToDate'
      <3>1. ~overtaken /\ ~(n > 1)
        BY <1>4, <2>2 DEF Deliver
      <3>2. n \in 1 .. Len(answers) /\ Len(answers) \in Nat
        BY <1>4, DeliverFacts
      <3>3. n = 1
        BY <3>1, <3>2
      <3>4. QED
        BY <1>4, <2>1, <3>1, <3>3, DeliverUpToDate DEF PageUpToDate
    <2>3. QED
      BY <1>4, <2>1, <2>2, DeliverListed, DeliverUnused DEF PageUpToDate
  <1>5. QED
    BY <1>2, <1>3, <1>4, OperatorQuiet, ReloadQuiet, ServeQuiet DEF Next
-----------------------------------------------------------------------------
\* A page loaded for the first time.
LEMMA ConsoleInit ==
  ASSUME Init
  PROVE  ConsoleInv
  <1>1. /\ shown = NoView /\ selected = NoTask /\ key = NoKey /\ fetching = FALSE
        /\ status = [t \in Tasks |-> "none"]
        /\ usedBy = Empty /\ calls = Empty /\ answers = <<>> /\ recents = <<>>
        /\ sent = 0 /\ overtaken = FALSE /\ faults = 0
    BY DEF Init, FreshPage
  <1>2. DOMAIN calls = {} /\ DOMAIN usedBy = {} /\ DOMAIN answers = {} /\ DOMAIN recents = {}
    BY <1>1, EmptyDict
  <1>3. Known = {}
    BY <1>1 DEF Known
  <1>4. TypeOK
    <2>1. IsDict(usedBy, Key, Tasks) /\ IsDict(calls, Nat, Call)
      BY <1>1, EmptyDict
    <2>2. answers \in Seq(Reply) /\ recents \in Seq(View) /\ Len(recents) <= MaxRecent
      <3>1. Len(recents) = 0 /\ MaxRecent \in Nat
        BY <1>1, ConsoleAssumption
      <3>2. QED
        BY <1>1, <3>1
    <2>3. status \in [Tasks -> Status]
      BY <1>1 DEF Status
    <2>4. sent \in Nat /\ overtaken \in BOOLEAN /\ faults \in Nat
      BY <1>1
    <2>5. QED
      BY <1>1, <2>1, <2>2, <2>3, <2>4 DEF TypeOK
  <1>5. PageKnown
    BY <1>1, <1>2, <1>3, FS_EmptySet DEF PageKnown, OnePerTask
  <1>6. PageUpToDate
    BY <1>1, <1>2, <1>3 DEF PageUpToDate, ViewsUpToDate, AnswersUpToDate, ApprovalsAtWork,
                            AllListed, ToSet
  <1>7. KeysUnused
    <2>1. NoKey.number = 0
      BY DEF NoKey
    <2>2. QED
      BY <1>1, <1>2, <2>1 DEF KeysUnused, CallsAwaited, AnsweredOnce, OneResume, KeysDrawn,
                              KeyTold
  <1>8. QED
    BY <1>4, <1>5, <1>6, <1>7 DEF ConsoleInv

\* The inductive invariant of the page: whatever the operator does and in whatever order
\* answers arrive, until the first fault the list misses no task and the key it would send
\* has released nothing; and until an answer is overtaken every status it shows is the
\* orchestrator's or news of it are on their way.
THEOREM ConsoleInvariance == Spec => []ConsoleInv
  <1>1. Init => ConsoleInv
    BY ConsoleInit
  <1>2. ConsoleInv /\ [Next]_vars => ConsoleInv'
    BY KnownStep, QuietStep, FaultsStep DEF ConsoleInv
  <1>3. QED
    BY <1>1, <1>2, PTL DEF Spec

\* The page and the services stay well typed, whatever faults there are.
THEOREM ConsoleTypes == Spec => []TypeOK
  <1>1. ConsoleInv => TypeOK
    BY DEF ConsoleInv
  <1>2. QED
    BY <1>1, ConsoleInvariance, PTL

\* Without faults, and if no answer overtook another, a page that waits for nothing shows the orchestrator's status for the
\* task on display and for every recent one (App.tsx, selectTask and handleResume).
THEOREM QuietCurrent == Spec => []QuietIsCurrent
  <1>1. ConsoleInv => QuietIsCurrent
    <2> SUFFICES ASSUME ConsoleInv, Quiet, ~overtaken,
                        NEW view \in {shown} \cup ToSet(recents), view # NoView
                 PROVE  view.status = status[view.task]
      BY DEF QuietIsCurrent
    <2>1. DOMAIN calls = {} /\ DOMAIN answers = {}
      BY EmptyDict DEF Quiet
    <2>2. UpToDate(view.task, view.status, 0)
      BY DEF ConsoleInv, PageUpToDate, ViewsUpToDate, Quiet
    <2>3. QED
      BY <2>1, <2>2 DEF UpToDate
  <1>2. QED
    BY <1>1, ConsoleInvariance, PTL

\* Without faults, no approval is lost because its key had released another task
\* (handleResume sends the key of the form, applyTask draws the next one).
THEOREM NoWaste == Spec => []NoApprovalWasted
  <1>1. ConsoleInv => NoApprovalWasted
    <2>1. Quiet => DOMAIN calls = {}
      BY EmptyDict DEF Quiet
    <2>2. QED
      BY <2>1 DEF ConsoleInv, PageUpToDate, ApprovalsAtWork, NoApprovalWasted, Quiet
  <1>2. QED
    BY <1>1, ConsoleInvariance, PTL

\* Without faults, the approval queue misses no task that waits for approval, as long as
\* the list of recent tasks has room for every task (upsertRecentTask).
THEOREM QueueComplete == Spec => []QueueHasAwaiting
  <1>1. ConsoleInv => QueueHasAwaiting
    <2> SUFFICES ASSUME ConsoleInv, Quiet, Cardinality(Known) <= MaxRecent,
                        NEW t \in Tasks, status[t] = "awaiting_approval"
                 PROVE  \E i \in DOMAIN recents : recents[i].task = t
      BY DEF QueueHasAwaiting
    <2>1. DOMAIN answers = {}
      BY DEF Quiet
    <2>2. t \in Known
      BY DEF Known
    <2>3. QED
      BY <2>1, <2>2 DEF ConsoleInv, PageUpToDate, AllListed, Quiet
  <1>2. QED
    BY <1>1, ConsoleInvariance, PTL
=============================================================================
