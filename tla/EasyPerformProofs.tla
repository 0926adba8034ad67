-------------------------- MODULE EasyPerformProofs --------------------------
(***************************************************************************)
(* Proofs about EasyPerform, for any threads and any implicit multis.      *)
(***************************************************************************)
EXTENDS EasyPerform, FiniteSetTheorems, SequenceTheorems, TLAPS

-----------------------------------------------------------------------------
(***************************************************************************)
(* Lists of entries: which multis are in one, and that none is twice.      *)
(***************************************************************************)

In(list, m) == \E i \in DOMAIN list : list[i].multi = m
Distinct(list) == \A i, j \in DOMAIN list : list[i].multi = list[j].multi => i = j

\* A sublist has the entries at the positions that are kept.
LEMMA SublistFacts ==
  ASSUME NEW list \in Seq(Entries), NEW keep, keep \subseteq DOMAIN list,
         NEW s \in Sublist(list, keep)
  PROVE  /\ s \in Seq(Entries)
         /\ \A m : In(s, m) <=> \E i \in keep : list[i].multi = m
         /\ Distinct(list) => Distinct(s)
<1> DEFINE n == Cardinality(keep)
<1>1. IsFiniteSet(keep) /\ n \in Nat
  <2>1. IsFiniteSet(1 .. Len(list)) /\ Len(list) \in Nat BY FS_Interval
  <2>2. keep \subseteq 1 .. Len(list) OBVIOUS
  <2> QED BY <2>1, <2>2, FS_Subset, FS_CardinalityType
<1>2. PICK f \in [1 .. n -> keep] :
        /\ s = [i \in DOMAIN f |-> list[f[i]]]
        /\ \A i, j \in DOMAIN f : i < j => f[i] < f[j]
  BY DEF Sublist
<1>3. \A i, j \in 1 .. n : f[i] = f[j] => i = j
  <2> SUFFICES ASSUME NEW i \in 1 .. n, NEW j \in 1 .. n, f[i] = f[j], i # j PROVE FALSE
    OBVIOUS
  <2>1. i < j \/ j < i BY <1>1
  <2>2. f[i] \in Nat /\ f[j] \in Nat BY <1>2
  <2> QED BY <1>2, <2>1, <2>2
<1>4. \A x \in keep : \E i \in 1 .. n : f[i] = x
  <2> DEFINE R == {f[i] : i \in 1 .. n}
  <2>1. f \in Bijection(1 .. n, R) BY <1>3 DEF Bijection, Injection, Surjection, IsInjective
  <2>2. Cardinality(R) = n BY <1>1, <2>1, FS_CountingElements DEF ExistsBijection
  <2>3. R \subseteq keep OBVIOUS
  <2>4. R = keep BY <1>1, <2>2, <2>3, FS_Subset
  <2> QED BY <2>4
<1> HIDE DEF n
<1>5. s \in [1 .. n -> Entries] BY <1>2
<1>6. s \in Seq(Entries) /\ DOMAIN s = 1 .. n BY <1>1, <1>5
<1>7. \A m : In(s, m) <=> \E i \in keep : list[i].multi = m
  BY <1>2, <1>4, <1>6 DEF In
<1>8. Distinct(list) => Distinct(s) BY <1>2, <1>3, <1>6 DEF Distinct
<1> QED BY <1>6, <1>7, <1>8

\* defer_multi_close puts the multi in the list, and never twice.
LEMMA ParkFacts ==
  ASSUME NEW list \in Seq(Entries), NEW m \in Multis, NEW t \in Threads
  PROVE  /\ Park(list, m, t) \in Seq(Entries)
         /\ \A x : In(Park(list, m, t), x) <=> In(list, x) \/ x = m
         /\ Distinct(list) => Distinct(Park(list, m, t))
<1>1. CASE In(list, m) BY <1>1 DEF Park, In
<1>2. CASE ~In(list, m)
  <2> DEFINE x == [multi |-> m, owner |-> t]
             s == Append(list, x)
  <2>1. Park(list, m, t) = s BY <1>2 DEF Park, In
  <2>2. x \in Entries /\ x.multi = m BY DEF Entries
  <2> HIDE DEF x
  <2>3. /\ s \in Seq(Entries) /\ Len(s) = Len(list) + 1 /\ s[Len(list) + 1] = x
        /\ \A i \in 1 .. Len(list) : s[i] = list[i]
        /\ DOMAIN s = 1 .. Len(list) + 1 /\ DOMAIN list = 1 .. Len(list) /\ Len(list) \in Nat
    BY <2>2
  <2> HIDE DEF s
  <2>4. \A y : In(s, y) <=> In(list, y) \/ y = m
    <3> TAKE y
    <3>1. In(s, y) => In(list, y) \/ y = m BY <2>2, <2>3 DEF In
    <3>2. In(list, y) => In(s, y) BY <2>3 DEF In
    <3>3. In(s, m) BY <2>2, <2>3 DEF In
    <3> QED BY <3>1, <3>2, <3>3
  <2>5. Distinct(list) => Distinct(s)
    <3> SUFFICES ASSUME Distinct(list), NEW i \in DOMAIN s, NEW j \in DOMAIN s,
                        s[i].multi = s[j].multi
                 PROVE  i = j
      BY DEF Distinct
    <3>1. CASE i \in DOMAIN list /\ j \in DOMAIN list BY <2>3, <3>1 DEF Distinct
    <3>2. CASE i = Len(list) + 1 /\ j \in DOMAIN list BY <1>2, <2>2, <2>3, <3>2 DEF In
    <3>3. CASE j = Len(list) + 1 /\ i \in DOMAIN list BY <1>2, <2>2, <2>3, <3>3 DEF In
    <3>4. CASE i = Len(list) + 1 /\ j = Len(list) + 1 BY <3>4
    <3> QED BY <2>3, <3>1, <3>2, <3>3, <3>4
  <2> QED BY <2>1, <2>3, <2>4, <2>5
<1> QED BY <1>1, <1>2

\* Taking the first entry of a list.
LEMMA TailFacts ==
  ASSUME NEW list \in Seq(Entries), list # <<>>
  PROVE  /\ Head(list) \in Entries /\ Tail(list) \in Seq(Entries)
         /\ \A x : In(list, x) <=> x = Head(list).multi \/ In(Tail(list), x)
         /\ Distinct(list) => Distinct(Tail(list)) /\ ~In(Tail(list), Head(list).multi)
<1> DEFINE s == Tail(list)
           n == Len(list)
<1>1. /\ n \in Nat \ {0} /\ DOMAIN list = 1 .. n /\ s \in Seq(Entries)
      /\ DOMAIN s = 1 .. n - 1 /\ \A i \in 1 .. n - 1 : s[i] = list[i + 1]
      /\ Head(list) = list[1] /\ list[1] \in Entries
  <2>1. s \in Seq(Entries) /\ Len(s) = n - 1 /\ n \in Nat \ {0} OBVIOUS
  <2> QED BY <2>1
<1> HIDE DEF s, n
<1>2. \A x : In(list, x) <=> x = Head(list).multi \/ In(s, x)
  <2> TAKE x
  <2>1. ASSUME NEW i \in DOMAIN list, list[i].multi = x PROVE x = list[1].multi \/ In(s, x)
    <3>1. CASE i = 1 BY <2>1, <3>1
    <3>2. CASE i # 1
      <4>1. i - 1 \in 1 .. n - 1 /\ s[i - 1] = list[i] BY <1>1, <3>2
      <4> QED BY <1>1, <2>1, <4>1 DEF In
    <3> QED BY <3>1, <3>2
  <2>2. ASSUME NEW i \in DOMAIN s, s[i].multi = x PROVE In(list, x)
    <3>1. i + 1 \in DOMAIN list /\ list[i + 1] = s[i] BY <1>1
    <3> QED BY <2>2, <3>1 DEF In
  <2>3. In(list, list[1].multi) BY <1>1 DEF In
  <2> QED BY <1>1, <2>1, <2>2, <2>3 DEF In
<1>3. ASSUME Distinct(list) PROVE Distinct(s) /\ ~In(s, Head(list).multi)
  <2>1. \A i \in DOMAIN s : i + 1 \in DOMAIN list /\ list[i + 1] = s[i] BY <1>1
  <2>2. Distinct(s)
    <3> SUFFICES ASSUME NEW i \in DOMAIN s, NEW j \in DOMAIN s, s[i].multi = s[j].multi
                 PROVE  i = j
      BY DEF Distinct
    <3>1. i + 1 = j + 1 BY <1>3, <2>1 DEF Distinct
    <3> QED BY <1>1, <3>1
  <2>3. ASSUME NEW i \in DOMAIN s, s[i].multi = list[1].multi PROVE FALSE
    <3>1. i + 1 = 1 BY <1>1, <1>3, <2>1, <2>3 DEF Distinct
    <3> QED BY <1>1, <3>1
  <2> QED BY <1>1, <2>2, <2>3 DEF In
<1> QED BY <1>1, <1>2, <1>3 DEF s

-----------------------------------------------------------------------------
(***************************************************************************)
(* The inductive invariant.  OnePlaceEach speaks of open multis and of the *)
(* lists; it is kept because no multi is cached by two easies, because a   *)
(* new multi is nowhere, because the perform of a thread works on the      *)
(* multi of its own easy, because a thread that begins a flush has emptied *)
(* the batch of the one before, and because a multi is closed or listed    *)
(* before its easy lets go of it.                                          *)
(***************************************************************************)

Listed(list, lists, m) == In(list, m) \/ \E t \in Threads : In(lists[t], m)

OneList ==
  /\ Distinct(parked) /\ \A t \in Threads : Distinct(batch[t])
  /\ \A t \in Threads, m \in Multis : ~(In(parked, m) /\ In(batch[t], m))
  /\ \A t, u \in Threads, m \in Multis : In(batch[t], m) /\ In(batch[u], m) => t = u

OneEasy ==
  \A t \in Threads : cached[t] # None =>
    /\ pc[t] # "uncache" => ~Listed(parked, batch, cached[t])
    /\ \A u \in Threads : cached[u] = cached[t] => u = t

Somewhere ==
  \A m \in Multis :
    /\ state[m] = "new" => ~Listed(parked, batch, m) /\ \A t \in Threads : cached[t] # m
    /\ state[m] = "open" => Listed(parked, batch, m) \/ \E t \in Threads : cached[t] = m

Stages ==
  \A t \in Threads :
    /\ pc[t] \notin {"flush", "again", "exited"} => batch[t] = <<>>
    /\ pc[t] = "again" => batch[t] # <<>>
    /\ pc[t] \in {"transfer", "ensure", "defer", "uncache"} =>
         current[t] = cached[t] /\ cached[t] # None

Leaving ==
  \A t \in Threads : pc[t] = "uncache" =>
    state[cached[t]] = "closed" \/ Listed(parked, batch, cached[t])

Placed == TypeOK /\ OneList /\ OneEasy /\ Somewhere /\ Stages /\ Leaving

LEMMA EmptyFacts == \A m : ~In(<<>>, m) /\ Distinct(<<>>)
BY DEF In, Distinct

\* A step that leaves the easies and the multis alone and loses nothing from the
\* lists.
LEMMA SameLists ==
  ASSUME Placed, UNCHANGED <<state, cached>>,
         \A x \in Multis : Listed(parked', batch', x) <=> Listed(parked, batch, x),
         \A u \in Threads : pc'[u] = "uncache" <=> pc[u] = "uncache"
  PROVE  OneEasy' /\ Somewhere' /\ Leaving'
<1>1. \A u \in Threads : cached[u] # None => cached[u] \in Multis BY DEF Placed, TypeOK
<1>2. OneEasy' BY <1>1 DEF Placed, OneEasy
<1>3. Somewhere' BY DEF Placed, Somewhere
<1>4. Leaving'
  <2>1. \A u \in Threads : pc[u] = "uncache" => cached[u] \in Multis
    BY <1>1 DEF Placed, Stages
  <2> QED BY <2>1 DEF Placed, Leaving
<1> QED BY <1>2, <1>3, <1>4

\* The entry at the head of a batch is in no other list.
LEMMA HeadFacts ==
  ASSUME Placed, NEW t \in Threads, batch[t] # <<>>
  PROVE  /\ Head(batch[t]).multi \in Multis /\ Head(batch[t]).owner \in Threads
         /\ Tail(batch[t]) \in Seq(Entries) /\ Distinct(Tail(batch[t]))
         /\ ~In(parked, Head(batch[t]).multi) /\ ~In(Tail(batch[t]), Head(batch[t]).multi)
         /\ \A u \in Threads \ {t} : ~In(batch[u], Head(batch[t]).multi)
         /\ \A x : In(batch[t], x) <=> x = Head(batch[t]).multi \/ In(Tail(batch[t]), x)
<1>1. batch[t] \in Seq(Entries) /\ Distinct(batch[t]) BY DEF Placed, TypeOK, OneList
<1>2. /\ Head(batch[t]) \in Entries /\ Tail(batch[t]) \in Seq(Entries)
      /\ \A x : In(batch[t], x) <=> x = Head(batch[t]).multi \/ In(Tail(batch[t]), x)
      /\ Distinct(Tail(batch[t])) /\ ~In(Tail(batch[t]), Head(batch[t]).multi)
  BY <1>1, TailFacts
<1>3. PICK m : m = Head(batch[t]).multi OBVIOUS
<1>4. m \in Multis /\ Head(batch[t]).owner \in Threads BY <1>2, <1>3 DEF Entries
<1>5. In(batch[t], m) BY <1>2, <1>3
<1>6. ~In(parked, m) /\ \A u \in Threads \ {t} : ~In(batch[u], m)
  BY <1>4, <1>5 DEF Placed, OneList
<1> QED BY <1>2, <1>3, <1>4, <1>6

LEMMA BatchFacts ==
  ASSUME TypeOK, NEW t \in Threads, NEW own \in Seq(Entries), batch' = [batch EXCEPT ![t] = own]
  PROVE  /\ batch'[t] = own /\ \A u \in Threads \ {t} : batch'[u] = batch[u]
         /\ batch' \in [Threads -> Seq(Entries)]
BY DEF TypeOK

LEMMA PcFacts ==
  ASSUME TypeOK, NEW t \in Threads, NEW now \in Places, pc' = [pc EXCEPT ![t] = now]
  PROVE  /\ pc'[t] = now /\ \A u \in Threads \ {t} : pc'[u] = pc[u]
         /\ pc' \in [Threads -> Places]
BY DEF TypeOK

\* flush_deferred_multi_closes moves entries of the list to the thread.
LEMMA TakeStep ==
  ASSUME Placed, NEW t \in Threads, NEW own \in Seq(Entries), NEW now \in {"flush", "exited"},
         pc[t] = "idle", pc' = [pc EXCEPT ![t] = now],
         batch' = [batch EXCEPT ![t] = own], parked' \in Seq(Entries),
         Distinct(own), Distinct(parked'), exiting' \in BOOLEAN,
         \A m \in Multis : In(own, m) \/ In(parked', m) <=> In(parked, m),
         \A m \in Multis : ~(In(own, m) /\ In(parked', m)),
         UNCHANGED <<state, cached, current, created, raised, borrowed>>
  PROVE  Placed'
<1>0. TypeOK /\ OneList /\ Stages BY DEF Placed
<1>1. /\ batch'[t] = own /\ \A u \in Threads \ {t} : batch'[u] = batch[u]
      /\ batch' \in [Threads -> Seq(Entries)]
  BY <1>0, BatchFacts
<1>2. /\ pc'[t] = now /\ \A u \in Threads \ {t} : pc'[u] = pc[u]
      /\ pc' \in [Threads -> Places]
  BY <1>0, PcFacts DEF Places
<1>3. TypeOK' BY <1>0, <1>1, <1>2 DEF TypeOK
<1>4. \A m : ~In(batch[t], m)
  <2>1. batch[t] = <<>> BY <1>0 DEF Stages
  <2> QED BY <2>1, EmptyFacts
<1>5. OneList' BY <1>0, <1>1 DEF OneList
<1>6. \A x \in Multis : Listed(parked', batch', x) <=> Listed(parked, batch, x)
  BY <1>1, <1>4 DEF Listed
<1>7. \A u \in Threads : pc'[u] = "uncache" <=> pc[u] = "uncache" BY <1>2
<1>8. OneEasy' /\ Somewhere' /\ Leaving' BY <1>6, <1>7, SameLists
<1>9. Stages' BY <1>0, <1>1, <1>2 DEF Stages
<1> QED BY <1>3, <1>5, <1>8, <1>9 DEF Placed

LEMMA BeginStep == ASSUME Placed, NEW t \in Threads, BeginPerform(t) PROVE Placed'
<1> DEFINE keep == OwnEntries(t)
<1>0. TypeOK /\ OneList BY DEF Placed
<1>1. keep \subseteq DOMAIN parked /\ parked \in Seq(Entries) BY <1>0 DEF OwnEntries, TypeOK
<1>2. PICK own \in Sublist(parked, keep) : batch' = [batch EXCEPT ![t] = own]
  BY DEF BeginPerform
<1>3. parked' \in Sublist(parked, DOMAIN parked \ keep) BY DEF BeginPerform
<1> HIDE DEF keep
<1>4. /\ own \in Seq(Entries) /\ Distinct(own)
      /\ \A m : In(own, m) <=> \E i \in keep : parked[i].multi = m
  BY <1>0, <1>1, <1>2, SublistFacts DEF OneList
<1>5. /\ parked' \in Seq(Entries) /\ Distinct(parked')
      /\ \A m : In(parked', m) <=> \E i \in DOMAIN parked \ keep : parked[i].multi = m
  BY <1>0, <1>1, <1>3, SublistFacts DEF OneList
<1>6. \A m \in Multis : In(own, m) \/ In(parked', m) <=> In(parked, m)
  BY <1>1, <1>4, <1>5 DEF In
<1>7. \A m \in Multis : ~(In(own, m) /\ In(parked', m))
  BY <1>0, <1>1, <1>4, <1>5 DEF OneList, Distinct
<1> QED BY <1>0, <1>2, <1>4, <1>5, <1>6, <1>7, TakeStep DEF BeginPerform, TypeOK

LEMMA ExitStep == ASSUME Placed, AtExit PROVE Placed'
<1>1. Main \in Threads /\ parked \in Seq(Entries) /\ Distinct(parked) /\ <<>> \in Seq(Entries)
  BY PerformAssumption DEF Placed, TypeOK, OneList
<1> QED BY <1>1, EmptyFacts, TakeStep DEF AtExit

\* A release by a flush: the multi is closed, or its entry stays for DeferAgain.
LEMMA FlushStep == ASSUME Placed, NEW t \in Threads, FlushOne(t) PROVE Placed'
<1>0. TypeOK /\ OneList /\ OneEasy /\ Somewhere /\ Stages /\ Leaving BY DEF Placed
<1>1. /\ pc[t] \in {"flush", "exited"} /\ batch[t] # <<>>
      /\ UNCHANGED <<cached, parked, current, created, raised, borrowed, exiting>>
  BY DEF FlushOne
<1>2. PICK m : m = Head(batch[t]).multi OBVIOUS
<1>3. PICK rest : rest = Tail(batch[t]) OBVIOUS
<1>4. /\ m \in Multis /\ rest \in Seq(Entries) /\ Distinct(rest)
      /\ ~In(parked, m) /\ ~In(rest, m) /\ \A u \in Threads \ {t} : ~In(batch[u], m)
      /\ \A x : In(batch[t], x) <=> x = m \/ In(rest, x)
  BY <1>1, <1>2, <1>3, HeadFacts
<1>5. CASE Closable(m)
  <2>1. /\ state' = [state EXCEPT ![m] = "closed"] /\ pc' = pc
        /\ batch' = [batch EXCEPT ![t] = rest]
    BY <1>2, <1>3, <1>5 DEF FlushOne
  <2>2. /\ batch'[t] = rest /\ \A u \in Threads \ {t} : batch'[u] = batch[u]
        /\ batch' \in [Threads -> Seq(Entries)]
    BY <1>0, <1>4, <2>1, BatchFacts
  <2>3. /\ state'[m] = "closed" /\ \A x \in Multis \ {m} : state'[x] = state[x]
        /\ state' \in [Multis -> {"new", "open", "closed"}]
    BY <1>0, <1>4, <2>1 DEF TypeOK
  <2>4. TypeOK' BY <1>0, <1>1, <2>1, <2>2, <2>3 DEF TypeOK
  <2>5. \A x \in Multis : Listed(parked', batch', x) <=> Listed(parked, batch, x) /\ x # m
    BY <1>1, <1>4, <2>2 DEF Listed
  <2>6. OneList'
    <3>1. \A u \in Threads : Distinct(batch'[u]) BY <1>0, <1>4, <2>2 DEF OneList
    <3>2. \A u \in Threads, x \in Multis : In(batch'[u], x) => In(batch[u], x)
      BY <1>4, <2>2
    <3> QED BY <1>0, <1>1, <3>1, <3>2 DEF OneList
  <2>7. \A u \in Threads : cached[u] # None => cached[u] \in Multis BY <1>0 DEF TypeOK
  <2>8. OneEasy' BY <1>0, <1>1, <2>1, <2>5, <2>7 DEF OneEasy
  <2>9. Somewhere'
    <3> SUFFICES ASSUME NEW x \in Multis
                 PROVE  /\ state'[x] = "new" =>
                             ~Listed(parked', batch', x) /\ \A u \in Threads : cached'[u] # x
                        /\ state'[x] = "open" =>
                             Listed(parked', batch', x) \/ \E u \in Threads : cached'[u] = x
      BY DEF Somewhere
    <3>1. CASE x = m BY <2>3, <3>1
    <3>2. CASE x # m BY <1>0, <1>1, <2>3, <2>5, <3>2 DEF Somewhere
    <3> QED BY <3>1, <3>2
  <2>10. Stages' BY <1>0, <1>1, <2>1, <2>2 DEF Stages
  <2>11. Leaving'
    <3> SUFFICES ASSUME NEW u \in Threads, pc[u] = "uncache"
                 PROVE  state'[cached[u]] = "closed" \/ Listed(parked', batch', cached[u])
      BY <1>1, <2>1 DEF Leaving
    <3>1. cached[u] \in Multis BY <1>0, <2>7 DEF Stages
    <3>2. CASE cached[u] = m BY <2>3, <3>2
    <3>3. CASE cached[u] # m BY <1>0, <2>3, <2>5, <3>1, <3>3 DEF Leaving
    <3> QED BY <3>2, <3>3
  <2> QED BY <2>4, <2>6, <2>8, <2>9, <2>10, <2>11 DEF Placed
<1>6. CASE ~Closable(m)
  <2>1. pc' = [pc EXCEPT ![t] = "again"] /\ UNCHANGED <<state, batch>>
    BY <1>2, <1>6 DEF FlushOne
  <2>2. /\ pc'[t] = "again" /\ \A u \in Threads \ {t} : pc'[u] = pc[u]
        /\ pc' \in [Threads -> Places]
    BY <1>0, <2>1, PcFacts DEF Places
  <2>3. TypeOK' BY <1>0, <1>1, <2>1, <2>2 DEF TypeOK
  <2>4. OneList' BY <1>0, <1>1, <2>1 DEF OneList
  <2>5. OneEasy' /\ Somewhere' /\ Leaving' BY <1>1, <2>1, <2>2, SameLists
  <2>6. Stages' BY <1>0, <1>1, <2>1, <2>2 DEF Stages
  <2> QED BY <2>3, <2>4, <2>5, <2>6 DEF Placed
<1> QED BY <1>5, <1>6

\* The refused entry goes from the batch back to the list.
LEMMA AgainStep == ASSUME Placed, NEW t \in Threads, DeferAgain(t) PROVE Placed'
<1>0. TypeOK /\ OneList /\ Stages BY DEF Placed
<1>1. /\ pc[t] = "again" /\ batch[t] # <<>>
      /\ UNCHANGED <<state, cached, current, created, raised, borrowed, exiting>>
  BY <1>0 DEF DeferAgain, Stages
<1>2. PICK m : m = Head(batch[t]).multi OBVIOUS
<1>3. PICK rest : rest = Tail(batch[t]) OBVIOUS
<1>4. PICK o : o = Head(batch[t]).owner OBVIOUS
<1>5. PICK now \in {"flush", "exited"} : pc' = [pc EXCEPT ![t] = now] BY DEF DeferAgain
<1>6. parked' = Park(parked, m, o) /\ batch' = [batch EXCEPT ![t] = rest]
  BY <1>2, <1>3, <1>4 DEF DeferAgain
<1>7. /\ m \in Multis /\ o \in Threads /\ rest \in Seq(Entries) /\ Distinct(rest)
      /\ ~In(parked, m) /\ ~In(rest, m) /\ \A u \in Threads \ {t} : ~In(batch[u], m)
      /\ \A x : In(batch[t], x) <=> x = m \/ In(rest, x)
  BY <1>1, <1>2, <1>3, <1>4, HeadFacts
<1>8. /\ parked' \in Seq(Entries) /\ Distinct(parked')
      /\ \A x : In(parked', x) <=> In(parked, x) \/ x = m
  BY <1>0, <1>6, <1>7, ParkFacts DEF TypeOK, OneList
<1>9. /\ batch'[t] = rest /\ \A u \in Threads \ {t} : batch'[u] = batch[u]
      /\ batch' \in [Threads -> Seq(Entries)]
  BY <1>0, <1>6, <1>7, BatchFacts
<1>10. /\ pc'[t] = now /\ \A u \in Threads \ {t} : pc'[u] = pc[u]
       /\ pc' \in [Threads -> Places]
  BY <1>0, <1>5, PcFacts DEF Places
<1>11. TypeOK' BY <1>0, <1>1, <1>8, <1>9, <1>10 DEF TypeOK
<1>12. \A u \in Threads, x \in Multis : In(batch'[u], x) => In(batch[u], x) /\ x # m
  BY <1>7, <1>9
<1>13. OneList'
  <2>1. \A u \in Threads : Distinct(batch'[u]) BY <1>0, <1>7, <1>9 DEF OneList
  <2> QED BY <1>0, <1>8, <1>12, <2>1 DEF OneList
<1>14. \A x \in Multis : Listed(parked', batch', x) <=> Listed(parked, batch, x)
  BY <1>7, <1>8, <1>9 DEF Listed
<1>15. \A u \in Threads : pc'[u] = "uncache" <=> pc[u] = "uncache" BY <1>1, <1>10
<1>16. OneEasy' /\ Somewhere' /\ Leaving' BY <1>1, <1>14, <1>15, SameLists
<1>17. Stages' BY <1>0, <1>1, <1>9, <1>10 DEF Stages
<1> QED BY <1>11, <1>13, <1>16, <1>17 DEF Placed

\* The perform of t comes to use m: the multi of its easy, or a new one.
LEMMA UsesStep ==
  ASSUME Placed, NEW t \in Threads, NEW m \in Multis, NEW made \in BOOLEAN,
         cached[t] = m \/ (cached[t] = None /\ state[m] = "new"),
         pc[t] = "flush", batch[t] = <<>>,
         state' = [state EXCEPT ![m] = "open"], current' = [current EXCEPT ![t] = m],
         created' = [created EXCEPT ![t] = made], cached' = [cached EXCEPT ![t] = m],
         pc' = [pc EXCEPT ![t] = "transfer"],
         UNCHANGED <<parked, batch, raised, borrowed, exiting>>
  PROVE  Placed'
<1>0. TypeOK /\ OneList /\ OneEasy /\ Somewhere /\ Stages /\ Leaving BY DEF Placed
<1>1. /\ cached'[t] = m /\ current'[t] = m /\ state'[m] = "open"
      /\ \A u \in Threads \ {t} : cached'[u] = cached[u] /\ current'[u] = current[u]
      /\ \A x \in Multis \ {m} : state'[x] = state[x]
  BY <1>0 DEF TypeOK
<1>2. /\ pc'[t] = "transfer" /\ \A u \in Threads \ {t} : pc'[u] = pc[u]
      /\ pc' \in [Threads -> Places]
  BY <1>0, PcFacts DEF Places
<1>3. TypeOK' BY <1>0, <1>2 DEF TypeOK
<1>4. m # None BY PerformAssumption
<1>5. ~Listed(parked, batch, m) /\ \A u \in Threads : cached[u] = m => u = t
  BY <1>0, <1>4 DEF OneEasy, Somewhere
<1>6. OneList' BY <1>0 DEF OneList
<1>7. OneEasy' BY <1>0, <1>1, <1>2, <1>5 DEF OneEasy
<1>8. Somewhere'
  <2> SUFFICES ASSUME NEW x \in Multis
               PROVE  /\ state'[x] = "new" =>
                           ~Listed(parked', batch', x) /\ \A u \in Threads : cached'[u] # x
                      /\ state'[x] = "open" =>
                           Listed(parked', batch', x) \/ \E u \in Threads : cached'[u] = x
    BY DEF Somewhere
  <2>1. CASE x = m BY <1>1, <2>1
  <2>2. CASE x # m
    <3>1. cached[t] # x BY <2>2, PerformAssumption
    <3> QED BY <1>0, <1>1, <2>2, <3>1 DEF Somewhere
  <2> QED BY <2>1, <2>2
<1>9. Stages' BY <1>0, <1>1, <1>2, <1>4 DEF Stages
<1>10. Leaving'
  <2> SUFFICES ASSUME NEW u \in Threads, pc'[u] = "uncache"
               PROVE  state'[cached'[u]] = "closed" \/ Listed(parked, batch, cached'[u])
    BY DEF Leaving
  <2>1. u # t /\ pc[u] = "uncache" BY <1>2
  <2>2. cached'[u] = cached[u] /\ cached[u] # m BY <1>1, <1>5, <2>1
  <2>3. cached[u] \in Multis BY <1>0, <2>1 DEF Stages, TypeOK
  <2> QED BY <1>0, <1>1, <2>1, <2>2, <2>3 DEF Leaving
<1> QED BY <1>3, <1>6, <1>7, <1>8, <1>9, <1>10 DEF Placed

LEMMA UseStep == ASSUME Placed, NEW t \in Threads, UseMulti(t) PROVE Placed'
<1>1. /\ pc[t] = "flush" /\ batch[t] = <<>> /\ pc' = [pc EXCEPT ![t] = "transfer"]
      /\ UNCHANGED <<parked, batch, raised, borrowed, exiting>>
  BY DEF UseMulti
<1>2. CASE cached[t] # None
  <2>1. cached[t] \in Multis BY <1>2 DEF Placed, TypeOK
  <2>2. cached' = [cached EXCEPT ![t] = cached[t]] BY <1>2 DEF UseMulti, Placed, TypeOK
  <2> QED BY <1>1, <1>2, <2>1, <2>2, UsesStep DEF UseMulti
<1>3. CASE cached[t] = None
  <2>1. PICK m \in Multis :
          /\ state[m] = "new" /\ state' = [state EXCEPT ![m] = "open"]
          /\ current' = [current EXCEPT ![t] = m] /\ created' = [created EXCEPT ![t] = TRUE]
          /\ cached' = [cached EXCEPT ![t] = m]
    BY <1>3 DEF UseMulti
  <2> QED BY <1>1, <1>3, <2>1, UsesStep
<1> QED BY <1>2, <1>3

\* A perform goes on, and neither an easy nor a list changes.
LEMMA MoveStep ==
  ASSUME Placed, NEW t \in Threads, NEW now \in {"idle", "ensure", "defer"},
         pc[t] \in {"transfer", "ensure"}, pc' = [pc EXCEPT ![t] = now],
         raised' \in [Threads -> BOOLEAN],
         UNCHANGED <<state, cached, parked, batch, current, created, borrowed, exiting>>
  PROVE  Placed'
<1>0. TypeOK /\ OneList /\ Stages BY DEF Placed
<1>1. /\ pc'[t] = now /\ \A u \in Threads \ {t} : pc'[u] = pc[u]
      /\ pc' \in [Threads -> Places]
  BY <1>0, PcFacts DEF Places
<1>2. TypeOK' BY <1>0, <1>1 DEF TypeOK
<1>3. OneList' BY <1>0 DEF OneList
<1>4. \A u \in Threads : pc'[u] = "uncache" <=> pc[u] = "uncache" BY <1>1
<1>5. OneEasy' /\ Somewhere' /\ Leaving' BY <1>4, SameLists
<1>6. Stages' BY <1>0, <1>1 DEF Stages
<1> QED BY <1>2, <1>3, <1>5, <1>6 DEF Placed

\* The ensure clause closes the multi, or leaves it for Defer or with the easy.
LEMMA EndStep == ASSUME Placed, NEW t \in Threads, EndPerform(t) PROVE Placed'
<1>0. TypeOK /\ OneList /\ OneEasy /\ Somewhere /\ Stages /\ Leaving BY DEF Placed
<1>1. /\ pc[t] = "ensure" /\ raised' = [raised EXCEPT ![t] = FALSE]
      /\ UNCHANGED <<cached, parked, batch, current, created, borrowed, exiting>>
  BY DEF EndPerform
<1>2. PICK m \in Multis : m = current[t] /\ m = cached[t]
  BY <1>0, <1>1 DEF Stages, TypeOK
<1>3. raised' \in [Threads -> BOOLEAN] BY <1>0, <1>1 DEF TypeOK
<1>4. \/ state' = state /\ \E now \in {"idle", "defer"} : pc' = [pc EXCEPT ![t] = now]
      \/ state' = [state EXCEPT ![m] = "closed"] /\ pc' = [pc EXCEPT ![t] = "uncache"]
  BY <1>2 DEF EndPerform
<1>5. CASE state' = state /\ \E now \in {"idle", "defer"} : pc' = [pc EXCEPT ![t] = now]
  BY <1>1, <1>3, <1>5, MoveStep
<1>6. CASE state' = [state EXCEPT ![m] = "closed"] /\ pc' = [pc EXCEPT ![t] = "uncache"]
  <2>1. /\ pc'[t] = "uncache" /\ \A u \in Threads \ {t} : pc'[u] = pc[u]
        /\ pc' \in [Threads -> Places]
    BY <1>0, <1>6, PcFacts DEF Places
  <2>2. /\ state'[m] = "closed" /\ \A x \in Multis \ {m} : state'[x] = state[x]
        /\ state' \in [Multis -> {"new", "open", "closed"}]
    BY <1>0, <1>6 DEF TypeOK
  <2>3. TypeOK' BY <1>0, <1>1, <1>3, <2>1, <2>2 DEF TypeOK
  <2>4. OneList' BY <1>0, <1>1 DEF OneList
  <2>5. OneEasy' BY <1>0, <1>1, <2>1 DEF OneEasy
  <2>6. Somewhere' BY <1>0, <1>1, <2>2 DEF Somewhere
  <2>7. Stages' BY <1>0, <1>1, <2>1 DEF Stages
  <2>8. Leaving'
    <3> SUFFICES ASSUME NEW u \in Threads, pc'[u] = "uncache"
                 PROVE  state'[cached[u]] = "closed" \/ Listed(parked, batch, cached[u])
      BY <1>1 DEF Leaving
    <3>1. CASE cached[u] = m BY <2>2, <3>1
    <3>2. CASE cached[u] # m
      <4>1. pc[u] = "uncache" BY <1>2, <2>1, <3>2
      <4>2. cached[u] \in Multis BY <1>0, <4>1 DEF Stages, TypeOK
      <4> QED BY <1>0, <2>2, <3>2, <4>1, <4>2 DEF Leaving
    <3> QED BY <3>1, <3>2
  <2> QED BY <2>3, <2>4, <2>5, <2>6, <2>7, <2>8 DEF Placed
<1> QED BY <1>4, <1>5, <1>6

\* The multi of the easy is parked.
LEMMA DeferStep == ASSUME Placed, NEW t \in Threads, Defer(t) PROVE Placed'
<1>0. TypeOK /\ OneList /\ OneEasy /\ Somewhere /\ Stages /\ Leaving BY DEF Placed
<1>1. /\ pc[t] = "defer" /\ parked' = Park(parked, current[t], t)
      /\ pc' = [pc EXCEPT ![t] = "uncache"]
      /\ UNCHANGED <<state, cached, batch, current, created, raised, borrowed, exiting>>
  BY DEF Defer
<1>2. PICK m \in Multis : m = current[t] /\ m = cached[t]
  BY <1>0, <1>1 DEF Stages, TypeOK
<1>3. m # None BY PerformAssumption
<1>4. ~Listed(parked, batch, m) /\ \A u \in Threads : cached[u] = m => u = t
  BY <1>0, <1>1, <1>2, <1>3 DEF OneEasy
<1>5. /\ parked' \in Seq(Entries) /\ Distinct(parked')
      /\ \A x : In(parked', x) <=> In(parked, x) \/ x = m
  BY <1>0, <1>1, <1>2, ParkFacts DEF TypeOK, OneList
<1>6. /\ pc'[t] = "uncache" /\ \A u \in Threads \ {t} : pc'[u] = pc[u]
      /\ pc' \in [Threads -> Places]
  BY <1>0, <1>1, PcFacts DEF Places
<1>7. TypeOK' BY <1>0, <1>1, <1>5, <1>6 DEF TypeOK
<1>8. \A x \in Multis : Listed(parked', batch', x) <=> Listed(parked, batch, x) \/ x = m
  BY <1>1, <1>5 DEF Listed
<1>9. OneList' BY <1>0, <1>1, <1>4, <1>5 DEF OneList, Listed
<1>10. \A u \in Threads \ {t} : cached[u] # None => cached[u] \in Multis \ {m}
  BY <1>0, <1>4 DEF TypeOK
<1>11. OneEasy' BY <1>0, <1>1, <1>6, <1>8, <1>10 DEF OneEasy
<1>12. state[m] # "new" BY <1>0, <1>2 DEF Somewhere
<1>13. Somewhere' BY <1>0, <1>1, <1>8, <1>12 DEF Somewhere
<1>14. Stages' BY <1>0, <1>1, <1>6 DEF Stages
<1>15. Leaving'
  <2> SUFFICES ASSUME NEW u \in Threads, pc'[u] = "uncache"
               PROVE  state[cached[u]] = "closed" \/ Listed(parked', batch', cached[u])
    BY <1>1 DEF Leaving
  <2>1. CASE u = t BY <1>2, <1>8, <2>1
  <2>2. CASE u # t
    <3>1. pc[u] = "uncache" BY <1>6, <2>2
    <3>2. cached[u] \in Multis BY <1>0, <3>1 DEF Stages, TypeOK
    <3> QED BY <1>0, <1>8, <3>1, <3>2 DEF Leaving
  <2> QED BY <2>1, <2>2
<1> QED BY <1>7, <1>9, <1>11, <1>13, <1>14, <1>15 DEF Placed

\* The easy lets go of its multi, which is closed or listed by then.
LEMMA UncacheStep == ASSUME Placed, NEW t \in Threads, Uncache(t) PROVE Placed'
<1>0. TypeOK /\ OneList /\ OneEasy /\ Somewhere /\ Stages /\ Leaving BY DEF Placed
<1>1. /\ pc[t] = "uncache" /\ cached' = [cached EXCEPT ![t] = None]
      /\ pc' = [pc EXCEPT ![t] = "idle"]
      /\ UNCHANGED <<state, parked, batch, current, created, raised, borrowed, exiting>>
  BY DEF Uncache
<1>2. PICK m \in Multis : m = cached[t] BY <1>0, <1>1 DEF Stages, TypeOK
<1>3. state[m] = "closed" \/ Listed(parked, batch, m) BY <1>0, <1>1, <1>2 DEF Leaving
<1>4. /\ cached'[t] = None /\ \A u \in Threads \ {t} : cached'[u] = cached[u]
      /\ cached' \in [Threads -> Multis \cup {None}]
  BY <1>0, <1>1 DEF TypeOK
<1>5. /\ pc'[t] = "idle" /\ \A u \in Threads \ {t} : pc'[u] = pc[u]
      /\ pc' \in [Threads -> Places]
  BY <1>0, <1>1, PcFacts DEF Places
<1>6. TypeOK' BY <1>0, <1>1, <1>4, <1>5 DEF TypeOK
<1>7. OneList' BY <1>0, <1>1 DEF OneList
<1>8. OneEasy' BY <1>0, <1>1, <1>4, <1>5 DEF OneEasy
<1>9. Somewhere'
  <2> SUFFICES ASSUME NEW x \in Multis
               PROVE  /\ state[x] = "new" =>
                           ~Listed(parked, batch, x) /\ \A u \in Threads : cached'[u] # x
                      /\ state[x] = "open" =>
                           Listed(parked, batch, x) \/ \E u \in Threads : cached'[u] = x
    BY <1>1 DEF Somewhere
  <2>1. None # x BY PerformAssumption
  <2>2. CASE x = m BY <1>0, <1>2, <1>3, <2>2 DEF Somewhere
  <2>3. CASE x # m
    <3>1. \A u \in Threads : cached'[u] = x <=> cached[u] = x BY <1>2, <1>4, <2>1, <2>3
    <3> QED BY <1>0, <3>1 DEF Somewhere
  <2> QED BY <2>2, <2>3
<1>10. Stages' BY <1>0, <1>1, <1>4, <1>5 DEF Stages
<1>11. Leaving' BY <1>0, <1>1, <1>4, <1>5 DEF Leaving
<1> QED BY <1>6, <1>7, <1>8, <1>9, <1>10, <1>11 DEF Placed

LEMMA PlacedStep ==
  ASSUME Placed, [Next]_vars
  PROVE  Placed'
<1>0. TypeOK /\ OneList /\ Stages BY DEF Placed
<1>1. ASSUME NEW t \in Threads, Transfer(t) PROVE Placed'
  <2>1. raised' \in [Threads -> BOOLEAN] BY <1>0, <1>1 DEF Transfer, TypeOK
  <2> QED BY <1>1, <2>1, MoveStep DEF Transfer
<1>2. ASSUME NEW t \in Threads, ThreadStep(t) PROVE Placed'
  BY <1>1, <1>2, FlushStep, AgainStep, UseStep, EndStep, DeferStep, UncacheStep DEF ThreadStep
<1>3. ASSUME NEW m \in Multis, Borrow(m) \/ GiveBack(m) PROVE Placed'
  <2>1. UNCHANGED <<state, cached, parked, batch, pc, current, created, raised, exiting>>
    BY <1>3 DEF Borrow, GiveBack
  <2>2. borrowed' \subseteq Multis BY <1>0, <1>3 DEF Borrow, GiveBack, TypeOK
  <2>3. TypeOK' BY <1>0, <2>1, <2>2 DEF TypeOK
  <2>4. OneEasy' /\ Somewhere' /\ Leaving' BY <2>1, SameLists
  <2>5. OneList' /\ Stages' BY <1>0, <2>1 DEF OneList, Stages
  <2> QED BY <2>3, <2>4, <2>5 DEF Placed
<1>4. CASE UNCHANGED vars
  <2>1. OneEasy' /\ Somewhere' /\ Leaving' BY <1>4, SameLists DEF vars
  <2>2. TypeOK' /\ OneList' /\ Stages' BY <1>0, <1>4 DEF vars, TypeOK, OneList, Stages
  <2> QED BY <2>1, <2>2 DEF Placed
<1> QED BY <1>2, <1>3, <1>4, BeginStep, ExitStep DEF Next

\* Every open implicit multi is in exactly one place, an easy, the parked list
\* or a flush under way: none is lost, none is released by two threads, and none
\* that an easy will use again is closed by a flush, at exit neither.
THEOREM OnePlace == Spec => []OnePlaceEach
<1>1. Init => Placed
  <2> SUFFICES ASSUME Init PROVE Placed OBVIOUS
  <2>1. TypeOK
    <3>1. <<>> \in Seq(Entries) OBVIOUS
    <3>2. parked \in Seq(Entries) /\ batch \in [Threads -> Seq(Entries)] BY <3>1 DEF Init
    <3> QED BY <3>2 DEF Init, TypeOK, Places
  <2>2. OneList /\ OneEasy BY EmptyFacts DEF Init, OneList, OneEasy
  <2>3. Somewhere BY EmptyFacts, PerformAssumption DEF Init, Somewhere, Listed
  <2>4. Stages /\ Leaving BY DEF Init, Stages, Leaving
  <2> QED BY <2>1, <2>2, <2>3, <2>4 DEF Placed
<1>2. Placed /\ [Next]_vars => Placed' BY PlacedStep
<1>3. Placed => OnePlaceEach
  <2> SUFFICES ASSUME Placed PROVE OnePlaceEach OBVIOUS
  <2>1. \A m : InParked(m) <=> In(parked, m) BY DEF In, InParked
  <2>2. \A m : InBatch(m) <=> \E t \in Threads : In(batch[t], m) BY DEF In, InBatch
  <2>3. NoLeakedMulti BY <2>1, <2>2 DEF Placed, Somewhere, Listed, NoLeakedMulti
  <2>4. CachedNotParked BY <2>1, <2>2 DEF Placed, OneEasy, Listed, CachedNotParked
  <2>5. ParkedOnce
    <3>1. \A i, j \in DOMAIN parked : parked[i].multi = parked[j].multi => i = j
      BY DEF Placed, OneList, Distinct
    <3>2. \A m \in Multis : ~(InParked(m) /\ InBatch(m)) BY <2>1, <2>2 DEF Placed, OneList
    <3>3. ASSUME NEW t \in Threads, NEW u \in Threads, NEW i \in DOMAIN batch[t],
                 NEW j \in DOMAIN batch[u], batch[t][i].multi = batch[u][j].multi
          PROVE  t = u /\ i = j
      <4>1. batch[t][i].multi \in Multis
        <5>1. batch[t] \in Seq(Entries) BY DEF Placed, TypeOK
        <5>2. batch[t][i] \in Entries BY <5>1
        <5> QED BY <5>2 DEF Entries
      <4>2. t = u BY <3>3, <4>1 DEF Placed, OneList, In
      <4> QED BY <3>3, <4>2 DEF Placed, OneList, Distinct
    <3> QED BY <3>1, <3>2, <3>3 DEF ParkedOnce
  <2> QED BY <2>3, <2>4, <2>5 DEF OnePlaceEach, Placed
<1> QED BY <1>1, <1>2, <1>3, PTL DEF Spec
=============================================================================
