------------------------- MODULE WhatsAppInbox_proofs -------------------------
(***************************************************************************)
(* Theorems about WhatsAppInbox for any contacts, messages in the works,   *)
(* checks and incidents: its type (TInv), that a takeover holds (IInv),    *)
(* that the away message comes once a day (AInv) and a follow-up once      *)
(* (FInv).                                                                 *)
(*                                                                         *)
(* A human takes over a chat under one id, and the customer may write      *)
(* under the other. What has to be shown is that the pause is on both      *)
(* chats as soon as the store knows the ids to be one contact, whoever     *)
(* tells it, and that nothing that is still in the works puts a fresh      *)
(* record in the place of a paused one. The marks of a follow-up are on    *)
(* one chat of the contact: that every check judges this one, the chat     *)
(* that came first, is what FInv says in parts, of the places of the       *)
(* chats, of the pauses and of what a check is past.                       *)
(***************************************************************************)
EXTENDS WhatsAppInbox, WellFoundedInduction, SequenceTheorems, TLAPS

LEMMA Least == ASSUME NEW f, NEW T, T # {}, \A t \in T : f[t] \in Nat
               PROVE  \E t \in T : \A u \in T : f[t] <= f[u]
<1> DEFINE S == {f[t] : t \in T}
<1>1. S \subseteq Nat /\ S # {}
  OBVIOUS
<1>2. PICK x \in S : \A y \in S : <<y, x>> \notin OpToRel(<, Nat)
  BY <1>1, NatLessThanWellFounded, WFMin
<1>3. \A y \in S : ~(y < x)
  BY <1>1, <1>2 DEF OpToRel
<1>4. PICK t \in T : x = f[t]
  OBVIOUS
<1>5. \A u \in T : f[t] <= f[u]
  BY <1>3, <1>4
<1> QED
  BY <1>5

-----------------------------------------------------------------------------
(* The store *)

LEMMA Ids == ASSUME NEW j \in Jid
             PROVE  /\ Other(j) \in Jid /\ Other(j) # j /\ Other(j)[1] = j[1]
                    /\ Other(Other(j)) = j
                    /\ j[1] \in Contacts
                    /\ \A i \in Jid : i[1] = j[1] => i \in {j, Other(j)}
BY DEF Jid, Other

LEMMA KnownIds == ASSUME NEW s, NEW j \in Jid
                  PROVE  /\ Known(s, j) \subseteq Jid
                         /\ j \in Known(s, j)
                         /\ \A i \in Known(s, j) : i = j \/ (i = Other(j) /\ j[1] \in s.mapped)
                         /\ j[1] \in s.mapped => Known(s, j) = {j, Other(j)}
BY Ids DEF Known

LEMMA FreshIsChat == Fresh \in Chat
BY DEF Fresh, Chat

LEMMA UpsertStore ==
    ASSUME NEW s \in Store, NEW j \in Jid
    PROVE  /\ Upsert(s, j) \in Store
           /\ Upsert(s, j).log = s.log /\ Upsert(s, j).mapped = s.mapped
           /\ Has(Upsert(s, j), j)
           /\ \A i \in Jid : Has(s, i) => Has(Upsert(s, j), i) /\ Upsert(s, j).chats[i] = s.chats[i]
<1>1. CASE Has(s, j)
  BY <1>1 DEF Upsert
<1>2. CASE ~Has(s, j)
  <2> DEFINE t == [s EXCEPT !.place[j] = s.count + 1, !.count = s.count + 1, !.chats[j] = Fresh]
  <2>1. Upsert(s, j) = t
    BY <1>2 DEF Upsert
  <2>2. t \in Store
    <3>1. [s.place EXCEPT ![j] = s.count + 1] \in [Jid -> Nat] /\ s.count + 1 \in Nat
      BY DEF Store
    <3>2. [s.chats EXCEPT ![j] = Fresh] \in [Jid -> Chat]
      BY FreshIsChat DEF Store
    <3> QED
      BY <3>1, <3>2 DEF Store
  <2>3. t.log = s.log /\ t.mapped = s.mapped
    BY DEF Store
  <2>4. t.place[j] = s.count + 1 /\ s.count \in Nat
    BY DEF Store
  <2>5. \A i \in Jid : i # j => t.place[i] = s.place[i] /\ t.chats[i] = s.chats[i]
    BY DEF Store
  <2> HIDE DEF t
  <2> QED
    BY <1>2, <2>1, <2>2, <2>3, <2>4, <2>5 DEF Has
<1> QED
  BY <1>1, <1>2

LEMMA SetPausedStore ==
    ASSUME NEW s \in Store, NEW js \in SUBSET Jid, NEW b \in BOOLEAN
    PROVE  /\ SetPaused(s, js, b) \in Store
           /\ SetPaused(s, js, b).log = s.log /\ SetPaused(s, js, b).mapped = s.mapped
           /\ SetPaused(s, js, b).place = s.place
<1> DEFINE chats == [i \in Jid |-> IF i \in js THEN [s.chats[i] EXCEPT !.paused = b] ELSE s.chats[i]]
<1>1. SetPaused(s, js, b) = [s EXCEPT !.chats = chats]
  BY DEF SetPaused
<1>2. chats \in [Jid -> Chat]
  BY DEF Store, Chat
<1> HIDE DEF chats
<1> QED
  BY <1>1, <1>2 DEF Store

LEMMA SetPausedChats ==
    ASSUME NEW s \in Store, NEW js \in SUBSET Jid, NEW b \in BOOLEAN
    PROVE  /\ \A i \in js : SetPaused(s, js, b).chats[i].paused <=> b
           /\ \A i \in Jid \ js : SetPaused(s, js, b).chats[i].paused = s.chats[i].paused
<1> DEFINE chats == [i \in Jid |-> IF i \in js THEN [s.chats[i] EXCEPT !.paused = b] ELSE s.chats[i]]
<1>1. SetPaused(s, js, b) = [s EXCEPT !.chats = chats]
  BY DEF SetPaused
<1>2. \A i \in js : chats[i].paused <=> b
  BY DEF Store, Chat
<1>3. \A i \in Jid \ js : chats[i] = s.chats[i]
  OBVIOUS
<1> HIDE DEF chats
<1> QED
  BY <1>1, <1>2, <1>3 DEF Store

-----------------------------------------------------------------------------
(* What a takeover leaves in the store *)

\* The chats a human took over are there and paused, under both ids if they are known.
HeldPaused(s, h) ==
    \A j \in h : /\ Has(s, j) /\ s.chats[j].paused
                 /\ j[1] \in s.mapped => Has(s, Other(j)) /\ s.chats[Other(j)].paused

\* From s to t no chat is lost and no pause.
Keeps(s, t) ==
    \A j \in Jid : Has(s, j) => Has(t, j) /\ (s.chats[j].paused => t.chats[j].paused)

LEMMA KeepsHeld ==
    ASSUME NEW s, NEW t, NEW h \in SUBSET Jid, HeldPaused(s, h), Keeps(s, t),
           t.mapped \subseteq s.mapped
    PROVE  HeldPaused(t, h)
BY Ids DEF HeldPaused, Keeps

LEMMA KeepsTwice == ASSUME NEW s, NEW t, NEW u, Keeps(s, t), Keeps(t, u) PROVE Keeps(s, u)
BY DEF Keeps

LEMMA UpsertKeeps == ASSUME NEW s \in Store, NEW j \in Jid PROVE Keeps(s, Upsert(s, j))
BY UpsertStore DEF Keeps

LEMMA LearnStore ==
    ASSUME NEW s \in Store, NEW c \in Contacts, NEW h \in SUBSET Jid, HeldPaused(s, h)
    PROVE  /\ Learn(s, c) \in Store
           /\ Learn(s, c).log = s.log
           /\ Learn(s, c).mapped = s.mapped \cup {c}
           /\ Keeps(s, Learn(s, c))
           /\ HeldPaused(Learn(s, c), h)
<1> DEFINE lid == <<c, "lid">>
           pn  == <<c, "pn">>
           t   == [s EXCEPT !.mapped = @ \cup {c}]
           u   == Upsert(Upsert(t, lid), pn)
           js  == {lid, pn}
           v   == SetPaused(u, js, TRUE)
<1>1. /\ lid \in Jid /\ pn \in Jid /\ Other(lid) = pn /\ Other(pn) = lid
      /\ lid[1] = c /\ pn[1] = c
  BY DEF Jid, Other
<1>2. /\ t \in Store /\ t.log = s.log /\ t.mapped = s.mapped \cup {c} /\ t.chats = s.chats /\ t.place = s.place
  BY DEF Store
<1>3. Keeps(s, t)
  BY <1>2 DEF Keeps, Has
<1> DEFINE p == \E j \in {lid, pn} : Has(s, j) /\ s.chats[j].paused
<1>4. Learn(s, c) = IF p THEN v ELSE t
  BY DEF Learn
<1>5. CASE ~p
  <2>1. \A j \in h : j[1] # c
    BY <1>1, <1>5, Ids DEF HeldPaused
  <2>2. HeldPaused(t, h)
    BY <1>2, <2>1, Ids DEF HeldPaused, Has
  <2> HIDE DEF t, v, p
  <2> QED
    BY <1>2, <1>3, <1>4, <1>5, <2>2
<1>6. CASE p
  <2> HIDE DEF t
  <2>1. Upsert(t, lid) \in Store /\ Upsert(t, lid).log = t.log /\ Upsert(t, lid).mapped = t.mapped
        /\ Keeps(t, Upsert(t, lid)) /\ Has(Upsert(t, lid), lid)
    BY <1>1, <1>2, UpsertStore, UpsertKeeps
  <2>2. u \in Store /\ u.log = t.log /\ u.mapped = t.mapped /\ Keeps(t, u) /\ Has(u, lid) /\ Has(u, pn)
    BY <1>1, <2>1, UpsertStore, UpsertKeeps, KeepsTwice DEF Keeps
  <2> HIDE DEF u
  <2>3. /\ v \in Store /\ v.log = u.log /\ v.mapped = u.mapped /\ v.place = u.place
        /\ \A i \in js : v.chats[i].paused
        /\ \A i \in Jid \ js : v.chats[i].paused = u.chats[i].paused
    <3>1. js \in SUBSET Jid
      BY <1>1
    <3>2. TRUE \in BOOLEAN
      OBVIOUS
    <3> HIDE DEF js
    <3>3. u \in Store
      BY <2>2
    <3>4. v \in Store /\ v.log = u.log /\ v.mapped = u.mapped /\ v.place = u.place
      BY <3>1, <3>2, <3>3, SetPausedStore
    <3>5. \A i \in js : v.chats[i].paused <=> TRUE
      BY <3>1, <3>2, <3>3, SetPausedChats
    <3>6. \A i \in Jid \ js : v.chats[i].paused = u.chats[i].paused
      BY <3>1, <3>2, <3>3, SetPausedChats
    <3> HIDE DEF v
    <3> QED
      BY <3>4, <3>5, <3>6
  <2> HIDE DEF v
  <2>4. Keeps(u, v)
    BY <2>3 DEF Keeps, Has
  <2>5. Keeps(s, v)
    BY <1>3, <2>2, <2>4, KeepsTwice
  <2>6. \A j \in {lid, pn} : Has(v, j) /\ v.chats[j].paused
    BY <1>1, <2>2, <2>3 DEF Has
  <2>7. HeldPaused(v, h)
    <3> SUFFICES ASSUME NEW j \in h
                 PROVE  /\ Has(v, j) /\ v.chats[j].paused
                        /\ j[1] \in v.mapped => Has(v, Other(j)) /\ v.chats[Other(j)].paused
      BY DEF HeldPaused
    <3>1. CASE j[1] = c
      BY <1>1, <2>6, <3>1, Ids
    <3>2. CASE j[1] # c
      BY <1>2, <2>2, <2>3, <2>5, <3>2, Ids DEF HeldPaused, Keeps
    <3> QED
      BY <3>1, <3>2
  <2> QED
    BY <1>2, <1>4, <1>6, <2>2, <2>3, <2>5, <2>7
<1> QED
  BY <1>5, <1>6

LEMMA PauseStore ==
    ASSUME NEW s \in Store, NEW j \in Jid, NEW b \in BOOLEAN
    PROVE  /\ Pause(s, j, b) \in Store
           /\ Pause(s, j, b).log = s.log /\ Pause(s, j, b).mapped = s.mapped
           /\ \A i \in Jid : Has(s, i) => Has(Pause(s, j, b), i)
           /\ \A i \in Known(s, j) : Has(Pause(s, j, b), i) /\ (Pause(s, j, b).chats[i].paused <=> b)
           /\ \A i \in Jid \ Known(s, j) :
                 Has(s, i) => (Pause(s, j, b).chats[i].paused = s.chats[i].paused)
<1> DEFINE t == Upsert(s, j)
           u == IF j[1] \in s.mapped THEN Upsert(t, Other(j)) ELSE t
           K == Known(s, j)
           v == SetPaused(u, K, b)
<1>1. Pause(s, j, b) = v
  BY DEF Pause
<1>2. /\ t \in Store /\ t.log = s.log /\ t.mapped = s.mapped /\ Has(t, j)
      /\ \A i \in Jid : Has(s, i) => Has(t, i) /\ t.chats[i] = s.chats[i]
  BY UpsertStore
<1> HIDE DEF t
<1>3. /\ u \in Store /\ u.log = s.log /\ u.mapped = s.mapped
      /\ \A i \in K : Has(u, i)
      /\ \A i \in Jid : Has(s, i) => Has(u, i) /\ u.chats[i] = s.chats[i]
  <2>1. CASE j[1] \in s.mapped
    <3>1. Other(j) \in Jid /\ K = {j, Other(j)}
      BY <2>1, Ids, KnownIds
    <3>2. u = Upsert(t, Other(j))
      BY <2>1
    <3> HIDE DEF K, u
    <3>3. /\ u \in Store /\ u.log = t.log /\ u.mapped = t.mapped /\ Has(u, Other(j))
          /\ \A i \in Jid : Has(t, i) => Has(u, i) /\ u.chats[i] = t.chats[i]
      BY <1>2, <3>1, <3>2, UpsertStore
    <3> QED
      BY <1>2, <3>1, <3>3
  <2>2. CASE j[1] \notin s.mapped
    <3>1. K = {j} /\ u = t
      BY <2>2 DEF Known
    <3> HIDE DEF K, u
    <3> QED
      BY <1>2, <3>1
  <2> QED
    BY <2>1, <2>2
<1>4. K \in SUBSET Jid
  BY KnownIds
<1> HIDE DEF u, K
<1>10. u \in Store
  BY <1>3
<1>5. v \in Store /\ v.log = u.log /\ v.mapped = u.mapped /\ v.place = u.place
  BY <1>10, <1>4, SetPausedStore
<1>11. \A i \in K : v.chats[i].paused <=> b
  BY <1>10, <1>4, SetPausedChats
<1>6. \A i \in Jid \ K : v.chats[i].paused = u.chats[i].paused
  BY <1>10, <1>4, SetPausedChats
<1> HIDE DEF v
<1>7. /\ \A i \in Jid : Has(s, i) => Has(v, i)
      /\ \A i \in K : Has(v, i)
  BY <1>3, <1>4, <1>5 DEF Has
<1>8. \A i \in Jid \ K : Has(s, i) => v.chats[i].paused = s.chats[i].paused
  BY <1>3, <1>6
<1>9. v.log = s.log /\ v.mapped = s.mapped
  BY <1>3, <1>5
<1> QED
  BY <1>1, <1>5, <1>11, <1>7, <1>8, <1>9 DEF K

\* A takeover of one more chat, or its end under both its ids.
LEMMA PauseHeld ==
    ASSUME NEW s \in Store, NEW j \in Jid, NEW b \in BOOLEAN,
           NEW h \in SUBSET Jid, HeldPaused(s, h)
    PROVE  HeldPaused(Pause(s, j, b), IF b THEN h \cup {j} ELSE h \ Known(s, j))
<1> DEFINE t == Pause(s, j, b)
<1>1. /\ t.mapped = s.mapped
      /\ \A i \in Jid : Has(s, i) => Has(t, i)
      /\ \A i \in Known(s, j) : Has(t, i) /\ (t.chats[i].paused <=> b)
      /\ \A i \in Jid \ Known(s, j) : Has(s, i) => (t.chats[i].paused = s.chats[i].paused)
  BY PauseStore
<1> HIDE DEF t
<1>2. CASE b
  <2>1. Keeps(s, t)
    BY <1>1, <1>2 DEF Keeps
  <2>2. HeldPaused(t, h)
    BY <1>1, <2>1, KeepsHeld
  <2>3. HeldPaused(t, {j})
    BY <1>1, <1>2, KnownIds DEF HeldPaused
  <2> QED
    BY <1>2, <2>2, <2>3 DEF HeldPaused, t
<1>3. CASE ~b
  <2>1. ASSUME NEW i \in h \ Known(s, j)
        PROVE  /\ Has(t, i) /\ t.chats[i].paused
               /\ i[1] \in t.mapped => Has(t, Other(i)) /\ t.chats[Other(i)].paused
    <3>1. Has(t, i) /\ t.chats[i].paused
      BY <1>1 DEF HeldPaused
    <3>2. ASSUME i[1] \in t.mapped
          PROVE  Has(t, Other(i)) /\ t.chats[Other(i)].paused
      <4>1. Other(i) \notin Known(s, j)
        BY <1>1, <3>2, Ids, KnownIds
      <4> QED
        BY <1>1, <3>2, <4>1, Ids DEF HeldPaused
    <3> QED
      BY <3>1, <3>2
  <2> QED
    BY <1>3, <2>1 DEF HeldPaused, t
<1> QED
  BY <1>2, <1>3

LEMMA AddStore ==
    ASSUME NEW s \in Store, NEW j \in Jid, NEW mine \in BOOLEAN
    PROVE  /\ Add(s, j, mine) \in Store
           /\ Len(Add(s, j, mine).log) = Len(s.log) + 1
           /\ Add(s, j, mine).mapped = s.mapped
           /\ Has(Add(s, j, mine), j)
           /\ Keeps(s, Add(s, j, mine))
<1> DEFINE m == [jid |-> j, mine |-> mine]
           t == [s EXCEPT !.log = Append(@, m)]
<1>1. m \in Message
  BY DEF Message
<1> HIDE DEF m
<1>2. s.log \in Seq(Message)
  BY DEF Store
<1>3. Append(s.log, m) \in Seq(Message) /\ Len(Append(s.log, m)) = Len(s.log) + 1
  BY <1>1, <1>2
<1>4. /\ t \in Store /\ t.log = Append(s.log, m) /\ t.mapped = s.mapped
      /\ t.chats = s.chats /\ t.place = s.place
  BY <1>3 DEF Store
<1> HIDE DEF t
<1>5. Keeps(s, t)
  BY <1>4 DEF Keeps, Has
<1>6. Keeps(t, Upsert(t, j))
  BY <1>4, UpsertKeeps
<1>7. Upsert(t, j) \in Store /\ Upsert(t, j).log = t.log /\ Upsert(t, j).mapped = t.mapped
      /\ Has(Upsert(t, j), j)
  BY <1>4, UpsertStore
<1>8. Add(s, j, mine) = Upsert(t, j)
  BY DEF Add, t, m
<1> QED
  BY <1>3, <1>4, <1>5, <1>6, <1>7, <1>8, KeepsTwice

LEMMA RemoveStore ==
    ASSUME NEW s \in Store, NEW js \in SUBSET Jid
    PROVE  /\ Remove(s, js) \in Store
           /\ Len(Remove(s, js).log) = Len(s.log)
           /\ Remove(s, js).mapped = s.mapped
           /\ Remove(s, js).count = s.count
           /\ \A i \in Jid \ js : /\ Remove(s, js).place[i] = s.place[i]
                                 /\ Remove(s, js).chats[i] = s.chats[i]
<1> DEFINE place == [j \in Jid |-> IF j \in js THEN 0 ELSE s.place[j]]
           chats == [j \in Jid |-> IF j \in js THEN Fresh ELSE s.chats[j]]
           log   == [i \in DOMAIN s.log |-> IF s.log[i].jid \in js
                                            THEN [s.log[i] EXCEPT !.jid = NoJid] ELSE s.log[i]]
<1>1. Remove(s, js) = [s EXCEPT !.place = place, !.chats = chats, !.log = log]
  BY DEF Remove
<1>2. place \in [Jid -> Nat] /\ \A i \in Jid \ js : place[i] = s.place[i]
  BY DEF Store
<1>3. chats \in [Jid -> Chat] /\ \A i \in Jid \ js : chats[i] = s.chats[i]
  BY FreshIsChat DEF Store
<1>4. log \in Seq(Message) /\ Len(log) = Len(s.log)
  <2>1. s.log \in Seq(Message) /\ DOMAIN s.log = 1 .. Len(s.log) /\ Len(s.log) \in Nat
    BY DEF Store
  <2>2. \A i \in 1 .. Len(s.log) : s.log[i] \in Message
    BY <2>1
  <2>3. \A i \in 1 .. Len(s.log) : log[i] \in Message
    BY <2>1, <2>2 DEF Message
  <2>4. log = [i \in 1 .. Len(s.log) |-> log[i]]
    BY <2>1
  <2> HIDE DEF log
  <2>5. log \in [1 .. Len(s.log) -> Message]
    BY <2>3, <2>4
  <2> QED
    BY <2>1, <2>5, SeqDef, LenProperties
<1> HIDE DEF place, chats, log
<1> QED
  BY <1>1, <1>2, <1>3, <1>4 DEF Store

-----------------------------------------------------------------------------
(* The follow-up check *)

LEMMA Latest ==
    ASSUME NEW n \in Nat, NEW S
    PROVE  \E i \in 0 .. n : (i = 0 \/ i \in S) /\ \A m \in i + 1 .. n : m \notin S
<1> DEFINE Back == {b \in 0 .. n : n - b = 0 \/ n - b \in S}
           id   == [b \in Nat |-> b]
<1>1. n \in Back
  OBVIOUS
<1>2. PICK b \in Back : \A c \in Back : id[b] <= id[c]
  <2>1. \A c \in Back : id[c] \in Nat
    OBVIOUS
  <2> HIDE DEF Back, id
  <2> QED
    BY <1>1, <2>1, Least
<1>3. b \in 0 .. n /\ n - b \in 0 .. n /\ (n - b = 0 \/ n - b \in S)
  OBVIOUS
<1>4. ASSUME NEW m \in (n - b) + 1 .. n PROVE m \notin S
  <2>1. n - m \in 0 .. n /\ n - (n - m) = m /\ n - m < b
    BY <1>3
  <2>2. n - m \notin Back
    BY <1>2, <1>3, <2>1
  <2> QED
    BY <2>1, <2>2
<1> QED
  BY <1>3, <1>4

LEMMA LastIsThere ==
    ASSUME NEW s \in Store, NEW j \in Jid
    PROVE  Last(s, j) \in 0 .. Len(s.log) /\ LastSpoken(s, j) \in 0 .. Len(s.log)
<1> DEFINE n      == Len(s.log)
           S      == {i \in 0 .. n : IsIn(s, j, i)}
           T      == {i \in 0 .. n : IsIn(s, j, i) /\ ~s.log[i].mine}
           InS(i) == (i = 0 \/ IsIn(s, j, i)) /\ \A m \in i + 1 .. n : ~IsIn(s, j, m)
           InT(i) == /\ i = 0 \/ (IsIn(s, j, i) /\ ~s.log[i].mine)
                     /\ \A m \in i + 1 .. n : s.log[m].mine \/ ~IsIn(s, j, m)
<1>1. n \in Nat
  BY DEF Store
<1>2. \E i \in 0 .. n : InS(i)
  <2> HIDE DEF n
  <2>1. PICK i \in 0 .. n : (i = 0 \/ i \in S) /\ \A m \in i + 1 .. n : m \notin S
    <3> HIDE DEF S
    <3> QED
      BY <1>1, Latest
  <2> QED
    BY <1>1, <2>1
<1>3. \E i \in 0 .. n : InT(i)
  <2> HIDE DEF n
  <2>1. PICK i \in 0 .. n : (i = 0 \/ i \in T) /\ \A m \in i + 1 .. n : m \notin T
    <3> HIDE DEF T
    <3> QED
      BY <1>1, Latest
  <2> QED
    BY <1>1, <2>1
<1>4. Last(s, j) = (CHOOSE i \in 0 .. n : InS(i)) /\ LastSpoken(s, j) = (CHOOSE i \in 0 .. n : InT(i))
  BY DEF Last, LastSpoken
<1> HIDE DEF InS, InT
<1> QED
  BY <1>2, <1>3, <1>4

\* Where the loop stops: at the first chat of those it has not gone over that is neither
\* paused nor of a contact that is done, and due. What it has gone over is paused or done.
Stops(s, visited, processed, c) ==
    /\ c.stage = "judging" /\ c.rec = "kept" /\ c.jid \in Jid
    /\ Has(s, c.jid) /\ c.jid \notin visited /\ ~s.chats[c.jid].paused
    /\ Unified(s, c.jid) \notin processed
    /\ \A i \in Jid : (/\ Has(s, i) /\ i \notin visited /\ ~s.chats[i].paused
                       /\ s.place[i] < s.place[c.jid]) => Unified(s, i) # Unified(s, c.jid)
    /\ Due(s, c.jid)
    /\ visited \subseteq c.visited /\ processed \subseteq c.processed
    /\ \A i \in c.visited \ visited :
          i \in Jid /\ Has(s, i) /\ (s.chats[i].paused \/ Unified(s, i) \in c.processed)

LEMMA ScanStops ==
    ASSUME NEW s \in Store, NEW visited \in SUBSET Jid, NEW processed \in SUBSET Jid
    PROVE  \/ Scan(s, visited, processed) = Ended
           \/ /\ Scan(s, visited, processed) \in Judging
              /\ Stops(s, visited, processed, Scan(s, visited, processed))
<1> DEFINE meets(j)   == Has(s, j) /\ j \notin visited /\ ~s.chats[j].paused
           first(j)   == \A i \in Jid : (meets(i) /\ s.place[i] < s.place[j])
                                           => Unified(s, i) # Unified(s, j)
           picks(j)   == meets(j) /\ Unified(s, j) \notin processed /\ first(j) /\ Due(s, j)
           next       == CHOOSE j \in Jid : picks(j) /\ \A i \in Jid : picks(i) => s.place[j] <= s.place[i]
           passed     == {i \in Jid : Has(s, i) /\ s.place[i] <= s.place[next]}
           met        == {i \in passed : meets(i)}
           found      == [stage     |-> "judging",
                          jid       |-> next,
                          rec       |-> "kept",
                          last      |-> Last(s, next),
                          visited   |-> visited \cup passed,
                          processed |-> processed \cup {Unified(s, i) : i \in met}]
<1>1. Scan(s, visited, processed) = IF \A j \in Jid : ~picks(j) THEN Ended ELSE found
  BY Zenon DEF Scan
<1>2. CASE \A j \in Jid : ~picks(j)
  BY <1>1, <1>2, Zenon
<1>3. ASSUME NEW j0 \in Jid, picks(j0)
      PROVE  found \in Judging /\ Stops(s, visited, processed, found)
  <2> DEFINE T == {j \in Jid : picks(j)}
  <2>1. \A j \in T : s.place[j] \in Nat
    BY DEF Store
  <2>2. j0 \in T
    BY <1>3, Zenon
  <2>3. \A j \in T : j \in Jid /\ picks(j)
    BY Zenon
  <2>4. \A j \in Jid : picks(j) => j \in T
    BY Zenon
  <2>5. \A j \in Jid : picks(j) => meets(j) /\ Unified(s, j) \notin processed /\ first(j) /\ Due(s, j)
    BY Zenon
  <2> HIDE DEF T, picks
  <2>6. PICK j \in T : \A i \in T : s.place[j] <= s.place[i]
    BY <2>1, <2>2, Least
  <2>7. j \in Jid /\ picks(j) /\ \A i \in Jid : picks(i) => s.place[j] <= s.place[i]
    BY <2>3, <2>4, <2>6
  <2>8. next \in Jid /\ picks(next)
    BY <2>7, Zenon
  <2> HIDE DEF next
  <2>9. meets(next) /\ Unified(s, next) \notin processed /\ first(next) /\ Due(s, next)
    BY <2>5, <2>8, Zenon
  <2>10. Last(s, next) \in Nat
    BY <2>8, LastIsThere DEF Store
  <2>11. \A i \in Jid : Unified(s, i) \in Jid
    BY DEF Unified, Jid
  <2>12. passed \subseteq Jid /\ met \subseteq Jid
    OBVIOUS
  <2>13. \A i \in passed \ visited : Has(s, i) /\ (s.chats[i].paused \/ i \in met)
    OBVIOUS
  <2> HIDE DEF passed, met
  <2>14. found \in Judging
    BY <2>8, <2>10, <2>11, <2>12 DEF Judging
  <2>15. Stops(s, visited, processed, found)
    BY <2>8, <2>9, <2>12, <2>13 DEF Stops
  <2> QED
    BY <2>14, <2>15
<1>4. CASE ~ \A j \in Jid : ~picks(j)
  <2>1. PICK j0 \in Jid : picks(j0)
    BY <1>4, Zenon
  <2>2. found \in Judging /\ Stops(s, visited, processed, found)
    BY <1>3, <2>1, Zenon
  <2>3. Scan(s, visited, processed) = found
    BY <1>1, <1>4, Zenon
  <2> HIDE DEF found
  <2> QED
    BY <2>2, <2>3
<1> QED
  BY <1>2, <1>4, Zenon

LEMMA ScanPicks ==
    ASSUME NEW s \in Store, NEW visited \in SUBSET Jid, NEW processed \in SUBSET Jid
    PROVE  \/ Scan(s, visited, processed) = Ended
           \/ /\ Scan(s, visited, processed) \in Judging
              /\ Scan(s, visited, processed).jid \in Jid
              /\ ~s.chats[Scan(s, visited, processed).jid].paused
BY ScanStops DEF Stops

-----------------------------------------------------------------------------
(* The type *)

\* A message in the works and a check that judges have a chat.
Named == /\ \A h \in Handlers : handler[h].stage # "off" => handler[h].jid \in Jid
         /\ \A k \in Checks : check[k].stage # "off" => check[k].jid \in Jid

TInv == TypeOK /\ Named

LEMMA MarkStore ==
    ASSUME TInv, NEW s \in Store, NEW k \in Checks, NEW sent \in Nat, check[k].stage # "off"
    PROVE  /\ Mark(s, k, sent) \in Store
           /\ Mark(s, k, sent).log = s.log /\ Mark(s, k, sent).mapped = s.mapped
           /\ Mark(s, k, sent).place = s.place
           /\ \A j \in Jid : Mark(s, k, sent).chats[j].paused = s.chats[j].paused
<1>1. CASE check[k].rec = "lost"
  BY <1>1 DEF Mark
<1>2. CASE check[k].rec # "lost"
  <2> DEFINE j == check[k].jid
             r == [s.chats[j] EXCEPT !.trigger = check[k].last, !.sentFor = sent, !.followedAt = Len(s.log)]
             t == [s EXCEPT !.chats[j] = r]
  <2>1. j \in Jid /\ check[k].last \in Nat
    BY DEF TInv, TypeOK, Named, Judging
  <2>2. s.chats \in [Jid -> Chat] /\ Len(s.log) \in Nat
    BY DEF Store
  <2>3. r \in Chat /\ r.paused = s.chats[j].paused
    BY <2>1, <2>2 DEF Chat
  <2>4. Mark(s, k, sent) = t
    BY <1>2, <2>1, <2>2 DEF Mark, Store, Chat
  <2> HIDE DEF r, j
  <2>5. t \in Store /\ t.log = s.log /\ t.mapped = s.mapped /\ t.place = s.place
    BY <2>1, <2>2, <2>3 DEF Store
  <2>6. \A i \in Jid : t.chats[i].paused = s.chats[i].paused
    BY <2>1, <2>2, <2>3 DEF Store
  <2> QED
    BY <2>4, <2>5, <2>6
<1> QED
  BY <1>1, <1>2

LEMMA InitTyped == Init => TInv
<1> SUFFICES ASSUME Init PROVE TInv
  OBVIOUS
<1>1. store \in Store
  <2>1. [j \in Jid |-> Fresh] \in [Jid -> Chat]
    BY FreshIsChat
  <2>2. <<>> \in Seq(Message)
    OBVIOUS
  <2> QED
    BY <2>1, <2>2 DEF Init, Store
<1>2. Len(store.log) = 0
  BY DEF Init
<1>3. Done \in Handling /\ Ended \in Judging /\ Done.stage = "off" /\ Ended.stage = "off"
  BY DEF Done, Handling, Ended, Judging
<1>4. Named
  BY <1>3 DEF Named, Init
<1> QED
  BY <1>1, <1>2, <1>3, <1>4, InboxAssumption DEF Init, TInv, TypeOK

LEMMA Lengthens ==
    ASSUME TInv, NEW f, f \in [Jid -> 0 .. Len(store.log)], store' \in Store,
           Len(store'.log) >= Len(store.log)
    PROVE  f \in [Jid -> 0 .. Len(store'.log)]
<1>1. Len(store.log) \in Nat /\ Len(store'.log) \in Nat
  BY DEF TInv, TypeOK, Store
<1> QED
  BY <1>1

\* What a step has to show of its own, when the log does not get shorter.
LEMMA StillTyped ==
    ASSUME TInv, store' \in Store, Len(store'.log) >= Len(store.log),
           handler' \in [Handlers -> Handling], check' \in [Checks -> Judging], Named',
           phase' \in 1 .. 3, horizon' = horizon,
           held' \subseteq Jid, awaySent' \subseteq Jid, split' \subseteq Contacts,
           followUpAt' \in [Jid -> 0 .. Len(store'.log)], judgedAt' \in [Jid -> 0 .. Len(store'.log)],
           writes' \in 0 .. MaxWrites, incidents' \in 0 .. MaxIncidents
    PROVE  TInv'
<1>1. Len(store.log) \in Nat /\ Len(store'.log) \in Nat
  BY DEF TInv, TypeOK, Store
<1>2. horizon' \in 0 .. Len(store'.log)
  BY <1>1 DEF TInv, TypeOK
<1> QED
  BY <1>2 DEF TInv, TypeOK

LEMMA Incidents == ASSUME TInv, Incident PROVE incidents' \in 0 .. MaxIncidents
BY InboxAssumption DEF TInv, TypeOK, Incident

LEMMA LateTyped == ASSUME TInv, store' \in Store PROVE split \cup LateMapped \subseteq Contacts
BY DEF TInv, TypeOK, LateMapped, Store

LEMMA SameTimes == ASSUME TInv, store' \in Store, Len(store'.log) >= Len(store.log)
                   PROVE  /\ followUpAt \in [Jid -> 0 .. Len(store'.log)]
                          /\ judgedAt \in [Jid -> 0 .. Len(store'.log)]
<1>1. followUpAt \in [Jid -> 0 .. Len(store.log)] /\ judgedAt \in [Jid -> 0 .. Len(store.log)]
  BY DEF TInv, TypeOK
<1> QED
  BY <1>1, Lengthens

\* A message in the works that is put into another stage.
LEMMA Staged ==
    ASSUME TInv, NEW h \in Handlers, NEW r \in Handling, r.stage # "off" => r.jid \in Jid,
           handler' = [handler EXCEPT ![h] = r], UNCHANGED check
    PROVE  handler' \in [Handlers -> Handling] /\ check' \in [Checks -> Judging] /\ Named'
<1>1. handler' \in [Handlers -> Handling] /\ check' \in [Checks -> Judging]
  BY DEF TInv, TypeOK
<1>2. Named'
  BY DEF TInv, TypeOK, Named
<1> QED
  BY <1>1, <1>2

LEMMA SameWork == ASSUME TInv, UNCHANGED work
                  PROVE  handler' \in [Handlers -> Handling] /\ check' \in [Checks -> Judging] /\ Named'
BY DEF TInv, TypeOK, Named, work

\* A message is learned of with or without the other id of its contact.
LEMMA MaybeLearnTyped ==
    ASSUME NEW s \in Store, NEW c \in Contacts, NEW named \in BOOLEAN
    PROVE  LET t == IF named THEN Learn(s, c) ELSE s
           IN  t \in Store /\ t.log = s.log
<1>1. HeldPaused(s, {})
  BY DEF HeldPaused
<1>2. Learn(s, c) \in Store /\ Learn(s, c).log = s.log
  BY <1>1, LearnStore
<1> QED
  BY <1>2

LEMMA CustomerTyped == ASSUME TInv, NEW j \in Jid, CustomerWrites(j) PROVE TInv'
<1>1. j[1] \in Contacts
  BY Ids
<1>2. store' \in Store /\ Len(store'.log) >= Len(store.log)
  <2>1. PICK named \in BOOLEAN : store' = Add(IF named THEN Learn(store, j[1]) ELSE store, j, FALSE)
    BY DEF CustomerWrites
  <2> DEFINE t == IF named THEN Learn(store, j[1]) ELSE store
  <2>2. store \in Store /\ Len(store.log) \in Nat
    BY DEF TInv, TypeOK, Store
  <2>3. t \in Store /\ t.log = store.log
    BY <1>1, <2>2, MaybeLearnTyped
  <2>4. store' = Add(t, j, FALSE)
    BY <2>1
  <2> HIDE DEF t
  <2>5. Add(t, j, FALSE) \in Store /\ Len(Add(t, j, FALSE).log) = Len(t.log) + 1
    BY <2>3, AddStore
  <2>6. store' \in Store
    BY <2>4, <2>5
  <2>7. Len(store'.log) = Len(store.log) + 1
    BY <2>3, <2>4, <2>5
  <2> QED
    BY <2>2, <2>6, <2>7
<1>3. handler' \in [Handlers -> Handling] /\ check' \in [Checks -> Judging] /\ Named'
  <2>1. CASE UNCHANGED handler
    BY <2>1, SameWork DEF CustomerWrites, work
  <2>2. CASE \E h \in Handlers : handler[h].stage = "off" /\ ~UNCHANGED handler
    <3> DEFINE r == [Done EXCEPT !.stage = IF j[2] = "lid" /\ j[1] \notin store'.mapped
                                          THEN "resolving" ELSE "choosing",
                                 !.jid = j]
    <3>1. r \in Handling /\ r.jid \in Jid
      BY DEF Done, Handling
    <3>2. Free(Handlers, handler) \in Handlers
      BY <2>2 DEF Free
    <3>3. handler' = [handler EXCEPT ![Free(Handlers, handler)] = r]
      BY <2>2 DEF CustomerWrites
    <3>4. UNCHANGED check
      BY DEF CustomerWrites
    <3> HIDE DEF r
    <3> QED
      BY <3>1, <3>2, <3>3, <3>4, Staged
  <2> QED
    BY <2>1, <2>2 DEF CustomerWrites
<1>4. writes' \in 0 .. MaxWrites
  BY InboxAssumption DEF CustomerWrites, TInv, TypeOK
<1>5. split' \subseteq Contacts
  BY <1>2, LateTyped DEF CustomerWrites
<1> QED
  BY <1>2, <1>3, <1>4, <1>5, SameTimes, StillTyped DEF CustomerWrites, TInv, TypeOK

LEMMA StepTyped == ASSUME TInv, NEW h \in Handlers, Step(h) PROVE TInv'
<1>1. store \in Store /\ Len(store.log) \in Nat /\ handler[h] \in Handling
  BY DEF TInv, TypeOK, Store
<1>2. Done \in Handling /\ Done.stage = "off"
  BY DEF Done, Handling
<1>3. handler[h].stage # "off" => handler[h].jid \in Jid /\ handler[h].jid[1] \in Contacts
  BY Ids DEF TInv, Named
<1>4. CASE Resolve(h)
  <2>1. store' \in Store /\ Len(store'.log) >= Len(store.log)
    BY <1>1, <1>3, <1>4, MaybeLearnTyped DEF Resolve
  <2> DEFINE r == [handler[h] EXCEPT !.stage = "choosing"]
  <2>2. r \in Handling /\ r.jid \in Jid
    BY <1>1, <1>3, <1>4 DEF Resolve, Handling
  <2>3. handler' = [handler EXCEPT ![h] = r] /\ UNCHANGED check
    BY <1>4 DEF Resolve, TInv, TypeOK
  <2> HIDE DEF r
  <2>4. handler' \in [Handlers -> Handling] /\ check' \in [Checks -> Judging] /\ Named'
    BY <2>2, <2>3, Staged
  <2>5. split' \subseteq Contacts
    BY <1>4, <2>1, LateTyped DEF Resolve
  <2> QED
    BY <1>4, <2>1, <2>4, <2>5, SameTimes, StillTyped DEF Resolve, spent, TInv, TypeOK
<1>5. CASE Choose(h)
  <2>1. \/ handler' = [handler EXCEPT ![h] = Done]
        \/ \E stage \in {"replying", "away"}, rec \in {"kept", "none"} :
              handler' = [handler EXCEPT ![h] = [handler[h] EXCEPT !.stage = stage, !.rec = rec]]
    BY <1>5 DEF Choose, Accept, TInv, TypeOK
  <2>2. UNCHANGED check
    BY <1>5 DEF Choose
  <2>3. handler' \in [Handlers -> Handling] /\ check' \in [Checks -> Judging] /\ Named'
    <3>1. CASE handler' = [handler EXCEPT ![h] = Done]
      BY <1>2, <2>2, <3>1, Staged
    <3>2. ASSUME NEW stage \in {"replying", "away"}, NEW rec \in {"kept", "none"},
                 handler' = [handler EXCEPT ![h] = [handler[h] EXCEPT !.stage = stage, !.rec = rec]]
          PROVE  handler' \in [Handlers -> Handling] /\ check' \in [Checks -> Judging] /\ Named'
      <4> DEFINE r == [handler[h] EXCEPT !.stage = stage, !.rec = rec]
      <4>1. r \in Handling /\ r.jid \in Jid
        BY <1>1, <1>3, <1>5 DEF Choose, Handling
      <4>2. handler' = [handler EXCEPT ![h] = r]
        BY <3>2
      <4> HIDE DEF r
      <4> QED
        BY <2>2, <4>1, <4>2, Staged
    <3> QED
      BY <2>1, <3>1, <3>2
  <2> QED
    BY <1>1, <1>5, <2>3, SameTimes, StillTyped DEF Choose, spent, history, TInv, TypeOK
<1>6. CASE Answer(h)
  <2> DEFINE j == handler[h].jid
  <2>1. j \in Jid /\ store' = Add(store, j, TRUE)
    BY <1>3, <1>6 DEF Answer
  <2> HIDE DEF j
  <2>2. Add(store, j, TRUE) \in Store /\ Len(Add(store, j, TRUE).log) = Len(store.log) + 1
    BY <1>1, <2>1, AddStore
  <2>3. store' \in Store
    BY <2>1, <2>2
  <2>4. Len(store'.log) = Len(store.log) + 1
    BY <2>1, <2>2
  <2>5. store' \in Store /\ Len(store'.log) >= Len(store.log)
    BY <1>1, <2>3, <2>4
  <2>6. handler' \in [Handlers -> Handling] /\ check' \in [Checks -> Judging] /\ Named'
    BY <1>2, <1>6, Staged DEF Answer
  <2> QED
    BY <1>6, <2>5, <2>6, SameTimes, StillTyped DEF Answer, spent, history, TInv, TypeOK
<1>7. CASE SendAway(h)
  <2> DEFINE j == handler[h].jid
             s == Add(store, j, TRUE)
  <2>1. j \in Jid
    BY <1>3, <1>7 DEF SendAway
  <2>2. s \in Store /\ Len(s.log) = Len(store.log) + 1
    BY <1>1, <2>1, AddStore
  <2>3. Today \in Nat
    BY DEF Today
  <2>4. \/ store' = s
        \/ store' = [s EXCEPT !.chats[j].awayOn = Today]
        \/ store' = [s EXCEPT !.chats[j] = [Fresh EXCEPT !.awayOn = Today]]
    BY <1>7 DEF SendAway
  <2>5. awaySent' \subseteq Jid
    BY <1>7, <2>1 DEF SendAway, TInv, TypeOK
  <2>6. handler' \in [Handlers -> Handling] /\ check' \in [Checks -> Judging] /\ Named'
    BY <1>2, <1>7, Staged DEF SendAway
  <2> HIDE DEF j, s
  <2>7. store' \in Store /\ store'.log = s.log
    <3>1. CASE store' = s
      BY <2>2, <3>1
    <3>2. CASE store' = [s EXCEPT !.chats[j].awayOn = Today]
      <4>1. [s.chats[j] EXCEPT !.awayOn = Today] \in Chat
        BY <2>1, <2>2, <2>3 DEF Store, Chat
      <4> QED
        BY <2>1, <2>2, <3>2, <4>1 DEF Store
    <3>3. CASE store' = [s EXCEPT !.chats[j] = [Fresh EXCEPT !.awayOn = Today]]
      <4>1. [Fresh EXCEPT !.awayOn = Today] \in Chat
        BY <2>3 DEF Fresh, Chat
      <4> QED
        BY <2>1, <2>2, <3>3, <4>1 DEF Store
    <3> QED
      BY <2>4, <3>1, <3>2, <3>3
  <2>8. Len(store'.log) >= Len(store.log)
    BY <1>1, <2>2, <2>7
  <2> QED
    BY <1>7, <2>5, <2>6, <2>7, <2>8, SameTimes, StillTyped DEF SendAway, spent, TInv, TypeOK
<1>8. CASE GiveUp(h)
  <2>1. handler' \in [Handlers -> Handling] /\ check' \in [Checks -> Judging] /\ Named'
    BY <1>2, <1>8, Staged DEF GiveUp
  <2> QED
    BY <1>1, <1>8, <2>1, SameTimes, StillTyped DEF GiveUp, spent, history, TInv, TypeOK
<1> QED
  BY <1>4, <1>5, <1>6, <1>7, <1>8 DEF Step

LEMMA HumanTyped == ASSUME TInv, NEW j \in Jid, HumanWrites(j) PROVE TInv'
<1> DEFINE s == Add(store, j, TRUE)
<1>1. store \in Store /\ Len(store.log) \in Nat
  BY DEF TInv, TypeOK, Store
<1>2. s \in Store /\ Len(s.log) = Len(store.log) + 1
  BY <1>1, AddStore
<1>3. store' = Pause(s, j, TRUE)
  BY DEF HumanWrites
<1> HIDE DEF s
<1>4. Pause(s, j, TRUE) \in Store /\ Pause(s, j, TRUE).log = s.log
  BY <1>2, PauseStore
<1>5. store' \in Store
  BY <1>3, <1>4
<1>6. store'.log = s.log
  BY <1>3, <1>4
<1>7. Len(store'.log) >= Len(store.log)
  BY <1>1, <1>2, <1>6
<1>8. handler' \in [Handlers -> Handling] /\ check' \in [Checks -> Judging] /\ Named'
  BY SameWork DEF HumanWrites
<1>9. incidents' \in 0 .. MaxIncidents
  BY Incidents DEF HumanWrites
<1> QED
  BY <1>5, <1>7, <1>8, <1>9, SameTimes, StillTyped DEF HumanWrites, TInv, TypeOK

LEMMA ToggleTyped == ASSUME TInv, NEW j \in Jid, NEW b \in BOOLEAN, ToggleChatAI(j, b) PROVE TInv'
<1>1. store \in Store /\ Len(store.log) \in Nat
  BY DEF TInv, TypeOK, Store
<1>2. Pause(store, j, b) \in Store /\ Pause(store, j, b).log = store.log
  BY <1>1, PauseStore
<1>3. store' \in Store /\ Len(store'.log) >= Len(store.log)
  BY <1>1, <1>2 DEF ToggleChatAI
<1>4. handler' \in [Handlers -> Handling] /\ check' \in [Checks -> Judging] /\ Named'
  BY SameWork DEF ToggleChatAI
<1>5. incidents' \in 0 .. MaxIncidents
  BY Incidents DEF ToggleChatAI
<1>6. held' \subseteq Jid /\ split' \subseteq Contacts
  BY Ids DEF ToggleChatAI, TInv, TypeOK
<1> QED
  BY <1>3, <1>4, <1>5, <1>6, SameTimes, StillTyped DEF ToggleChatAI, TInv, TypeOK

LEMMA LoseTyped == ASSUME TInv, NEW js \in SUBSET Jid, Lose(js)
                   PROVE  handler' \in [Handlers -> Handling] /\ check' \in [Checks -> Judging] /\ Named'
<1>1. ASSUME NEW h \in Handlers
      PROVE  /\ handler'[h] \in Handling
             /\ handler'[h].stage = handler[h].stage /\ handler'[h].jid = handler[h].jid
  BY DEF Lose, TInv, TypeOK, Handling
<1>2. ASSUME NEW k \in Checks
      PROVE  /\ check'[k] \in Judging
             /\ check'[k].stage = check[k].stage /\ check'[k].jid = check[k].jid
  <2>1. check[k] \in Judging
    BY DEF TInv, TypeOK
  <2>2. check'[k] = [check[k] EXCEPT !.rec = IF check[k].jid \in js THEN "lost" ELSE @,
                                     !.visited = @ \ js]
    BY DEF Lose
  <2> QED
    BY <2>1, <2>2 DEF Judging
<1>3. handler' \in [Handlers -> Handling]
  BY <1>1 DEF Lose
<1>4. check' \in [Checks -> Judging]
  <2>1. check' = [k \in Checks |-> check'[k]]
    BY DEF Lose
  <2> QED
    BY <1>2, <2>1
<1> QED
  BY <1>1, <1>2, <1>3, <1>4 DEF Named, TInv

LEMMA ForgetTyped == ASSUME TInv, NEW js \in SUBSET Jid, Forget(js)
                     PROVE  /\ held' \subseteq Jid /\ awaySent' \subseteq Jid
                            /\ followUpAt' \in [Jid -> 0 .. Len(store.log)]
<1>1. Len(store.log) \in Nat
  BY DEF TInv, TypeOK, Store
<1> QED
  BY <1>1 DEF Forget, TInv, TypeOK

LEMMA DeleteTyped == ASSUME TInv, NEW j \in Jid, DeleteChat(j) PROVE TInv'
<1> DEFINE K == Known(store, j)
           s == Remove(store, K)
<1>1. store \in Store /\ Len(store.log) \in Nat
  BY DEF TInv, TypeOK, Store
<1>2. K \in SUBSET Jid
  BY KnownIds
<1>3. store' = [s EXCEPT !.mapped = @ \ {j[1]}] /\ Lose(K) /\ Forget(K)
  BY DEF DeleteChat
<1>4. judgedAt' \in [Jid -> 0 .. Len(store.log)]
  BY <1>1 DEF DeleteChat, TInv, TypeOK
<1> HIDE DEF K
<1>5. s \in Store /\ Len(s.log) = Len(store.log)
  BY <1>1, <1>2, RemoveStore
<1> HIDE DEF s
<1>6. store' \in Store /\ store'.log = s.log
  BY <1>3, <1>5 DEF Store
<1>7. Len(store'.log) = Len(store.log)
  BY <1>5, <1>6
<1>8. handler' \in [Handlers -> Handling] /\ check' \in [Checks -> Judging] /\ Named'
  BY <1>2, <1>3, LoseTyped
<1>9. /\ held' \subseteq Jid /\ awaySent' \subseteq Jid
      /\ followUpAt' \in [Jid -> 0 .. Len(store'.log)] /\ judgedAt' \in [Jid -> 0 .. Len(store'.log)]
  BY <1>2, <1>3, <1>4, <1>7, ForgetTyped
<1>10. incidents' \in 0 .. MaxIncidents
  BY Incidents DEF DeleteChat, Deletable
<1>11. Len(store'.log) >= Len(store.log)
  BY <1>1, <1>7
<1> QED
  BY <1>6, <1>8, <1>9, <1>10, <1>11, StillTyped DEF DeleteChat, TInv, TypeOK

LEMMA PhoneTyped == ASSUME TInv, NEW j \in Jid, PhoneDeletes(j) PROVE TInv'
<1> DEFINE s == Remove(store, {j})
<1>1. store \in Store /\ Len(store.log) \in Nat
  BY DEF TInv, TypeOK, Store
<1>2. {j} \in SUBSET Jid /\ Known(store, j) \in SUBSET Jid
  BY KnownIds
<1>3. store' = s /\ Lose({j}) /\ Forget(Known(store, j))
  BY DEF PhoneDeletes
<1>4. judgedAt' \in [Jid -> 0 .. Len(store.log)]
  BY <1>1 DEF PhoneDeletes, TInv, TypeOK
<1>5. s \in Store /\ Len(s.log) = Len(store.log)
  BY <1>1, <1>2, RemoveStore
<1> HIDE DEF s
<1>6. store' \in Store /\ Len(store'.log) = Len(store.log)
  BY <1>3, <1>5
<1>7. handler' \in [Handlers -> Handling] /\ check' \in [Checks -> Judging] /\ Named'
  BY <1>2, <1>3, LoseTyped
<1>8. /\ held' \subseteq Jid /\ awaySent' \subseteq Jid
      /\ followUpAt' \in [Jid -> 0 .. Len(store'.log)] /\ judgedAt' \in [Jid -> 0 .. Len(store'.log)]
  BY <1>2, <1>3, <1>4, <1>6, ForgetTyped
<1>9. incidents' \in 0 .. MaxIncidents
  BY Incidents DEF PhoneDeletes, Deletable
<1>10. split' \subseteq Contacts
  BY Ids DEF PhoneDeletes, TInv, TypeOK
<1>11. Len(store'.log) >= Len(store.log)
  BY <1>1, <1>6
<1> QED
  BY <1>6, <1>7, <1>8, <1>9, <1>10, <1>11, StillTyped DEF PhoneDeletes, TInv, TypeOK

LEMMA TellTyped == ASSUME TInv, NEW c \in Contacts, TellMapping(c) PROVE TInv'
<1>1. store \in Store /\ Len(store.log) \in Nat
  BY DEF TInv, TypeOK, Store
<1>2. HeldPaused(store, {})
  BY DEF HeldPaused
<1>3. Learn(store, c) \in Store /\ Learn(store, c).log = store.log
  BY <1>1, <1>2, LearnStore
<1>4. store' \in Store /\ Len(store'.log) >= Len(store.log)
  BY <1>1, <1>3 DEF TellMapping
<1>5. handler' \in [Handlers -> Handling] /\ check' \in [Checks -> Judging] /\ Named'
  BY SameWork DEF TellMapping
<1>6. split' \subseteq Contacts
  BY <1>4, LateTyped DEF TellMapping
<1> QED
  BY <1>4, <1>5, <1>6, SameTimes, StillTyped DEF TellMapping, spent, TInv, TypeOK

LEMMA Scanned ==
    ASSUME TInv, NEW k \in Checks, NEW s \in Store, NEW visited \in SUBSET Jid,
           NEW processed \in SUBSET Jid, UNCHANGED handler,
           check' = [check EXCEPT ![k] = Scan(s, visited, processed)]
    PROVE  handler' \in [Handlers -> Handling] /\ check' \in [Checks -> Judging] /\ Named'
<1>1. Ended \in Judging /\ Ended.stage = "off"
  BY DEF Ended, Judging
<1> DEFINE r == Scan(s, visited, processed)
<1>2. r \in Judging /\ (r.stage # "off" => r.jid \in Jid)
  BY <1>1, ScanPicks
<1> HIDE DEF r
<1>3. check' = [check EXCEPT ![k] = r]
  BY DEF r
<1>4. handler' \in [Handlers -> Handling] /\ check' \in [Checks -> Judging]
  BY <1>2, <1>3 DEF TInv, TypeOK
<1> QED
  BY <1>2, <1>3, <1>4 DEF Named, TInv, TypeOK

LEMMA StartTyped == ASSUME TInv, StartCheck PROVE TInv'
<1>1. Free(Checks, check) \in Checks
  BY DEF StartCheck, Free
<1>2. store \in Store /\ Len(store.log) \in Nat /\ store' = store
  BY DEF TInv, TypeOK, Store, StartCheck
<1>3. handler' \in [Handlers -> Handling] /\ check' \in [Checks -> Judging] /\ Named'
  <2>1. {} \in SUBSET Jid
    OBVIOUS
  <2> QED
    BY <1>1, <1>2, <2>1, Scanned DEF StartCheck
<1>4. incidents' \in 0 .. MaxIncidents
  BY Incidents DEF StartCheck, TInv, TypeOK
<1> QED
  BY <1>2, <1>3, <1>4, SameTimes, StillTyped DEF StartCheck, history, TInv, TypeOK

LEMMA JudgeStore ==
    ASSUME TInv, NEW k \in Checks, Judge(k)
    PROVE  /\ store' \in Store /\ Len(store'.log) >= Len(store.log)
           /\ store'.mapped = store.mapped /\ Keeps(store, store')
<1>1. store \in Store /\ Len(store.log) \in Nat
  BY DEF TInv, TypeOK, Store
<1>2. check[k].stage # "off" /\ check[k].jid \in Jid /\ check[k].last \in Nat
  BY DEF Judge, TInv, TypeOK, Named, Judging
<1>3. CASE FollowUp(k)
  <2> DEFINE s == Add(store, check[k].jid, TRUE)
             t == Mark(s, k, Len(s.log))
  <2>1. s \in Store /\ Len(s.log) = Len(store.log) + 1
    BY <1>1, <1>2, AddStore
  <2>2. s.mapped = store.mapped /\ Keeps(store, s)
    BY <1>1, <1>2, AddStore
  <2>3. store' = t
    BY <1>3 DEF FollowUp
  <2> HIDE DEF s
  <2>10. Len(s.log) \in Nat
    BY <1>1, <2>1
  <2>4. t \in Store /\ t.log = s.log /\ t.mapped = s.mapped /\ t.place = s.place
    BY <1>2, <2>1, <2>10, MarkStore
  <2>5. \A j \in Jid : t.chats[j].paused = s.chats[j].paused
    BY <1>2, <2>1, <2>10, MarkStore
  <2> HIDE DEF t
  <2>6. Keeps(s, t)
    BY <2>4, <2>5 DEF Keeps, Has
  <2>7. Len(t.log) >= Len(store.log)
    BY <1>1, <2>1, <2>4
  <2>8. Keeps(store, t)
    BY <2>2, <2>6, KeepsTwice
  <2> QED
    BY <2>2, <2>3, <2>4, <2>7, <2>8
<1>4. CASE LetBe(k)
  <2> DEFINE t == Mark(store, k, check[k].last)
  <2>1. t \in Store /\ t.log = store.log /\ t.mapped = store.mapped /\ t.place = store.place
    BY <1>1, <1>2, MarkStore
  <2>2. \A j \in Jid : t.chats[j].paused = store.chats[j].paused
    BY <1>1, <1>2, MarkStore
  <2>3. store' = t
    BY <1>4 DEF LetBe
  <2> HIDE DEF t
  <2>4. Keeps(store, t)
    BY <2>1, <2>2 DEF Keeps, Has
  <2> QED
    BY <1>1, <2>1, <2>3, <2>4
<1>5. CASE Leave(k)
  BY <1>1, <1>5 DEF Leave, Keeps
<1> QED
  BY <1>3, <1>4, <1>5 DEF Judge

LEMMA JudgeTyped == ASSUME TInv, NEW k \in Checks, Judge(k) PROVE TInv'
<1>1. store' \in Store /\ Len(store'.log) >= Len(store.log)
  BY JudgeStore
<1>2. check[k].visited \in SUBSET Jid /\ check[k].processed \in SUBSET Jid
  BY DEF TInv, TypeOK, Judging
<1>3. handler' \in [Handlers -> Handling] /\ check' \in [Checks -> Judging] /\ Named'
  BY <1>1, <1>2, Scanned DEF Judge
<1>4. incidents' \in 0 .. MaxIncidents
  BY Incidents DEF Judge, FollowUp, LetBe, Leave, TInv, TypeOK
<1>5. followUpAt' \in [Jid -> 0 .. Len(store'.log)] /\ judgedAt' \in [Jid -> 0 .. Len(store'.log)]
  <2>1. followUpAt \in [Jid -> 0 .. Len(store'.log)] /\ judgedAt \in [Jid -> 0 .. Len(store'.log)]
    BY <1>1, SameTimes
  <2>2. Len(store.log) \in 0 .. Len(store'.log)
    BY <1>1 DEF TInv, TypeOK, Store
  <2>3. CASE FollowUp(k)
    <3> DEFINE s == Add(store, check[k].jid, TRUE)
    <3>1. check[k].jid \in Jid /\ check[k].stage # "off"
      BY DEF Judge, TInv, Named
    <3>6. store \in Store
      BY DEF TInv, TypeOK
    <3>2. s \in Store
      BY <3>6, <3>1, AddStore
    <3>3. store' = Mark(s, k, Len(s.log))
      BY <2>3 DEF FollowUp
    <3> HIDE DEF s
    <3>7. Len(s.log) \in Nat
      BY <3>2 DEF Store
    <3>4. store'.log = s.log
      BY <3>1, <3>2, <3>7, <3>3, MarkStore
    <3>8. Len(store'.log) = Len(s.log)
      BY <3>4
    <3>5. Len(s.log) \in 0 .. Len(store'.log)
      BY <3>7, <3>8
    <3> USE DEF s
    <3> QED
      BY <2>1, <2>3, <3>5 DEF FollowUp
  <2>4. CASE LetBe(k)
    BY <2>1, <2>2, <2>4 DEF LetBe
  <2>5. CASE Leave(k)
    BY <2>1, <2>5 DEF Leave
  <2> QED
    BY <2>3, <2>4, <2>5 DEF Judge
<1> QED
  BY <1>1, <1>3, <1>4, <1>5, StillTyped DEF Judge, TInv, TypeOK

LEMMA TimeTyped == ASSUME TInv, HoursPass \/ DelayPasses \/ Reconnect PROVE TInv'
<1>1. store \in Store /\ Len(store.log) \in Nat
  BY DEF TInv, TypeOK, Store
<1>2. CASE HoursPass
  <2>1. handler' \in [Handlers -> Handling] /\ check' \in [Checks -> Judging] /\ Named'
    BY <1>2, SameWork DEF HoursPass
  <2>2. incidents' \in 0 .. MaxIncidents
    BY <1>2, Incidents DEF HoursPass
  <2> QED
    BY <1>1, <1>2, <2>1, <2>2, SameTimes, StillTyped DEF HoursPass, TInv, TypeOK
<1>3. CASE DelayPasses
  <2>1. handler' \in [Handlers -> Handling] /\ check' \in [Checks -> Judging] /\ Named'
    BY <1>3, SameWork DEF DelayPasses
  <2> QED
    BY <1>1, <1>3, <2>1 DEF DelayPasses, history, spent, TInv, TypeOK
<1>4. CASE Reconnect
  <2>1. Done \in Handling /\ Ended \in Judging /\ Done.stage = "off" /\ Ended.stage = "off"
    BY DEF Done, Handling, Ended, Judging
  <2>2. handler' \in [Handlers -> Handling] /\ check' \in [Checks -> Judging] /\ Named'
    BY <1>4, <2>1 DEF Reconnect, Named
  <2>3. incidents' \in 0 .. MaxIncidents
    BY <1>4, Incidents DEF Reconnect
  <2> QED
    BY <1>1, <1>4, <2>2, <2>3, SameTimes, StillTyped DEF Reconnect, history, TInv, TypeOK
<1> QED
  BY <1>2, <1>3, <1>4

LEMMA NextTyped == ASSUME TInv, [Next]_vars PROVE TInv'
<1>1. CASE UNCHANGED vars
  BY <1>1 DEF vars, TInv, TypeOK, Named
<1>2. CASE Next
  BY <1>2, CustomerTyped, HumanTyped, DeleteTyped, PhoneTyped, ToggleTyped, TellTyped, StepTyped,
     JudgeTyped, StartTyped, TimeTyped DEF Next
<1> QED
  BY <1>1, <1>2

\* The store, the messages in the works and the checks have their type: above all, what the
\* store keeps of a chat, its messages and its alias is of one shape whoever writes it, and
\* what a check decides on is a message that is in the log.
THEOREM InboxTyped == Spec => []TypeOK
<1>1. Spec => []TInv
  BY InitTyped, NextTyped, PTL DEF Spec
<1> QED
  BY <1>1, PTL DEF TInv

-----------------------------------------------------------------------------
(* A takeover holds *)

\* A message whose chatbot is looked up has a record in the store, and an away message that
\* is being typed is marked in a record that was there, never in a new one.
Sound(s, r) == /\ r.stage \in {"resolving", "choosing"} => Has(s, r.jid)
               /\ r.stage = "away" => r.rec # "none"

Recorded == \A h \in Handlers : Sound(store, handler[h])

IInv == TInv /\ HeldPaused(store, held) /\ Recorded

LEMMA StillRecorded ==
    ASSUME IInv, \A j \in Jid : Has(store, j) => Has(store', j),
           \A h \in Handlers : handler'[h] = handler[h] \/ Sound(store', handler'[h])
    PROVE  Recorded'
<1> SUFFICES ASSUME NEW h \in Handlers, handler'[h] = handler[h] PROVE Sound(store', handler'[h])
  BY DEF Recorded
<1>1. handler[h].stage # "off" => handler[h].jid \in Jid
  BY DEF IInv, TInv, Named
<1> QED
  BY <1>1 DEF IInv, Recorded, Sound

LEMMA MaybeLearnHeld ==
    ASSUME NEW s \in Store, NEW c \in Contacts, NEW h \in SUBSET Jid, HeldPaused(s, h),
           NEW named \in BOOLEAN
    PROVE  LET t == IF named THEN Learn(s, c) ELSE s
           IN  t \in Store /\ HeldPaused(t, h) /\ Keeps(s, t)
<1>1. Keeps(s, s)
  BY DEF Keeps
<1> QED
  BY <1>1, LearnStore

LEMMA CustomerHeld ==
    ASSUME IInv, NEW j \in Jid, CustomerWrites(j)
    PROVE  HeldPaused(store', held') /\ Recorded'
<1>1. j[1] \in Contacts /\ store \in Store /\ held \in SUBSET Jid
  BY Ids DEF IInv, TInv, TypeOK
<1>2. PICK named \in BOOLEAN : store' = Add(IF named THEN Learn(store, j[1]) ELSE store, j, FALSE)
  BY DEF CustomerWrites
<1> DEFINE t == IF named THEN Learn(store, j[1]) ELSE store
<1>3. t \in Store /\ HeldPaused(t, held) /\ Keeps(store, t)
  BY <1>1, MaybeLearnHeld DEF IInv
<1>4. store' = Add(t, j, FALSE)
  BY <1>2
<1> HIDE DEF t
<1>5. /\ Add(t, j, FALSE).mapped = t.mapped /\ Has(Add(t, j, FALSE), j)
      /\ Keeps(t, Add(t, j, FALSE))
  BY <1>3, AddStore
<1>6. HeldPaused(store', held')
  BY <1>1, <1>3, <1>4, <1>5, KeepsHeld DEF CustomerWrites
<1>7. Keeps(store, store') /\ Has(store', j)
  BY <1>3, <1>4, <1>5, KeepsTwice
<1>8. ASSUME NEW h \in Handlers PROVE handler'[h] = handler[h] \/ Sound(store', handler'[h])
  <2>1. CASE handler'[h] = handler[h]
    BY <2>1
  <2>2. CASE handler'[h] # handler[h]
    <3>1. handler'[h].jid = j /\ handler'[h].stage # "away"
      BY <2>2 DEF CustomerWrites, Done, IInv, TInv, TypeOK
    <3> QED
      BY <1>7, <3>1 DEF Sound
  <2> QED
    BY <2>1, <2>2
<1>9. Recorded'
  BY <1>7, <1>8, StillRecorded DEF Keeps
<1> QED
  BY <1>6, <1>9

LEMMA StepHeld ==
    ASSUME IInv, NEW h \in Handlers, Step(h)
    PROVE  HeldPaused(store', held') /\ Recorded'
<1>1. store \in Store /\ held \in SUBSET Jid /\ handler[h] \in Handling /\ HeldPaused(store, held)
  BY DEF IInv, TInv, TypeOK
<1>2. held' = held
  BY DEF Step, Resolve, Choose, Answer, SendAway, GiveUp, history
<1>3. \A i \in Handlers \ {h} : handler'[i] = handler[i]
  BY DEF Step, Resolve, Choose, Accept, Answer, SendAway, GiveUp, IInv, TInv, TypeOK
<1>4. handler[h].stage # "off" /\ handler[h].jid \in Jid
  BY DEF Step, Resolve, Choose, Answer, SendAway, GiveUp, IInv, TInv, Named
<1>5. Sound(store, handler[h])
  BY DEF IInv, Recorded
<1>6. Done.stage = "off"
  BY DEF Done
<1>7. /\ HeldPaused(store', held)
      /\ \A j \in Jid : Has(store, j) => Has(store', j)
      /\ Sound(store', handler'[h])
  <2>1. CASE Resolve(h)
    <3>1. handler[h].jid[1] \in Contacts
      BY <1>4, Ids
    <3>2. HeldPaused(store', held) /\ Keeps(store, store')
      BY <1>1, <2>1, <3>1, MaybeLearnHeld DEF Resolve
    <3>3. handler'[h].stage = "choosing" /\ handler'[h].jid = handler[h].jid
      BY <1>1, <2>1 DEF Resolve, Handling, IInv, TInv, TypeOK
    <3>4. Has(store', handler[h].jid)
      BY <1>4, <1>5, <2>1, <3>2 DEF Resolve, Sound, Keeps
    <3> QED
      BY <3>2, <3>3, <3>4 DEF Keeps, Sound
  <2>2. CASE Choose(h)
    <3>1. Has(store, handler[h].jid) /\ store' = store
      BY <1>5, <2>2 DEF Choose, Sound
    <3>2. \/ handler'[h] = Done
          \/ handler'[h].stage = "replying"
          \/ handler'[h].stage = "away" /\ handler'[h].rec = "kept"
      BY <1>1, <2>2, <3>1 DEF Choose, Accept, Handling, IInv, TInv, TypeOK
    <3> QED
      BY <1>1, <1>6, <3>1, <3>2 DEF Sound
  <2>3. CASE Answer(h)
    <3> DEFINE t == Add(store, handler[h].jid, TRUE)
    <3>1. t.mapped = store.mapped /\ Keeps(store, t)
      BY <1>1, <1>4, AddStore
    <3>2. store' = t /\ handler'[h] = Done
      BY <2>3 DEF Answer, IInv, TInv, TypeOK
    <3> HIDE DEF t
    <3>3. HeldPaused(t, held)
      BY <1>1, <3>1, KeepsHeld
    <3> QED
      BY <1>6, <3>1, <3>2, <3>3 DEF Sound, Keeps
  <2>4. CASE SendAway(h)
    <3> DEFINE j == handler[h].jid
               t == Add(store, j, TRUE)
    <3>1. t \in Store /\ t.mapped = store.mapped /\ Keeps(store, t)
      BY <1>1, <1>4, AddStore
    <3>2. handler[h].rec # "none" /\ j \in Jid
      BY <1>4, <1>5, <2>4 DEF SendAway, Sound
    <3>3. store' = t \/ store' = [t EXCEPT !.chats[j].awayOn = Today]
      BY <2>4, <3>2 DEF SendAway
    <3>4. handler'[h] = Done
      BY <2>4 DEF SendAway, IInv, TInv, TypeOK
    <3> HIDE DEF j, t
    <3>5. store'.mapped = t.mapped /\ Keeps(t, store')
      <4>1. CASE store' = t
        BY <4>1 DEF Keeps
      <4>2. CASE store' = [t EXCEPT !.chats[j].awayOn = Today]
        <5>1. store'.mapped = t.mapped /\ store'.place = t.place
          BY <3>1, <4>2 DEF Store
        <5>2. \A i \in Jid : store'.chats[i].paused = t.chats[i].paused
          BY <3>1, <3>2, <4>2 DEF Store, Chat
        <5> QED
          BY <5>1, <5>2 DEF Keeps, Has
      <4> QED
        BY <3>3, <4>1, <4>2
    <3>6. Keeps(store, store')
      BY <3>1, <3>5, KeepsTwice
    <3>7. HeldPaused(store', held)
      BY <1>1, <3>1, <3>5, <3>6, KeepsHeld
    <3> QED
      BY <1>6, <3>4, <3>6, <3>7 DEF Sound, Keeps
  <2>5. CASE GiveUp(h)
    <3>1. store' = store /\ handler'[h] = Done
      BY <2>5 DEF GiveUp, IInv, TInv, TypeOK
    <3> QED
      BY <1>1, <1>6, <3>1 DEF Sound
  <2> QED
    BY <2>1, <2>2, <2>3, <2>4, <2>5 DEF Step
<1> QED
  BY <1>2, <1>3, <1>7, StillRecorded

LEMMA HumanHeld ==
    ASSUME IInv, NEW j \in Jid, HumanWrites(j)
    PROVE  HeldPaused(store', held') /\ Recorded'
<1> DEFINE s == Add(store, j, TRUE)
<1>1. store \in Store /\ held \in SUBSET Jid /\ HeldPaused(store, held)
  BY DEF IInv, TInv, TypeOK
<1>2. s \in Store /\ s.mapped = store.mapped /\ Keeps(store, s)
  BY <1>1, AddStore
<1>3. store' = Pause(s, j, TRUE) /\ held' = held \cup {j} /\ UNCHANGED handler
  BY DEF HumanWrites, work
<1> HIDE DEF s
<1>4. HeldPaused(s, held)
  BY <1>1, <1>2, KeepsHeld
<1>5. HeldPaused(store', held')
  BY <1>1, <1>2, <1>3, <1>4, PauseHeld
<1>6. \A i \in Jid : Has(s, i) => Has(store', i)
  BY <1>2, <1>3, PauseStore
<1>7. \A i \in Jid : Has(store, i) => Has(store', i)
  BY <1>2, <1>6 DEF Keeps
<1> QED
  BY <1>3, <1>5, <1>7, StillRecorded

LEMMA ToggleHeld ==
    ASSUME IInv, NEW j \in Jid, NEW b \in BOOLEAN, ToggleChatAI(j, b)
    PROVE  HeldPaused(store', held') /\ Recorded'
<1>1. store \in Store /\ held \in SUBSET Jid /\ HeldPaused(store, held)
  BY DEF IInv, TInv, TypeOK
<1>2. store' = Pause(store, j, b) /\ UNCHANGED handler
  BY DEF ToggleChatAI, work
<1>3. held' = IF b THEN held \cup {j} ELSE held \ Known(store, j)
  BY DEF ToggleChatAI
<1>4. HeldPaused(store', held')
  BY <1>1, <1>2, <1>3, PauseHeld
<1>5. \A i \in Jid : Has(store, i) => Has(store', i)
  BY <1>1, <1>2, PauseStore
<1> QED
  BY <1>2, <1>4, <1>5, StillRecorded

\* Nothing is looked up when a chat is deleted, and what is kept of it is not lost unnoticed.
LEMMA LoseRecorded ==
    ASSUME IInv, NEW js \in SUBSET Jid, Lose(js),
           \A h \in Handlers : handler[h].stage \notin {"resolving", "choosing"}
    PROVE  Recorded'
<1> SUFFICES ASSUME NEW h \in Handlers PROVE Sound(store', handler'[h])
  BY DEF Recorded
<1>1. handler[h] \in Handling /\ Sound(store, handler[h])
  BY DEF IInv, TInv, TypeOK, Recorded
<1>2. handler'[h].stage = handler[h].stage
      /\ (handler'[h].rec = handler[h].rec \/ handler'[h].rec = "lost")
  BY <1>1 DEF Lose, Handling
<1> QED
  BY <1>1, <1>2 DEF Sound

LEMMA DeleteHeld ==
    ASSUME IInv, MayRace = FALSE, NEW j \in Jid, DeleteChat(j)
    PROVE  HeldPaused(store', held') /\ Recorded'
<1> DEFINE K == Known(store, j)
           s == Remove(store, K)
<1>1. store \in Store /\ held \in SUBSET Jid /\ HeldPaused(store, held)
  BY DEF IInv, TInv, TypeOK
<1>2. K \in SUBSET Jid /\ j \in K /\ \A i \in K : i[1] = j[1]
  BY Ids, KnownIds
<1>3. store' = [s EXCEPT !.mapped = @ \ {j[1]}] /\ Lose(K) /\ held' = held \ K
  BY DEF DeleteChat, Forget
<1>4. \A h \in Handlers : handler[h].stage \notin {"resolving", "choosing"}
  BY DEF DeleteChat, Deletable
<1> HIDE DEF K
<1>5. /\ s \in Store /\ s.mapped = store.mapped
      /\ \A i \in Jid \ K : s.place[i] = store.place[i] /\ s.chats[i] = store.chats[i]
  BY <1>1, <1>2, RemoveStore
<1> HIDE DEF s
<1>6. store'.place = s.place /\ store'.chats = s.chats /\ store'.mapped = store.mapped \ {j[1]}
  BY <1>3, <1>5 DEF Store
<1>7. ASSUME NEW i \in held \ K
      PROVE  /\ Has(store', i) /\ store'.chats[i].paused
             /\ i[1] \in store'.mapped => Has(store', Other(i)) /\ store'.chats[Other(i)].paused
  <2>1. Has(store', i) /\ store'.chats[i].paused
    BY <1>1, <1>5, <1>6 DEF HeldPaused, Has
  <2>2. ASSUME i[1] \in store'.mapped
        PROVE  Has(store', Other(i)) /\ store'.chats[Other(i)].paused
    <3>1. Other(i) \in Jid \ K
      BY <1>1, <1>2, <1>6, <2>2, Ids
    <3>2. Has(store, Other(i)) /\ store.chats[Other(i)].paused
      BY <1>1, <1>6, <2>2 DEF HeldPaused
    <3> QED
      BY <1>5, <1>6, <3>1, <3>2 DEF Has
  <2> QED
    BY <2>1, <2>2
<1>8. HeldPaused(store', held')
  BY <1>3, <1>7 DEF HeldPaused
<1> QED
  BY <1>2, <1>3, <1>4, <1>8, LoseRecorded

LEMMA PhoneHeld ==
    ASSUME IInv, MayRace = FALSE, NEW j \in Jid, PhoneDeletes(j)
    PROVE  HeldPaused(store', held') /\ Recorded'
<1> DEFINE s == Remove(store, {j})
<1>1. store \in Store /\ held \in SUBSET Jid /\ HeldPaused(store, held)
  BY DEF IInv, TInv, TypeOK
<1>2. store' = s /\ Lose({j}) /\ held' = held \ Known(store, j)
  BY DEF PhoneDeletes, Forget
<1>3. \A h \in Handlers : handler[h].stage \notin {"resolving", "choosing"}
  BY DEF PhoneDeletes, Deletable
<1>4. {j} \in SUBSET Jid
  OBVIOUS
<1>5. /\ s.mapped = store.mapped
      /\ \A i \in Jid \ {j} : s.place[i] = store.place[i] /\ s.chats[i] = store.chats[i]
  BY <1>1, <1>4, RemoveStore
<1> HIDE DEF s
<1>6. ASSUME NEW i \in held \ Known(store, j)
      PROVE  /\ Has(store', i) /\ store'.chats[i].paused
             /\ i[1] \in store'.mapped => Has(store', Other(i)) /\ store'.chats[Other(i)].paused
  <2>1. i \in Jid /\ i # j
    BY <1>1, KnownIds
  <2>2. Has(store', i) /\ store'.chats[i].paused
    BY <1>1, <1>2, <1>5, <2>1 DEF HeldPaused, Has
  <2>3. ASSUME i[1] \in store'.mapped
        PROVE  Has(store', Other(i)) /\ store'.chats[Other(i)].paused
    <3>1. i[1] \in store.mapped
      BY <1>2, <1>5, <2>3
    <3>2. Other(i) \in Jid \ {j}
      BY <2>1, <3>1, Ids, KnownIds
    <3>3. Has(store, Other(i)) /\ store.chats[Other(i)].paused
      BY <1>1, <3>1 DEF HeldPaused
    <3> QED
      BY <1>2, <1>5, <3>2, <3>3 DEF Has
  <2> QED
    BY <2>2, <2>3
<1>7. HeldPaused(store', held')
  BY <1>2, <1>6 DEF HeldPaused
<1> QED
  BY <1>2, <1>3, <1>4, <1>7, LoseRecorded

LEMMA RestHeld ==
    ASSUME IInv,
           \/ \E c \in Contacts : TellMapping(c)
           \/ \E k \in Checks : Judge(k)
           \/ StartCheck \/ HoursPass \/ DelayPasses \/ Reconnect
           \/ UNCHANGED vars
    PROVE  HeldPaused(store', held') /\ Recorded'
<1>1. store \in Store /\ held \in SUBSET Jid /\ HeldPaused(store, held)
  BY DEF IInv, TInv, TypeOK
<1>2. CASE \E c \in Contacts : TellMapping(c)
  <2>1. PICK c \in Contacts : TellMapping(c)
    BY <1>2
  <2>2. Keeps(store, store') /\ HeldPaused(store', held)
    BY <1>1, <2>1, LearnStore DEF TellMapping
  <2> QED
    BY <2>1, <2>2, StillRecorded DEF TellMapping, work, Keeps
<1>3. CASE \E k \in Checks : Judge(k)
  <2>1. PICK k \in Checks : Judge(k)
    BY <1>3
  <2>2. store'.mapped = store.mapped /\ Keeps(store, store')
    BY <2>1, JudgeStore DEF IInv
  <2>3. HeldPaused(store', held)
    BY <1>1, <2>2, KeepsHeld
  <2> QED
    BY <2>1, <2>2, <2>3, StillRecorded DEF Judge, Keeps
<1>4. CASE Reconnect
  <2>1. store' = store /\ held' = held /\ \A h \in Handlers : handler'[h].stage = "off"
    BY <1>4 DEF Reconnect, history, Done
  <2> QED
    BY <1>1, <2>1 DEF Recorded, Sound
<1>5. CASE StartCheck \/ HoursPass \/ DelayPasses \/ UNCHANGED vars
  <2>1. store' = store /\ held' = held /\ handler' = handler
    BY <1>5 DEF StartCheck, HoursPass, DelayPasses, vars, work, history
  <2> QED
    BY <1>1, <2>1 DEF Recorded, IInv
<1> QED
  BY <1>2, <1>3, <1>4, <1>5

LEMMA NextHeld == ASSUME IInv, MayRace = FALSE, [Next]_vars PROVE IInv'
<1>1. TInv'
  BY NextTyped DEF IInv
<1>2. HeldPaused(store', held') /\ Recorded'
  BY CustomerHeld, StepHeld, HumanHeld, ToggleHeld, DeleteHeld, PhoneHeld, RestHeld DEF Next
<1> QED
  BY <1>1, <1>2 DEF IInv

\* What is accepted, and what is judged.
LEMMA TakeoverStep ==
    ASSUME IInv, IInv', Next
    PROVE  /\ \A h \in Handlers : Accepts(h) => Known(store', handler'[h].jid) \cap held = {}
           /\ \A k \in Checks : Picks(k) => Known(store', check'[k].jid) \cap held = {}
<1>1. /\ handler \in [Handlers -> Handling] /\ check \in [Checks -> Judging]
      /\ store \in Store /\ store' \in Store
      /\ HeldPaused(store', held')
  BY DEF IInv, TInv, TypeOK
<1>2. Done.stage = "off" /\ Ended.visited = {}
  BY DEF Done, Ended
<1>3. ASSUME NEW j \in Jid, CustomerWrites(j), NEW h \in Handlers, Accepts(h)
      PROVE  Known(store', handler'[h].jid) \cap held = {}
  <2>1. handler'[h].jid = j /\ ~Paused(store', j)
    BY <1>1, <1>3 DEF CustomerWrites, Accepts, Done
  <2>2. held' = held
    BY <1>3 DEF CustomerWrites
  <2> QED
    BY <1>1, <2>1, <2>2 DEF Paused, HeldPaused
<1>4. ASSUME NEW j \in Jid, CustomerWrites(j), NEW k \in Checks
      PROVE  ~Picks(k)
  BY <1>4 DEF CustomerWrites, Picks
<1>5. ASSUME NEW c \in Checks, NEW s \in SUBSET Jid, NEW p \in SUBSET Jid, held' = held,
             check'[c] = Scan(store', s, p), Picks(c)
      PROVE  Known(store', check'[c].jid) \cap held = {}
  <2>1. check'[c] # Ended
    BY <1>2, <1>5 DEF Picks
  <2>2. check'[c].jid \in Jid /\ ~store'.chats[check'[c].jid].paused
    BY <1>1, <1>5, <2>1, ScanPicks
  <2> QED
    BY <1>1, <1>5, <2>2, Ids, KnownIds DEF HeldPaused
<1>6. ASSUME NEW k \in Checks, Judge(k), NEW c \in Checks, Picks(c)
      PROVE  Known(store', check'[c].jid) \cap held = {}
  <2>1. check[c].visited \in SUBSET Jid /\ check[c].processed \in SUBSET Jid
    BY <1>1 DEF Judging
  <2>2. held' = held /\ check' = [check EXCEPT ![k] = Scan(store', check[k].visited, check[k].processed)]
    BY <1>6 DEF Judge
  <2>3. c = k
    BY <1>1, <1>6, <2>2 DEF Picks
  <2>4. check'[c] = Scan(store', check[c].visited, check[c].processed)
    BY <1>1, <2>2, <2>3
  <2> QED
    BY <1>5, <1>6, <2>1, <2>2, <2>4
<1>7. ASSUME StartCheck, NEW c \in Checks, Picks(c)
      PROVE  Known(store', check'[c].jid) \cap held = {}
  <2>1. held' = held /\ store' = store
        /\ check' = [check EXCEPT ![Free(Checks, check)] = Scan(store, {}, {})]
    BY <1>7 DEF StartCheck, history
  <2>2. c = Free(Checks, check)
    BY <1>1, <1>7, <2>1 DEF Picks
  <2>3. check'[c] = Scan(store', {}, {})
    BY <1>1, <2>1, <2>2
  <2> QED
    BY <1>5, <1>7, <2>1, <2>3
<1>8. ASSUME \/ \E k \in Checks : Judge(k)
             \/ StartCheck
      PROVE  \A h \in Handlers : ~Accepts(h)
  BY <1>8 DEF Judge, StartCheck, Accepts
<1>9. ASSUME NEW h \in Handlers, Step(h)
      PROVE  (\A i \in Handlers : ~Accepts(i)) /\ (\A k \in Checks : ~Picks(k))
  BY <1>1, <1>9 DEF Step, Resolve, Choose, Accept, Answer, SendAway, GiveUp, Accepts, Picks
<1>10. ASSUME NEW js \in SUBSET Jid, Lose(js)
       PROVE  (\A i \in Handlers : ~Accepts(i)) /\ (\A k \in Checks : ~Picks(k))
  <2>1. \A i \in Handlers : handler'[i].stage = handler[i].stage
    BY <1>1, <1>10 DEF Lose, Handling
  <2>2. ASSUME NEW k \in Checks PROVE check'[k].visited = check[k].visited \ js
    <3>1. check[k] \in Judging
      BY <1>1
    <3>2. check'[k] = [check[k] EXCEPT !.rec = IF check[k].jid \in js THEN "lost" ELSE @,
                                       !.visited = @ \ js]
      BY <1>10 DEF Lose
    <3> QED
      BY <3>1, <3>2 DEF Judging
  <2> QED
    BY <2>1, <2>2 DEF Accepts, Picks
<1>11. ASSUME NEW j \in Jid, DeleteChat(j) \/ PhoneDeletes(j)
       PROVE  (\A i \in Handlers : ~Accepts(i)) /\ (\A k \in Checks : ~Picks(k))
  BY <1>10, <1>11, KnownIds DEF DeleteChat, PhoneDeletes
<1>12. ASSUME \/ \E j \in Jid : HumanWrites(j)
              \/ \E j \in Jid, b \in BOOLEAN : ToggleChatAI(j, b)
              \/ \E c \in Contacts : TellMapping(c)
              \/ HoursPass \/ DelayPasses
       PROVE  (\A i \in Handlers : ~Accepts(i)) /\ (\A k \in Checks : ~Picks(k))
  BY <1>12 DEF HumanWrites, ToggleChatAI, TellMapping, HoursPass, DelayPasses, work, Accepts, Picks
<1>13. ASSUME Reconnect
       PROVE  (\A i \in Handlers : ~Accepts(i)) /\ (\A k \in Checks : ~Picks(k))
  BY <1>2, <1>13 DEF Reconnect, Accepts, Picks
<1> QED
  BY <1>3, <1>4, <1>6, <1>7, <1>8, <1>9, <1>11, <1>12, <1>13 DEF Next

\* If no chat is deleted while the database looks for its chatbot, a takeover holds: the
\* chatbot takes no message of a chat that a human took over, under whichever id it comes
\* in, and no check picks it, until the human gives it back or the chat is deleted.
THEOREM TakeoverKept == ASSUME MayRace = FALSE PROVE Spec => TakeoverHolds
<1>1. Init => IInv
  <2>1. Init => HeldPaused(store, held)
    BY DEF Init, HeldPaused
  <2>2. Init => Recorded
    BY DEF Init, Recorded, Sound, Done
  <2> QED
    BY <2>1, <2>2, InitTyped DEF IInv
<1>2. IInv /\ [Next]_vars => IInv'
  BY NextHeld
<1>3. IInv /\ IInv' /\ [Next]_vars =>
        [/\ \A h \in Handlers : Accepts(h) => Known(store', handler'[h].jid) \cap held = {}
         /\ \A k \in Checks : Picks(k) => Known(store', check'[k].jid) \cap held = {}]_vars
  BY TakeoverStep
<1> QED
  BY <1>1, <1>2, <1>3, PTL DEF Spec, TakeoverHolds

-----------------------------------------------------------------------------
(* The marks of the chats and their places *)

\* Every chat has a place of its own.
Orderly(s) == /\ \A j \in Jid : s.place[j] <= s.count
              /\ \A i, j \in Jid : i # j /\ Has(s, i) => s.place[i] # s.place[j]

\* From s to t chats come, behind those that are there, which keep their places and marks.
Grows(s, t) ==
    /\ \A j \in Jid : Has(s, j) => /\ t.place[j] = s.place[j]
                                   /\ t.chats[j].awayOn = s.chats[j].awayOn
                                   /\ t.chats[j].followedAt = s.chats[j].followedAt
    /\ Orderly(s) => /\ Orderly(t)
                     /\ \A i, j \in Jid : Has(s, i) /\ ~Has(s, j) /\ Has(t, j) => t.place[i] < t.place[j]

LEMMA GrowsTwice ==
    ASSUME NEW s, NEW t, NEW u, Grows(s, t), Grows(t, u)
    PROVE  Grows(s, u)
<1>1. \A j \in Jid : Has(s, j) => Has(t, j)
  BY DEF Grows, Has
<1>2. \A j \in Jid : Has(s, j) => /\ u.place[j] = s.place[j]
                                  /\ u.chats[j].awayOn = s.chats[j].awayOn
                                  /\ u.chats[j].followedAt = s.chats[j].followedAt
  BY <1>1 DEF Grows
<1>3. ASSUME Orderly(s)
      PROVE  /\ Orderly(u)
             /\ \A i, j \in Jid : Has(s, i) /\ ~Has(s, j) /\ Has(u, j) => u.place[i] < u.place[j]
  <2>1. Orderly(t) /\ Orderly(u)
    BY <1>3 DEF Grows
  <2>2. ASSUME NEW i \in Jid, NEW j \in Jid, Has(s, i), ~Has(s, j), Has(u, j)
        PROVE  u.place[i] < u.place[j]
    <3>1. CASE Has(t, j)
      <4>1. t.place[i] < t.place[j]
        BY <1>3, <2>2, <3>1 DEF Grows
      <4>2. u.place[i] = t.place[i] /\ u.place[j] = t.place[j]
        BY <1>1, <2>2, <3>1 DEF Grows
      <4> QED
        BY <4>1, <4>2
    <3>2. CASE ~Has(t, j)
      BY <1>1, <2>1, <2>2, <3>2 DEF Grows
    <3> QED
      BY <3>1, <3>2
  <2> QED
    BY <2>1, <2>2
<1> QED
  BY <1>2, <1>3 DEF Grows

\* A store with the same places and marks.
LEMMA AlikeGrows ==
    ASSUME NEW s, NEW t, t.place = s.place, t.count = s.count,
           \A j \in Jid : Has(s, j) => /\ t.chats[j].awayOn = s.chats[j].awayOn
                                       /\ t.chats[j].followedAt = s.chats[j].followedAt
    PROVE  Grows(s, t)
BY DEF Grows, Orderly, Has

LEMMA UpsertGrows == ASSUME NEW s \in Store, NEW j \in Jid PROVE Grows(s, Upsert(s, j))
<1>1. CASE Has(s, j)
  BY <1>1, AlikeGrows DEF Upsert
<1>2. CASE ~Has(s, j)
  <2> DEFINE t == Upsert(s, j)
  <2>1. /\ t = [s EXCEPT !.place[j] = s.count + 1, !.count = s.count + 1, !.chats[j] = Fresh]
        /\ s.count \in Nat /\ s.place \in [Jid -> Nat] /\ s.chats \in [Jid -> Chat]
    BY <1>2 DEF Upsert, Store
  <2>2. /\ t.place[j] = s.count + 1 /\ t.count = s.count + 1
        /\ \A i \in Jid : i # j => t.place[i] = s.place[i] /\ t.chats[i] = s.chats[i]
    BY <2>1 DEF Store
  <2> HIDE DEF t
  <2>3. \A i \in Jid : Has(s, i) => /\ t.place[i] = s.place[i]
                                    /\ t.chats[i].awayOn = s.chats[i].awayOn
                                    /\ t.chats[i].followedAt = s.chats[i].followedAt
    BY <1>2, <2>2
  <2>4. ASSUME Orderly(s)
        PROVE  /\ Orderly(t)
               /\ \A i, m \in Jid : Has(s, i) /\ ~Has(s, m) /\ Has(t, m) => t.place[i] < t.place[m]
    <3>1. \A i \in Jid : s.place[i] \in Nat /\ s.place[i] <= s.count
      BY <2>1, <2>4 DEF Orderly
    <3>2. \A i \in Jid : t.place[i] <= t.count
      BY <2>1, <2>2, <3>1
    <3>3. \A i, m \in Jid : i # m /\ Has(t, i) => t.place[i] # t.place[m]
      BY <2>1, <2>2, <2>4, <3>1 DEF Orderly, Has
    <3>4. \A i, m \in Jid : Has(s, i) /\ ~Has(s, m) /\ Has(t, m) => t.place[i] < t.place[m]
      BY <1>2, <2>1, <2>2, <3>1 DEF Has
    <3> QED
      BY <3>2, <3>3, <3>4 DEF Orderly
  <2> QED
    BY <2>3, <2>4 DEF Grows, t
<1> QED
  BY <1>1, <1>2

LEMMA SetPausedGrows ==
    ASSUME NEW s \in Store, NEW js \in SUBSET Jid, NEW b \in BOOLEAN
    PROVE  Grows(s, SetPaused(s, js, b))
<1> DEFINE chats == [j \in Jid |-> IF j \in js THEN [s.chats[j] EXCEPT !.paused = b] ELSE s.chats[j]]
           t     == SetPaused(s, js, b)
<1>1. t = [s EXCEPT !.chats = chats]
  BY DEF SetPaused
<1>2. ASSUME NEW j \in Jid
      PROVE  chats[j].awayOn = s.chats[j].awayOn /\ chats[j].followedAt = s.chats[j].followedAt
  <2>1. s.chats[j] \in Chat
    BY DEF Store
  <2> QED
    BY <2>1 DEF Chat
<1> HIDE DEF chats
<1>3. t.place = s.place /\ t.count = s.count /\ t.chats = chats
  BY <1>1 DEF Store
<1> HIDE DEF t
<1>4. Grows(s, t)
  BY <1>2, <1>3, AlikeGrows
<1> QED
  BY <1>4 DEF t

LEMMA LearnGrows == ASSUME NEW s \in Store, NEW c \in Contacts PROVE Grows(s, Learn(s, c))
<1> DEFINE lid == <<c, "lid">>
           pn  == <<c, "pn">>
           t   == [s EXCEPT !.mapped = @ \cup {c}]
           u   == Upsert(t, lid)
           v   == Upsert(u, pn)
<1>1. lid \in Jid /\ pn \in Jid /\ {lid, pn} \in SUBSET Jid /\ TRUE \in BOOLEAN
  BY DEF Jid
<1>2. Learn(s, c) = t \/ Learn(s, c) = SetPaused(v, {lid, pn}, TRUE)
  BY Zenon DEF Learn
<1>3. t \in Store /\ t.place = s.place /\ t.count = s.count /\ t.chats = s.chats
  BY DEF Store
<1> HIDE DEF lid, pn, t
<1>4. Grows(s, t)
  BY <1>3, AlikeGrows
<1>5. u \in Store /\ Grows(t, u)
  BY <1>1, <1>3, UpsertStore, UpsertGrows
<1> HIDE DEF u
<1>6. v \in Store /\ Grows(u, v)
  BY <1>1, <1>5, UpsertStore, UpsertGrows
<1> HIDE DEF v
<1>7. Grows(v, SetPaused(v, {lid, pn}, TRUE))
  BY <1>1, <1>6, SetPausedGrows
<1>8. Grows(s, SetPaused(v, {lid, pn}, TRUE))
  BY <1>4, <1>5, <1>6, <1>7, GrowsTwice
<1> QED
  BY <1>2, <1>4, <1>8

LEMMA PauseGrows ==
    ASSUME NEW s \in Store, NEW j \in Jid, NEW b \in BOOLEAN
    PROVE  Grows(s, Pause(s, j, b))
<1> DEFINE t == Upsert(s, j)
           u == IF j[1] \in s.mapped THEN Upsert(t, Other(j)) ELSE t
<1>1. Pause(s, j, b) = SetPaused(u, Known(s, j), b)
  BY DEF Pause
<1>2. t \in Store /\ Grows(s, t)
  BY UpsertStore, UpsertGrows
<1>3. Other(j) \in Jid /\ Known(s, j) \in SUBSET Jid
  BY Ids, KnownIds
<1> HIDE DEF t
<1>4. u \in Store /\ Grows(s, u)
  BY <1>2, <1>3, UpsertStore, UpsertGrows, GrowsTwice
<1> HIDE DEF u
<1> QED
  BY <1>1, <1>3, <1>4, SetPausedGrows, GrowsTwice

LEMMA AddGrows ==
    ASSUME NEW s \in Store, NEW j \in Jid, NEW mine \in BOOLEAN
    PROVE  Grows(s, Add(s, j, mine))
<1> DEFINE m == [jid |-> j, mine |-> mine]
           t == [s EXCEPT !.log = Append(@, m)]
<1>1. m \in Message
  BY DEF Message
<1> HIDE DEF m
<1>6. Append(s.log, m) \in Seq(Message)
  BY <1>1 DEF Store
<1>2. t \in Store /\ t.chats = s.chats /\ t.place = s.place /\ t.count = s.count
  BY <1>6 DEF Store
<1> HIDE DEF t
<1>3. Grows(s, t)
  BY <1>2, AlikeGrows
<1>4. Grows(t, Upsert(t, j))
  BY <1>2, UpsertGrows
<1>5. Add(s, j, mine) = Upsert(t, j)
  BY DEF Add, t, m
<1> QED
  BY <1>3, <1>4, <1>5, GrowsTwice

LEMMA MaybeLearnGrows ==
    ASSUME NEW s \in Store, NEW c \in Contacts, NEW named \in BOOLEAN
    PROVE  Grows(s, IF named THEN Learn(s, c) ELSE s)
BY LearnGrows, AlikeGrows

-----------------------------------------------------------------------------
(* An away message comes once a day *)

\* The chats of s that got an away message say so, with the day.
Told(s, js, day) == \A j \in js : Has(s, j) /\ s.chats[j].awayOn = day

AInv == TInv /\ Told(store, awaySent, Today)

LEMMA GrowsTold ==
    ASSUME NEW s, NEW t, NEW js \in SUBSET Jid, NEW day, Told(s, js, day), Grows(s, t)
    PROVE  Told(t, js, day)
BY DEF Told, Grows, Has

LEMMA RemoveTold ==
    ASSUME NEW s \in Store, NEW t, NEW K \in SUBSET Jid, NEW js \in SUBSET Jid, NEW day,
           Told(s, js, day), t.place = Remove(s, K).place, t.chats = Remove(s, K).chats
    PROVE  Told(t, js \ K, day)
BY RemoveStore DEF Told, Has

LEMMA SendAwayTold ==
    ASSUME AInv, NEW h \in Handlers, SendAway(h)
    PROVE  Told(store', awaySent', Today)
<1> DEFINE j == handler[h].jid
           s == Add(store, j, TRUE)
<1>1. store \in Store /\ awaySent \in SUBSET Jid /\ j \in Jid /\ handler[h].rec \in {"kept", "lost", "none"}
  BY DEF AInv, TInv, TypeOK, Named, SendAway, Handling
<1>3. /\ store' = CASE handler[h].rec = "kept" -> [s EXCEPT !.chats[j].awayOn = Today]
                     [] handler[h].rec = "none" -> [s EXCEPT !.chats[j] = [Fresh EXCEPT !.awayOn = Today]]
                     [] OTHER -> s
      /\ awaySent' = IF handler[h].rec = "lost" THEN awaySent ELSE awaySent \cup {j}
  BY DEF SendAway
<1> HIDE DEF j
<1>4. s \in Store /\ Has(s, j) /\ Grows(store, s)
  BY <1>1, AddStore, AddGrows
<1> HIDE DEF s
<1>5. Told(s, awaySent, Today)
  BY <1>1, <1>4, GrowsTold DEF AInv
<1>6. CASE handler[h].rec = "lost"
  BY <1>3, <1>5, <1>6
<1>7. CASE handler[h].rec # "lost"
  <2>1. awaySent' = awaySent \cup {j}
    BY <1>3, <1>7
  <2>2. store'.place = s.place /\ store'.chats[j].awayOn = Today
        /\ \A i \in Jid : i # j => store'.chats[i] = s.chats[i]
    <3>1. CASE handler[h].rec = "kept"
      <4> DEFINE r == [s.chats[j] EXCEPT !.awayOn = Today]
      <4>1. s.chats[j] \in Chat
        BY <1>1, <1>4 DEF Store
      <4>2. r.awayOn = Today
        BY <4>1 DEF Chat
      <4>3. store' = [s EXCEPT !.chats[j] = r]
        BY <1>3, <3>1
      <4> HIDE DEF r
      <4> QED
        BY <1>1, <1>4, <4>2, <4>3 DEF Store
    <3>2. CASE handler[h].rec = "none"
      BY <1>1, <1>3, <1>4, <3>2 DEF Store, Fresh
    <3> QED
      BY <1>1, <1>7, <3>1, <3>2
  <2> QED
    BY <1>1, <1>4, <1>5, <2>1, <2>2 DEF Told, Has
<1> QED
  BY <1>6, <1>7

LEMMA MarkAlike ==
    ASSUME TInv, NEW s \in Store, NEW k \in Checks, NEW sent \in Nat, check[k].stage # "off"
    PROVE  /\ \A j \in Jid : Mark(s, k, sent).chats[j].awayOn = s.chats[j].awayOn
           /\ \A j \in Jid : j # check[k].jid => Mark(s, k, sent).chats[j] = s.chats[j]
           /\ check[k].rec = "kept" => Mark(s, k, sent).chats[check[k].jid].followedAt = Len(s.log)
           /\ check[k].rec = "lost" => Mark(s, k, sent) = s
           /\ Mark(s, k, sent).count = s.count
<1>1. CASE check[k].rec = "lost"
  BY <1>1 DEF Mark
<1>2. CASE check[k].rec # "lost"
  <2> DEFINE j == check[k].jid
             r == [s.chats[j] EXCEPT !.trigger = check[k].last, !.sentFor = sent, !.followedAt = Len(s.log)]
             t == [s EXCEPT !.chats[j] = r]
  <2>1. j \in Jid /\ s.chats \in [Jid -> Chat] /\ s.chats[j] \in Chat
    BY DEF TInv, TypeOK, Named, Store
  <2>2. r.awayOn = s.chats[j].awayOn /\ r.followedAt = Len(s.log)
    BY <2>1 DEF Chat
  <2>3. Mark(s, k, sent) = t
    BY <1>2, <2>1 DEF Mark, Store, Chat
  <2> HIDE DEF r
  <2>4. /\ t.chats[j] = r /\ t.count = s.count
        /\ \A i \in Jid : i # j => t.chats[i] = s.chats[i]
    BY <2>1 DEF Store
  <2> HIDE DEF t
  <2> QED
    BY <1>2, <2>2, <2>3, <2>4
<1> QED
  BY <1>1, <1>2

LEMMA JudgeTold ==
    ASSUME AInv, NEW k \in Checks, Judge(k)
    PROVE  Told(store', awaySent, Today)
<1>1. store \in Store /\ awaySent \in SUBSET Jid /\ Len(store.log) \in Nat
  BY DEF AInv, TInv, TypeOK, Store
<1>2. check[k].stage # "off" /\ check[k].jid \in Jid /\ check[k].last \in Nat /\ TInv
  BY DEF Judge, AInv, TInv, TypeOK, Named, Judging
<1>3. ASSUME NEW s \in Store, NEW n \in Nat, Told(s, awaySent, Today)
      PROVE  Told(Mark(s, k, n), awaySent, Today)
  <2> DEFINE t == Mark(s, k, n)
  <2>1. t.place = s.place
    BY <1>2, <1>3, MarkStore
  <2>2. \A j \in Jid : t.chats[j].awayOn = s.chats[j].awayOn
    BY <1>2, <1>3, MarkAlike
  <2> HIDE DEF t
  <2>3. Told(t, awaySent, Today)
    BY <1>1, <1>3, <2>1, <2>2 DEF Told, Has
  <2> QED
    BY <2>3 DEF t
<1>4. CASE FollowUp(k)
  <2> DEFINE s == Add(store, check[k].jid, TRUE)
  <2>1. store' = Mark(s, k, Len(s.log))
    BY <1>4 DEF FollowUp
  <2>2. s \in Store /\ Len(s.log) = Len(store.log) + 1 /\ Grows(store, s)
    BY <1>1, <1>2, AddStore, AddGrows
  <2> HIDE DEF s
  <2>3. Told(s, awaySent, Today) /\ Len(s.log) \in Nat
    BY <1>1, <2>2, GrowsTold DEF AInv
  <2> QED
    BY <1>3, <2>1, <2>2, <2>3
<1>5. CASE LetBe(k)
  BY <1>1, <1>2, <1>3, <1>5 DEF LetBe, AInv
<1>6. CASE Leave(k)
  BY <1>6 DEF Leave, AInv
<1> QED
  BY <1>4, <1>5, <1>6 DEF Judge

LEMMA NextTold == ASSUME AInv, [Next]_vars PROVE AInv'
<1>1. TInv'
  BY NextTyped DEF AInv
<1>2. store \in Store /\ awaySent \in SUBSET Jid /\ Told(store, awaySent, Today) /\ TInv
  BY DEF AInv, TInv, TypeOK
<1>3. ASSUME UNCHANGED <<phase, awaySent>>, Grows(store, store')
      PROVE  Told(store', awaySent', Today')
  BY <1>2, <1>3, GrowsTold DEF Today
<1>4. ASSUME NEW j \in Jid, CustomerWrites(j) PROVE Told(store', awaySent', Today')
  <2>1. PICK named \in BOOLEAN : store' = Add(IF named THEN Learn(store, j[1]) ELSE store, j, FALSE)
    BY <1>4 DEF CustomerWrites
  <2> DEFINE t == IF named THEN Learn(store, j[1]) ELSE store
  <2>2. t \in Store /\ Grows(store, t)
    BY <1>2, Ids, MaybeLearnTyped, MaybeLearnGrows
  <2>3. store' = Add(t, j, FALSE)
    BY <2>1
  <2> HIDE DEF t
  <2>4. Grows(store, store')
    BY <2>2, <2>3, AddGrows, GrowsTwice
  <2> QED
    BY <1>3, <1>4, <2>4 DEF CustomerWrites
<1>5. ASSUME NEW h \in Handlers, Step(h) PROVE Told(store', awaySent', Today')
  <2>1. handler[h].stage # "off" => handler[h].jid \in Jid /\ handler[h].jid[1] \in Contacts
    BY <1>2, Ids DEF TInv, Named
  <2>2. CASE Resolve(h)
    BY <1>2, <1>3, <2>1, <2>2, MaybeLearnGrows DEF Resolve
  <2>3. CASE Answer(h)
    <3>1. store' = Add(store, handler[h].jid, TRUE) /\ handler[h].jid \in Jid
      BY <2>1, <2>3 DEF Answer
    <3>2. UNCHANGED <<phase, awaySent>>
      BY <2>3 DEF Answer, history
    <3>3. Grows(store, store')
      BY <1>2, <3>1, AddGrows
    <3> QED
      BY <1>3, <3>2, <3>3
  <2>4. CASE SendAway(h)
    <3>1. Told(store', awaySent', Today)
      BY <2>4, SendAwayTold
    <3>2. Today' = Today
      BY <2>4 DEF SendAway, Today
    <3> QED
      BY <3>1, <3>2
  <2>5. CASE Choose(h) \/ GiveUp(h)
    BY <1>2, <2>5 DEF Choose, GiveUp, history, Today
  <2> QED
    BY <1>5, <2>2, <2>3, <2>4, <2>5 DEF Step
<1>6. ASSUME NEW j \in Jid, HumanWrites(j) PROVE Told(store', awaySent', Today')
  <2> DEFINE t == Add(store, j, TRUE)
  <2>1. t \in Store /\ Grows(store, t)
    BY <1>2, AddStore, AddGrows
  <2>2. store' = Pause(t, j, TRUE)
    BY <1>6 DEF HumanWrites
  <2> HIDE DEF t
  <2>3. Grows(store, store')
    BY <2>1, <2>2, PauseGrows, GrowsTwice
  <2> QED
    BY <1>3, <1>6, <2>3 DEF HumanWrites
<1>7. ASSUME NEW j \in Jid, NEW b \in BOOLEAN, ToggleChatAI(j, b) PROVE Told(store', awaySent', Today')
  BY <1>2, <1>3, <1>7, PauseGrows DEF ToggleChatAI
<1>8. ASSUME NEW j \in Jid, DeleteChat(j) PROVE Told(store', awaySent', Today')
  <2>1. /\ store'.place = Remove(store, Known(store, j)).place
        /\ store'.chats = Remove(store, Known(store, j)).chats
    <3>1. Remove(store, Known(store, j)) \in Store
      BY <1>2, KnownIds, RemoveStore
    <3> QED
      BY <1>8, <3>1 DEF DeleteChat, Store
  <2> QED
    BY <1>2, <1>8, <2>1, KnownIds, RemoveTold DEF DeleteChat, Forget, Today
<1>9. ASSUME NEW j \in Jid, PhoneDeletes(j) PROVE Told(store', awaySent', Today')
  <2>1. Told(store', awaySent \ {j}, Today)
    BY <1>2, <1>9, RemoveTold DEF PhoneDeletes
  <2>2. awaySent' \subseteq awaySent \ {j} /\ Today' = Today
    BY <1>9, KnownIds DEF PhoneDeletes, Forget, Today
  <2> QED
    BY <2>1, <2>2 DEF Told
<1>10. ASSUME NEW c \in Contacts, TellMapping(c) PROVE Told(store', awaySent', Today')
  BY <1>2, <1>3, <1>10, LearnGrows DEF TellMapping
<1>11. ASSUME NEW k \in Checks, Judge(k) PROVE Told(store', awaySent', Today')
  BY <1>11, JudgeTold DEF Judge, Today
<1>12. ASSUME HoursPass PROVE Told(store', awaySent', Today')
  <2>1. CASE phase = 2
    BY <1>12, <2>1 DEF HoursPass, Told
  <2>2. CASE phase # 2
    <3>1. phase = 1 /\ phase' = 2
      BY <1>2, <1>12, <2>2 DEF HoursPass, TInv, TypeOK
    <3> QED
      BY <1>2, <1>12, <3>1 DEF HoursPass, Today
  <2> QED
    BY <2>1, <2>2
<1>13. ASSUME StartCheck \/ DelayPasses \/ Reconnect \/ UNCHANGED vars
       PROVE  Told(store', awaySent', Today')
  BY <1>2, <1>13 DEF StartCheck, DelayPasses, Reconnect, vars, history, Today
<1>14. Told(store', awaySent', Today')
  BY <1>4, <1>5, <1>6, <1>7, <1>8, <1>9, <1>10, <1>11, <1>12, <1>13 DEF Next
<1> QED
  BY <1>1, <1>14 DEF AInv

\* Only the choice of the handler sends an away message, and it looks at the marks.
LEMMA AwayStep ==
    ASSUME AInv, Next, NEW h \in Handlers, handler'[h].stage = "away", handler[h].stage # "away"
    PROVE  Known(store', handler'[h].jid) \cap awaySent = {}
<1>1. handler \in [Handlers -> Handling] /\ Told(store, awaySent, Today)
  BY DEF AInv, TInv, TypeOK
<1>2. Done.stage = "off"
  BY DEF Done
<1>3. PICK i \in Handlers : Choose(i)
  <2>1. ASSUME NEW i \in Handlers, Step(i), ~Choose(i)
        PROVE  FALSE
    <3>1. handler' = [handler EXCEPT ![i] = Done] \/ handler' = [handler EXCEPT ![i].stage = "choosing"]
      BY <2>1 DEF Step, Resolve, Answer, SendAway, GiveUp
    <3>2. handler'[h] = handler[h] \/ handler'[h] = Done \/ handler'[h] = [handler[h] EXCEPT !.stage = "choosing"]
      BY <1>1, <3>1
    <3>3. handler[h] \in Handling
      BY <1>1
    <3> QED
      BY <1>2, <3>2, <3>3 DEF Handling
  <2>2. ASSUME NEW j \in Jid, CustomerWrites(j) PROVE FALSE
    BY <1>1, <2>2 DEF CustomerWrites, Done
  <2>3. ASSUME NEW js \in SUBSET Jid, Lose(js) PROVE FALSE
    <3>1. handler[h] \in Handling
      BY <1>1
    <3>2. handler' = [g \in Handlers |-> IF handler[g].jid \in js /\ handler[g].rec = "kept"
                                         THEN [handler[g] EXCEPT !.rec = "lost"] ELSE handler[g]]
      BY <2>3, Zenon DEF Lose
    <3>3. handler'[h] = handler[h] \/ handler'[h] = [handler[h] EXCEPT !.rec = "lost"]
      BY <3>2
    <3> QED
      BY <3>1, <3>3 DEF Handling
  <2>4. ASSUME NEW j \in Jid, DeleteChat(j) \/ PhoneDeletes(j) PROVE FALSE
    BY <2>3, <2>4, KnownIds DEF DeleteChat, PhoneDeletes
  <2>5. CASE Reconnect
    BY <1>1, <1>2, <2>5 DEF Reconnect
  <2>6. ASSUME handler' = handler PROVE FALSE
    BY <2>6
  <2> QED
    BY <2>1, <2>2, <2>4, <2>5, <2>6 DEF Next, HumanWrites, ToggleChatAI, TellMapping, Judge,
       StartCheck, HoursPass, DelayPasses, work
<1>4. i = h /\ ~AwayToday(handler[h].jid) /\ handler'[h].jid = handler[h].jid /\ store' = store
  <2>1. i = h
    BY <1>1, <1>3 DEF Choose, Accept
  <2> QED
    BY <1>1, <1>2, <1>3, <2>1 DEF Choose, Accept, Handling
<1> QED
  BY <1>1, <1>4 DEF AwayToday, Told

\* When an away message was sent, no message of the contact that is taken up later on that
\* day leads to another one, under whichever id it comes in: whatever happens to the chat
\* meanwhile, the mark is there as long as the chat is.
THEOREM AwayComesOnce == Spec => AwayOnce
<1>1. Init => AInv
  BY InitTyped DEF AInv, Init, Told
<1>2. AInv /\ [Next]_vars => AInv'
  BY NextTold
<1>3. AInv /\ [Next]_vars =>
        [\A h \in Handlers :
            (handler'[h].stage = "away" /\ handler[h].stage # "away")
                => Known(store', handler'[h].jid) \cap awaySent = {}]_vars
  BY AwayStep
<1> QED
  BY <1>1, <1>2, <1>3, PTL DEF Spec, AwayOnce

-----------------------------------------------------------------------------
(* A follow-up comes once *)

\* The chat next to that of i, if the store knows of one, came later.
IsFirst(s, i) == (i[1] \in s.mapped /\ Has(s, Other(i))) => s.place[i] < s.place[Other(i)]

\* A pause is on a chat that is there, and on both chats of a contact.
Together(s, sp) ==
    \A j \in Jid : s.chats[j].paused =>
        /\ Has(s, j)
        /\ j[1] \in s.mapped \ sp => s.chats[Other(j)].paused

\* A check that is past one chat of a contact and not past the other has taken the contact
\* for done, or the chat was paused.
Passed(s, sp, visited, processed) ==
    \A i \in visited :
        /\ Has(s, i)
        /\ (i[1] \in s.mapped \ sp /\ Other(i) \notin visited)
              => Unified(s, i) \in processed \/ s.chats[i].paused

\* A check judges the chat of the contact that came first.
Foremost(s, sp, c) ==
    (c.stage = "judging" /\ c.rec = "kept") =>
        Has(s, c.jid) /\ (c.jid[1] \notin sp => IsFirst(s, c.jid))

\* A follow-up is marked on the chat of the contact that came first.
Followed(s, sp, f) ==
    \A j \in Jid : (f[j] # 0 /\ j[1] \notin sp) =>
        \E i \in Known(s, j) : Has(s, i) /\ IsFirst(s, i) /\ s.chats[i].followedAt >= f[j]

OnceInv(s, sp, c, f) ==
    /\ Orderly(s)
    /\ Together(s, sp)
    /\ \A k \in Checks : Passed(s, sp, c[k].visited, c[k].processed) /\ Foremost(s, sp, c[k])
    /\ Followed(s, sp, f)

FInv == IInv /\ OnceInv(store, split, check, followUpAt)

\* The contacts of chats in s whose ids only t knows to be one are in sp.
Late(s, t, sp) == \A j \in Jid : (j[1] \in t.mapped \ s.mapped /\ Has(s, j)) => j[1] \in sp

LEMMA GrowsFirst ==
    ASSUME NEW s, NEW t, NEW sp, Orderly(s), Grows(s, t), Late(s, t, sp),
           NEW i \in Jid, Has(s, i), i[1] \notin sp, IsFirst(s, i)
    PROVE  Has(t, i) /\ IsFirst(t, i)
<1>1. Has(t, i) /\ t.place[i] = s.place[i] /\ Other(i) \in Jid
  BY Ids DEF Grows, Has
<1>2. ASSUME i[1] \in t.mapped, Has(t, Other(i))
      PROVE  t.place[i] < t.place[Other(i)]
  <2>1. i[1] \in s.mapped
    BY <1>2 DEF Late
  <2>2. CASE Has(s, Other(i))
    BY <1>1, <2>1, <2>2 DEF IsFirst, Grows
  <2>3. CASE ~Has(s, Other(i))
    BY <1>1, <1>2, <2>3 DEF Grows
  <2> QED
    BY <2>2, <2>3
<1> QED
  BY <1>1, <1>2 DEF IsFirst

LEMMA GrowsFollowed ==
    ASSUME NEW s, NEW t, NEW sp, NEW sq, NEW f, Orderly(s), Grows(s, t), Late(s, t, sq),
           sp \subseteq sq, s.mapped \subseteq t.mapped, Followed(s, sp, f)
    PROVE  Followed(t, sq, f)
<1> SUFFICES ASSUME NEW j \in Jid, f[j] # 0, j[1] \notin sq
             PROVE  \E i \in Known(t, j) : Has(t, i) /\ IsFirst(t, i) /\ t.chats[i].followedAt >= f[j]
  BY DEF Followed
<1>1. PICK i \in Known(s, j) : Has(s, i) /\ IsFirst(s, i) /\ s.chats[i].followedAt >= f[j]
  BY DEF Followed
<1>2. i \in Jid /\ i[1] = j[1] /\ i \in Known(t, j)
  BY Ids, KnownIds DEF Known
<1>3. Has(t, i) /\ IsFirst(t, i)
  BY <1>1, <1>2, GrowsFirst
<1>4. t.chats[i].followedAt = s.chats[i].followedAt
  BY <1>1, <1>2 DEF Grows
<1> QED
  BY <1>1, <1>2, <1>3, <1>4

LEMMA GrowsForemost ==
    ASSUME NEW s, NEW t, NEW sp, NEW sq, NEW c, Orderly(s), Grows(s, t), Late(s, t, sq),
           sp \subseteq sq, c.stage = "judging" => c.jid \in Jid, Foremost(s, sp, c)
    PROVE  Foremost(t, sq, c)
<1> SUFFICES ASSUME c.stage = "judging", c.rec = "kept"
             PROVE  Has(t, c.jid) /\ (c.jid[1] \notin sq => IsFirst(t, c.jid))
  BY DEF Foremost
<1>1. c.jid \in Jid /\ Has(s, c.jid) /\ (c.jid[1] \notin sp => IsFirst(s, c.jid))
  BY DEF Foremost
<1>2. Has(t, c.jid)
  BY <1>1 DEF Grows, Has
<1> QED
  BY <1>1, <1>2, GrowsFirst

LEMMA GrowsPassed ==
    ASSUME NEW s, NEW t, NEW sp, NEW sq, NEW visited \in SUBSET Jid, NEW processed,
           Keeps(s, t), Late(s, t, sq),
           sp \subseteq sq, s.mapped \subseteq t.mapped, Passed(s, sp, visited, processed)
    PROVE  Passed(t, sq, visited, processed)
<1> SUFFICES ASSUME NEW i \in visited
             PROVE  /\ Has(t, i)
                    /\ (i[1] \in t.mapped \ sq /\ Other(i) \notin visited)
                          => Unified(t, i) \in processed \/ t.chats[i].paused
  BY DEF Passed
<1>1. i \in Jid /\ Has(s, i) /\ Has(t, i)
  BY DEF Passed, Keeps
<1>2. ASSUME i[1] \in t.mapped \ sq, Other(i) \notin visited
      PROVE  Unified(t, i) \in processed \/ t.chats[i].paused
  <2>1. i[1] \in s.mapped \ sp
    BY <1>1, <1>2 DEF Late
  <2>2. Unified(t, i) = Unified(s, i)
    BY <1>2, <2>1 DEF Unified
  <2> QED
    BY <1>1, <1>2, <2>1, <2>2 DEF Passed, Keeps
<1> QED
  BY <1>1, <1>2

\* The methods of the store, and the pause of both chats.
LEMMA UpsertTogether ==
    ASSUME NEW s \in Store, NEW j \in Jid, NEW sp, Together(s, sp)
    PROVE  Together(Upsert(s, j), sp)
<1>1. CASE Has(s, j)
  BY <1>1 DEF Upsert
<1>2. CASE ~Has(s, j)
  <2> DEFINE t == Upsert(s, j)
  <2>1. /\ t.mapped = s.mapped
        /\ \A i \in Jid : Has(s, i) => Has(t, i) /\ t.chats[i] = s.chats[i]
    BY UpsertStore
  <2>2. ~t.chats[j].paused /\ \A i \in Jid : i # j => t.chats[i] = s.chats[i]
    <3>1. t = [s EXCEPT !.place[j] = s.count + 1, !.count = s.count + 1, !.chats[j] = Fresh]
      BY <1>2 DEF Upsert
    <3> QED
      BY <3>1 DEF Store, Fresh
  <2> HIDE DEF t
  <2>3. ASSUME NEW i \in Jid, t.chats[i].paused
        PROVE  Has(t, i) /\ (i[1] \in t.mapped \ sp => t.chats[Other(i)].paused)
    <3>1. i # j /\ s.chats[i].paused
      BY <2>2, <2>3
    <3>2. Has(s, i) /\ Other(i) \in Jid
      BY <3>1, Ids DEF Together
    <3>3. ASSUME i[1] \in t.mapped \ sp PROVE t.chats[Other(i)].paused
      <4>1. s.chats[Other(i)].paused
        BY <2>1, <3>1, <3>3 DEF Together
      <4>2. Has(s, Other(i))
        BY <3>2, <4>1 DEF Together
      <4> QED
        BY <2>1, <3>2, <4>1, <4>2
    <3> QED
      BY <2>1, <3>2, <3>3
  <2>4. Together(t, sp)
    BY <2>3 DEF Together
  <2> QED
    BY <2>4 DEF t
<1> QED
  BY <1>1, <1>2

LEMMA SetPausedTogether ==
    ASSUME NEW s \in Store, NEW c \in Contacts, NEW js \in SUBSET Jid, NEW b \in BOOLEAN, NEW sp,
           Together(s, sp), \A j \in js : j[1] = c /\ Has(s, j),
           c \in s.mapped => \A j \in js : Other(j) \in js
    PROVE  Together(SetPaused(s, js, b), sp)
<1> DEFINE t == SetPaused(s, js, b)
<1>1. t.mapped = s.mapped /\ t.place = s.place
  BY SetPausedStore
<1>2. \A i \in js : t.chats[i].paused <=> b
  BY SetPausedChats
<1>3. \A i \in Jid \ js : t.chats[i].paused = s.chats[i].paused
  BY SetPausedChats
<1> HIDE DEF t
<1>4. ASSUME NEW i \in Jid, t.chats[i].paused
      PROVE  Has(t, i) /\ (i[1] \in t.mapped \ sp => t.chats[Other(i)].paused)
  <2>1. Other(i) \in Jid /\ Other(Other(i)) = i /\ Other(i)[1] = i[1]
    BY Ids
  <2>2. CASE i \in js
    BY <1>1, <1>2, <1>4, <2>1, <2>2 DEF Has
  <2>3. CASE i \notin js
    <3>1. s.chats[i].paused
      BY <1>3, <1>4, <2>3
    <3>2. Has(t, i)
      BY <1>1, <3>1 DEF Together, Has
    <3>3. ASSUME i[1] \in t.mapped \ sp PROVE t.chats[Other(i)].paused
      <4>1. Other(i) \notin js
        BY <1>1, <2>1, <2>3, <3>3
      <4>2. s.chats[Other(i)].paused
        BY <1>1, <3>1, <3>3 DEF Together
      <4> QED
        BY <1>3, <2>1, <4>1, <4>2
    <3> QED
      BY <3>2, <3>3
  <2> QED
    BY <2>2, <2>3
<1>5. Together(t, sp)
  BY <1>4 DEF Together
<1> QED
  BY <1>5 DEF t

LEMMA PauseTogether ==
    ASSUME NEW s \in Store, NEW j \in Jid, NEW b \in BOOLEAN, NEW sp, Together(s, sp)
    PROVE  Together(Pause(s, j, b), sp)
<1> DEFINE t == Upsert(s, j)
           u == IF j[1] \in s.mapped THEN Upsert(t, Other(j)) ELSE t
           K == Known(s, j)
<1>1. Pause(s, j, b) = SetPaused(u, K, b)
  BY DEF Pause
<1>2. Other(j) \in Jid /\ K \in SUBSET Jid /\ j[1] \in Contacts /\ \A i \in K : i[1] = j[1]
  BY Ids, KnownIds
<1>3. t \in Store /\ t.mapped = s.mapped /\ Has(t, j) /\ Together(t, sp)
  BY UpsertStore, UpsertTogether
<1>4. j[1] \in s.mapped => K = {j, Other(j)} /\ \A i \in K : Other(i) \in K
  BY Ids, KnownIds
<1>5. j[1] \notin s.mapped => K = {j}
  BY DEF Known
<1> HIDE DEF t, K
<1>6. u \in Store /\ u.mapped = s.mapped /\ Together(u, sp) /\ \A i \in K : Has(u, i)
  <2>1. CASE j[1] \in s.mapped
    <3>1. u = Upsert(t, Other(j))
      BY <2>1
    <3> HIDE DEF u
    <3>2. /\ u \in Store /\ u.mapped = t.mapped /\ Has(u, Other(j))
          /\ \A i \in Jid : Has(t, i) => Has(u, i)
      BY <1>2, <1>3, <3>1, UpsertStore
    <3>3. Together(u, sp)
      BY <1>2, <1>3, <3>1, UpsertTogether
    <3> QED
      BY <1>3, <1>4, <2>1, <3>2, <3>3
  <2>2. CASE j[1] \notin s.mapped
    BY <1>3, <1>5, <2>2
  <2> QED
    BY <2>1, <2>2
<1> HIDE DEF u
<1> QED
  BY <1>1, <1>2, <1>4, <1>6, SetPausedTogether

\* Two chats that are known to be of one contact before they are there, or both are paused.
LEMMA LearnTogether ==
    ASSUME NEW s \in Store, NEW c \in Contacts, NEW sp, Together(s, sp)
    PROVE  Together(Learn(s, c), sp)
<1> DEFINE lid == <<c, "lid">>
           pn  == <<c, "pn">>
           t   == [s EXCEPT !.mapped = @ \cup {c}]
           u   == Upsert(t, lid)
           v   == Upsert(u, pn)
           js  == {lid, pn}
           p   == \E j \in {lid, pn} : Has(s, j) /\ s.chats[j].paused
<1>1. /\ lid \in Jid /\ pn \in Jid /\ js \in SUBSET Jid
      /\ lid[1] = c /\ pn[1] = c /\ Other(lid) = pn /\ Other(pn) = lid
      /\ \A j \in Jid : j[1] = c => j \in js
  BY DEF Jid, Other
<1>2. t \in Store /\ t.chats = s.chats /\ t.place = s.place /\ t.mapped = s.mapped \cup {c}
  BY DEF Store
<1>3. Learn(s, c) = IF p THEN SetPaused(v, js, TRUE) ELSE t
  BY DEF Learn
<1>4. CASE ~p
  <2>1. \A j \in js : ~s.chats[j].paused
    BY <1>1, <1>4 DEF Together
  <2> HIDE DEF t, js
  <2>2. Together(t, sp)
    BY <1>1, <1>2, <2>1 DEF Together, Has
  <2> QED
    BY <1>3, <1>4, <2>2
<1>5. CASE p
  <2>1. Together(t, sp \cup {c})
    BY <1>2 DEF Together, Has
  <2>2. Learn(s, c) = SetPaused(v, js, TRUE)
    BY <1>3, <1>5
  <2> HIDE DEF t, p
  <2>3. u \in Store /\ Together(u, sp \cup {c}) /\ Has(u, lid)
    BY <1>1, <1>2, <2>1, UpsertStore, UpsertTogether
  <2> HIDE DEF u
  <2>4. v \in Store /\ Together(v, sp \cup {c}) /\ Has(v, lid) /\ Has(v, pn)
    BY <1>1, <2>3, UpsertStore, UpsertTogether
  <2> HIDE DEF v
  <2>5. /\ \A j \in js : j[1] = c /\ Has(v, j) /\ Other(j) \in js
        /\ js \in SUBSET Jid /\ TRUE \in BOOLEAN
    BY <1>1, <2>4
  <2> HIDE DEF js
  <2>6. Together(SetPaused(v, js, TRUE), sp \cup {c})
    BY <2>4, <2>5, SetPausedTogether
  <2>7. \A j \in js : SetPaused(v, js, TRUE).chats[j].paused
    BY <2>4, <2>5, SetPausedChats
  <2>8. Together(SetPaused(v, js, TRUE), sp)
    BY <1>1, <2>6, <2>7, Ids DEF Together
  <2> QED
    BY <2>2, <2>8
<1> QED
  BY <1>4, <1>5

LEMMA AddTogether ==
    ASSUME NEW s \in Store, NEW j \in Jid, NEW mine \in BOOLEAN, NEW sp, Together(s, sp)
    PROVE  Together(Add(s, j, mine), sp)
<1> DEFINE m == [jid |-> j, mine |-> mine]
           t == [s EXCEPT !.log = Append(@, m)]
<1>1. m \in Message
  BY DEF Message
<1> HIDE DEF m
<1>2. Append(s.log, m) \in Seq(Message)
  BY <1>1 DEF Store
<1>3. t \in Store /\ t.chats = s.chats /\ t.place = s.place /\ t.mapped = s.mapped
  BY <1>2 DEF Store
<1> HIDE DEF t
<1>4. Together(t, sp)
  BY <1>3 DEF Together, Has
<1>5. Add(s, j, mine) = Upsert(t, j)
  BY DEF Add, t, m
<1> QED
  BY <1>3, <1>4, <1>5, UpsertTogether

LEMMA TogetherMore == ASSUME NEW s, NEW sp, NEW sq, sp \subseteq sq, Together(s, sp)
                      PROVE  Together(s, sq)
BY DEF Together

LEMMA GrowsOnce ==
    ASSUME NEW s, NEW t, NEW sp, NEW sq, NEW c, NEW f, OnceInv(s, sp, c, f),
           Grows(s, t), Late(s, t, sq), sp \subseteq sq, s.mapped \subseteq t.mapped,
           Together(t, sq),
           \A k \in Checks : Passed(t, sq, c[k].visited, c[k].processed),
           \A k \in Checks : c[k].stage = "judging" => c[k].jid \in Jid
    PROVE  OnceInv(t, sq, c, f)
<1>1. Orderly(s) /\ Orderly(t) /\ Followed(s, sp, f)
  BY DEF OnceInv, Grows
<1>2. Followed(t, sq, f)
  BY <1>1, GrowsFollowed
<1>3. ASSUME NEW k \in Checks PROVE Foremost(t, sq, c[k])
  BY <1>1, GrowsForemost DEF OnceInv
<1> QED
  BY <1>1, <1>2, <1>3 DEF OnceInv

\* Chats come, none goes, and no pause ends.
LEMMA KeepsOnce ==
    ASSUME NEW s, NEW t, NEW sp, NEW sq, NEW c, NEW f, OnceInv(s, sp, c, f),
           Grows(s, t), Keeps(s, t), Late(s, t, sq), sp \subseteq sq, s.mapped \subseteq t.mapped,
           Together(t, sq), c \in [Checks -> Judging],
           \A k \in Checks : c[k].stage = "judging" => c[k].jid \in Jid
    PROVE  OnceInv(t, sq, c, f)
<1>1. ASSUME NEW k \in Checks PROVE Passed(t, sq, c[k].visited, c[k].processed)
  <2>1. c[k].visited \in SUBSET Jid
    BY DEF Judging
  <2>2. Passed(s, sp, c[k].visited, c[k].processed)
    BY DEF OnceInv
  <2> QED
    BY <2>1, <2>2, GrowsPassed
<1> QED
  BY <1>1, GrowsOnce

\* The marks of a chat change, and none that is needed is lost.
LEMMA AlikeOnce ==
    ASSUME NEW s, NEW t, NEW sp, NEW c, NEW f, OnceInv(s, sp, c, f),
           t.place = s.place, t.count = s.count, t.mapped = s.mapped,
           \A j \in Jid : t.chats[j].paused = s.chats[j].paused,
           \A i, j \in Jid : s.chats[i].followedAt >= f[j] => t.chats[i].followedAt >= f[j],
           c \in [Checks -> Judging]
    PROVE  OnceInv(t, sp, c, f)
<1>1. Orderly(t) /\ Together(t, sp)
  BY Ids DEF OnceInv, Orderly, Together, Has
<1>2. ASSUME NEW k \in Checks
      PROVE  Passed(t, sp, c[k].visited, c[k].processed) /\ Foremost(t, sp, c[k])
  <2>1. c[k].visited \subseteq Jid
    BY DEF Judging
  <2>2. Passed(s, sp, c[k].visited, c[k].processed) /\ Foremost(s, sp, c[k])
    BY DEF OnceInv
  <2>3. Passed(t, sp, c[k].visited, c[k].processed)
    <3> SUFFICES ASSUME NEW i \in c[k].visited
                 PROVE  /\ Has(t, i)
                        /\ (i[1] \in t.mapped \ sp /\ Other(i) \notin c[k].visited)
                              => Unified(t, i) \in c[k].processed \/ t.chats[i].paused
      BY DEF Passed
    <3>1. Unified(t, i) = Unified(s, i) /\ i \in Jid /\ (Has(s, i) <=> Has(t, i))
      BY <2>1 DEF Unified, Has
    <3> QED
      BY <2>2, <3>1 DEF Passed
  <2>4. Foremost(t, sp, c[k])
    BY <2>2 DEF Foremost, Has, IsFirst
  <2> QED
    BY <2>3, <2>4
<1>3. Followed(t, sp, f)
  <2> SUFFICES ASSUME NEW j \in Jid, f[j] # 0, j[1] \notin sp
               PROVE  \E i \in Known(t, j) : Has(t, i) /\ IsFirst(t, i) /\ t.chats[i].followedAt >= f[j]
    BY DEF Followed
  <2>1. PICK i \in Known(s, j) : Has(s, i) /\ IsFirst(s, i) /\ s.chats[i].followedAt >= f[j]
    BY DEF OnceInv, Followed
  <2>2. i \in Jid /\ i \in Known(t, j)
    BY KnownIds DEF Known
  <2> QED
    BY <2>1, <2>2 DEF Has, IsFirst
<1> QED
  BY <1>1, <1>2, <1>3 DEF OnceInv

\* The loop goes on from the chats it is past.
LEMMA ScanOnce ==
    ASSUME NEW s \in Store, NEW sp, NEW c, NEW d, NEW f, OnceInv(s, sp, c, f),
           c \in [Checks -> Judging], NEW k \in Checks,
           NEW visited \in SUBSET Jid, NEW processed \in SUBSET Jid,
           Passed(s, sp, visited, processed),
           d = [c EXCEPT ![k] = Scan(s, visited, processed)]
    PROVE  OnceInv(s, sp, d, f)
<1> DEFINE r == Scan(s, visited, processed)
<1>1. r = Ended \/ Stops(s, visited, processed, r)
  BY ScanStops
<1>2. d[k] = r /\ \A i \in Checks \ {k} : d[i] = c[i]
  OBVIOUS
<1> HIDE DEF r
<1>3. CASE r = Ended
  <2>1. r.visited = {} /\ r.stage = "off"
    BY <1>3 DEF Ended
  <2> QED
    BY <1>2, <2>1 DEF OnceInv, Passed, Foremost
<1>4. CASE Stops(s, visited, processed, r)
  <2> DEFINE j == r.jid
  <2>1. /\ j \in Jid /\ Has(s, j) /\ j \notin visited /\ ~s.chats[j].paused
        /\ Other(j) \in Jid /\ Other(j)[1] = j[1] /\ Other(Other(j)) = j /\ Other(j) # j
    BY <1>4, Ids DEF Stops
  <2>2. Passed(s, sp, r.visited, r.processed)
    <3> SUFFICES ASSUME NEW i \in r.visited
                 PROVE  /\ Has(s, i)
                        /\ (i[1] \in s.mapped \ sp /\ Other(i) \notin r.visited)
                              => Unified(s, i) \in r.processed \/ s.chats[i].paused
      BY DEF Passed
    <3>1. CASE i \in visited
      BY <1>4, <3>1 DEF Stops, Passed
    <3>2. CASE i \notin visited
      BY <1>4, <3>2 DEF Stops
    <3> QED
      BY <3>1, <3>2
  <2>3. ASSUME j[1] \notin sp, j[1] \in s.mapped, Has(s, Other(j))
        PROVE  s.place[j] < s.place[Other(j)]
    <3>1. Unified(s, Other(j)) = Unified(s, j)
      BY <2>1, <2>3 DEF Unified
    <3>2. ~s.chats[Other(j)].paused
      BY <2>1, <2>3 DEF OnceInv, Together
    <3>3. Other(j) \notin visited
      BY <1>4, <2>1, <2>3, <3>1, <3>2 DEF Passed, Stops
    <3>4. ~(s.place[Other(j)] < s.place[j])
      BY <1>4, <2>1, <2>3, <3>1, <3>2, <3>3 DEF Stops
    <3>5. s.place[Other(j)] # s.place[j]
      BY <2>1, <2>3 DEF OnceInv, Orderly
    <3>6. s.place[Other(j)] \in Nat /\ s.place[j] \in Nat
      BY <2>1 DEF Store
    <3> QED
      BY <3>4, <3>5, <3>6
  <2>4. Foremost(s, sp, r)
    BY <2>1, <2>3 DEF Foremost, IsFirst
  <2> QED
    BY <1>2, <2>2, <2>4 DEF OnceInv
<1> QED
  BY <1>1, <1>3, <1>4

\* Chats go: of a contact both do, or the store no longer takes them for one, or it is
\* excepted.
LEMMA RemoveOnce ==
    ASSUME NEW s \in Store, NEW t, NEW K \in SUBSET Jid, NEW sp, NEW sq, NEW c, NEW d, NEW f, NEW g,
           OnceInv(s, sp, c, f), sp \subseteq sq, c \in [Checks -> Judging],
           t.place = Remove(s, K).place, t.chats = Remove(s, K).chats, t.count = s.count,
           t.mapped \subseteq s.mapped,
           \A j \in K, i \in Jid \ K : i[1] = j[1] => i[1] \notin t.mapped \ sq,
           \A k \in Checks : /\ d[k].visited = c[k].visited \ K
                             /\ d[k].processed = c[k].processed
                             /\ d[k].stage = c[k].stage /\ d[k].jid = c[k].jid
                             /\ d[k].rec = IF c[k].jid \in K THEN "lost" ELSE c[k].rec,
           \A k \in Checks : c[k].stage = "judging" => c[k].jid \in Jid,
           \A j \in Jid : (g[j] # 0 /\ j[1] \notin sq) =>
               g[j] = f[j] /\ Known(s, j) \cap K = {} /\ Known(t, j) = Known(s, j)
    PROVE  OnceInv(t, sq, d, g)
<1>1. /\ \A i \in Jid \ K : t.place[i] = s.place[i] /\ t.chats[i] = s.chats[i]
      /\ \A i \in K : t.place[i] = 0 /\ ~t.chats[i].paused
  <2> DEFINE place == [j \in Jid |-> IF j \in K THEN 0 ELSE s.place[j]]
             chats == [j \in Jid |-> IF j \in K THEN Fresh ELSE s.chats[j]]
  <2>1. Remove(s, K).place = place /\ Remove(s, K).chats = chats
    BY DEF Remove, Store
  <2> QED
    BY <2>1 DEF Fresh
<1>2. /\ \A i \in Jid : Has(t, i) => i \notin K /\ Has(s, i)
      /\ \A i \in Jid \ K : Has(s, i) => Has(t, i)
  BY <1>1 DEF Has
<1>3. \A i \in Jid : Other(i) \in Jid /\ Other(i)[1] = i[1]
  BY Ids
<1>4. \A i \in Jid \ K : i[1] \in t.mapped \ sq => Other(i) \in Jid \ K /\ i[1] \in s.mapped \ sp
  BY <1>3
<1>5. Orderly(t)
  <2>1. \A i \in Jid : s.place[i] \in Nat /\ s.place[i] <= s.count /\ s.count \in Nat
    BY DEF OnceInv, Orderly, Store
  <2>2. \A i \in Jid : t.place[i] <= t.count
    BY <1>1, <2>1
  <2>3. ASSUME NEW i \in Jid, NEW j \in Jid, i # j, Has(t, i) PROVE t.place[i] # t.place[j]
    BY <1>1, <1>2, <2>3 DEF OnceInv, Orderly, Has
  <2> QED
    BY <2>2, <2>3 DEF Orderly
<1>6. Together(t, sq)
  <2> SUFFICES ASSUME NEW j \in Jid, t.chats[j].paused
               PROVE  Has(t, j) /\ (j[1] \in t.mapped \ sq => t.chats[Other(j)].paused)
    BY DEF Together
  <2>1. j \notin K /\ s.chats[j].paused
    BY <1>1
  <2> QED
    BY <1>1, <1>2, <1>4, <2>1 DEF OnceInv, Together
<1>7. ASSUME NEW k \in Checks PROVE Passed(t, sq, d[k].visited, d[k].processed)
  <2> SUFFICES ASSUME NEW i \in c[k].visited \ K
               PROVE  /\ Has(t, i)
                      /\ (i[1] \in t.mapped \ sq /\ Other(i) \notin c[k].visited \ K)
                            => Unified(t, i) \in c[k].processed \/ t.chats[i].paused
    BY DEF Passed
  <2>1. i \in Jid \ K /\ Passed(s, sp, c[k].visited, c[k].processed)
    BY DEF Judging, OnceInv
  <2>2. Has(s, i) /\ Has(t, i)
    BY <1>2, <2>1 DEF Passed
  <2>3. ASSUME i[1] \in t.mapped \ sq, Other(i) \notin c[k].visited \ K
        PROVE  Unified(t, i) \in c[k].processed \/ t.chats[i].paused
    <3>1. i[1] \in s.mapped \ sp /\ Other(i) \notin c[k].visited
      BY <1>4, <2>1, <2>3
    <3>2. Unified(t, i) = Unified(s, i)
      BY <2>3, <3>1 DEF Unified
    <3> QED
      BY <1>1, <2>1, <3>1, <3>2 DEF Passed
  <2> QED
    BY <2>2, <2>3
<1>8. ASSUME NEW k \in Checks PROVE Foremost(t, sq, d[k])
  <2> DEFINE j == c[k].jid
  <2> SUFFICES ASSUME c[k].stage = "judging", d[k].rec = "kept"
               PROVE  Has(t, j) /\ (j[1] \notin sq => IsFirst(t, j))
    BY DEF Foremost
  <2>1. j \in Jid \ K /\ c[k].rec = "kept"
    OBVIOUS
  <2>2. Has(s, j) /\ (j[1] \notin sp => IsFirst(s, j))
    BY <2>1 DEF OnceInv, Foremost
  <2>3. Has(t, j)
    BY <1>2, <2>1, <2>2
  <2>4. ASSUME j[1] \notin sq PROVE IsFirst(t, j)
    <3>1. IsFirst(s, j) /\ j[1] \notin sp
      BY <2>2, <2>4
    <3>2. ASSUME j[1] \in t.mapped, Has(t, Other(j)) PROVE t.place[j] < t.place[Other(j)]
      BY <1>1, <1>2, <1>3, <2>1, <3>1, <3>2 DEF IsFirst
    <3> QED
      BY <3>2 DEF IsFirst
  <2> QED
    BY <2>3, <2>4
<1>9. Followed(t, sq, g)
  <2> SUFFICES ASSUME NEW j \in Jid, g[j] # 0, j[1] \notin sq
               PROVE  \E i \in Known(t, j) : Has(t, i) /\ IsFirst(t, i) /\ t.chats[i].followedAt >= g[j]
    BY DEF Followed
  <2>1. g[j] = f[j] /\ Known(s, j) \cap K = {} /\ Known(t, j) = Known(s, j) /\ j[1] \notin sp
    OBVIOUS
  <2>2. PICK i \in Known(s, j) : Has(s, i) /\ IsFirst(s, i) /\ s.chats[i].followedAt >= f[j]
    BY <2>1 DEF OnceInv, Followed
  <2>3. i \in Jid \ K
    BY <2>1, KnownIds
  <2>4. IsFirst(t, i)
    BY <1>1, <1>2, <1>3, <2>2, <2>3 DEF IsFirst
  <2> QED
    BY <1>1, <1>2, <2>1, <2>2, <2>3, <2>4
<1> QED
  BY <1>5, <1>6, <1>7, <1>8, <1>9 DEF OnceInv

LEMMA LateHolds == ASSUME LateMapped \subseteq split' PROVE Late(store, store', split')
<1> SUFFICES ASSUME NEW j \in Jid, j[1] \in store'.mapped \ store.mapped, Has(store, j)
             PROVE  j[1] \in split'
  BY DEF Late
<1>1. j = <<j[1], "lid">> \/ j = <<j[1], "pn">>
  BY DEF Jid
<1> QED
  BY <1>1 DEF LateMapped

\* What a step has to show of its own when chats come and none goes.
LEMMA StillOnce ==
    ASSUME FInv, Grows(store, store'), Keeps(store, store'), LateMapped \subseteq split',
           split \subseteq split', store.mapped \subseteq store'.mapped, Together(store', split),
           UNCHANGED <<check, followUpAt>>
    PROVE  OnceInv(store', split', check', followUpAt')
<1>1. check \in [Checks -> Judging] /\ \A k \in Checks : check[k].stage = "judging" => check[k].jid \in Jid
  BY DEF FInv, IInv, TInv, TypeOK, Named
<1>2. Late(store, store', split') /\ Together(store', split')
  BY LateHolds, TogetherMore
<1> QED
  BY <1>1, <1>2, KeepsOnce DEF FInv

LEMMA MaybeLearnOnce ==
    ASSUME NEW s \in Store, NEW c \in Contacts, NEW named \in BOOLEAN, NEW sp, Together(s, sp)
    PROVE  LET t == IF named THEN Learn(s, c) ELSE s
           IN  t \in Store /\ Grows(s, t) /\ Keeps(s, t) /\ s.mapped \subseteq t.mapped /\ Together(t, sp)
<1>1. HeldPaused(s, {}) /\ Keeps(s, s) /\ Grows(s, s)
  BY AlikeGrows DEF HeldPaused, Keeps
<1>2. /\ Learn(s, c) \in Store /\ Keeps(s, Learn(s, c)) /\ Learn(s, c).mapped = s.mapped \cup {c}
      /\ Grows(s, Learn(s, c)) /\ Together(Learn(s, c), sp)
  BY <1>1, LearnStore, LearnGrows, LearnTogether
<1> QED
  BY <1>1, <1>2

LEMMA SameMapped == ASSUME store'.mapped = store.mapped PROVE LateMapped = {}
BY DEF LateMapped

LEMMA CustomerOnce ==
    ASSUME FInv, NEW j \in Jid, CustomerWrites(j)
    PROVE  OnceInv(store', split', check', followUpAt')
<1>1. store \in Store /\ j[1] \in Contacts /\ Together(store, split)
  BY Ids DEF FInv, OnceInv, IInv, TInv, TypeOK
<1>2. PICK named \in BOOLEAN : store' = Add(IF named THEN Learn(store, j[1]) ELSE store, j, FALSE)
  BY DEF CustomerWrites
<1> DEFINE t == IF named THEN Learn(store, j[1]) ELSE store
<1>3. t \in Store /\ Grows(store, t) /\ Keeps(store, t) /\ store.mapped \subseteq t.mapped /\ Together(t, split)
  BY <1>1, MaybeLearnOnce
<1>4. store' = Add(t, j, FALSE)
  BY <1>2
<1> HIDE DEF t
<1>5. Grows(t, store') /\ Keeps(t, store') /\ store'.mapped = t.mapped /\ Together(store', split)
  BY <1>3, <1>4, AddStore, AddGrows, AddTogether
<1>6. Grows(store, store') /\ Keeps(store, store')
  BY <1>3, <1>5, GrowsTwice, KeepsTwice
<1> QED
  BY <1>3, <1>5, <1>6, StillOnce DEF CustomerWrites

LEMMA StepOnce ==
    ASSUME FInv, NEW h \in Handlers, Step(h)
    PROVE  OnceInv(store', split', check', followUpAt')
<1>1. store \in Store /\ Together(store, split) /\ check \in [Checks -> Judging]
  BY DEF FInv, OnceInv, IInv, TInv, TypeOK
<1>2. handler[h].jid \in Jid /\ handler[h].jid[1] \in Contacts
  BY Ids DEF Step, Resolve, Choose, Answer, SendAway, GiveUp, FInv, IInv, TInv, Named
<1>3. CASE Resolve(h)
  <2>1. Grows(store, store') /\ Keeps(store, store') /\ store.mapped \subseteq store'.mapped /\ Together(store', split)
    BY <1>1, <1>2, <1>3, MaybeLearnOnce DEF Resolve
  <2> QED
    BY <1>3, <2>1, StillOnce DEF Resolve
<1> DEFINE s == Add(store, handler[h].jid, TRUE)
<1>4. s \in Store /\ Grows(store, s) /\ Keeps(store, s) /\ s.mapped = store.mapped /\ Together(s, split)
  BY <1>1, <1>2, AddStore, AddGrows, AddTogether
<1>5. CASE Answer(h)
  <2>1. store' = s /\ UNCHANGED <<check, followUpAt, split>>
    BY <1>5 DEF Answer, history
  <2> HIDE DEF s
  <2> QED
    BY <1>4, <2>1, SameMapped, StillOnce
<1>6. CASE SendAway(h)
  <2> DEFINE j == handler[h].jid
  <2>1. handler[h].rec # "none"
    BY <1>6 DEF SendAway, FInv, IInv, Recorded, Sound
  <2>2. store' = s \/ store' = [s EXCEPT !.chats[j].awayOn = Today]
    BY <1>6, <2>1 DEF SendAway
  <2>3. UNCHANGED <<check, followUpAt, split>>
    BY <1>6 DEF SendAway
  <2> HIDE DEF s, j
  <2>4. OnceInv(s, split, check, followUpAt)
    <3>1. Late(store, s, split)
      BY <1>4 DEF Late
    <3>2. \A k \in Checks : check[k].stage = "judging" => check[k].jid \in Jid
      BY DEF FInv, IInv, TInv, Named
    <3> QED
      BY <1>1, <1>4, <3>1, <3>2, KeepsOnce DEF FInv
  <2>5. CASE store' = [s EXCEPT !.chats[j].awayOn = Today]
    <3> DEFINE t == [s EXCEPT !.chats[j].awayOn = Today]
    <3>1. t.place = s.place /\ t.count = s.count /\ t.mapped = s.mapped
      BY <1>4 DEF Store
    <3>2. \A i \in Jid : t.chats[i].paused = s.chats[i].paused /\ t.chats[i].followedAt = s.chats[i].followedAt
      BY <1>4 DEF Store, Chat
    <3> HIDE DEF t
    <3>3. OnceInv(t, split, check, followUpAt)
      BY <1>1, <2>4, <3>1, <3>2, AlikeOnce
    <3> QED
      BY <2>3, <2>5, <3>3 DEF t
  <2> QED
    BY <2>2, <2>3, <2>4, <2>5
<1>7. CASE Choose(h) \/ GiveUp(h)
  BY <1>7 DEF Choose, GiveUp, history, FInv
<1> QED
  BY <1>3, <1>5, <1>6, <1>7 DEF Step

LEMMA PauseKeeps ==
    ASSUME NEW s \in Store, NEW j \in Jid, NEW b \in BOOLEAN
    PROVE  b => Keeps(s, Pause(s, j, b))
<1> DEFINE t == Pause(s, j, b)
<1>1. /\ t.mapped = s.mapped
      /\ \A i \in Jid : Has(s, i) => Has(t, i)
      /\ \A i \in Known(s, j) : Has(t, i) /\ (t.chats[i].paused <=> b)
      /\ \A i \in Jid \ Known(s, j) : Has(s, i) => (t.chats[i].paused = s.chats[i].paused)
  BY PauseStore
<1> HIDE DEF t
<1>2. b => Keeps(s, t)
  BY <1>1 DEF Keeps
<1> QED
  BY <1>2 DEF t

LEMMA HumanOnce ==
    ASSUME FInv, NEW j \in Jid, HumanWrites(j)
    PROVE  OnceInv(store', split', check', followUpAt')
<1> DEFINE s == Add(store, j, TRUE)
           t == Pause(s, j, TRUE)
<1>1. store \in Store /\ Together(store, split)
  BY DEF FInv, OnceInv, IInv, TInv, TypeOK
<1>2. s \in Store /\ Grows(store, s) /\ Keeps(store, s) /\ s.mapped = store.mapped /\ Together(s, split)
  BY <1>1, AddStore, AddGrows, AddTogether
<1>3. store' = t /\ UNCHANGED <<check, followUpAt, split>>
  BY DEF HumanWrites, work
<1> HIDE DEF s
<1>4. Grows(s, t) /\ t.mapped = s.mapped /\ Together(t, split)
  BY <1>2, PauseStore, PauseGrows, PauseTogether
<1>5. Keeps(s, t)
  BY <1>2, PauseKeeps
<1> HIDE DEF t
<1>6. Grows(store, t) /\ Keeps(store, t)
  BY <1>2, <1>4, <1>5, GrowsTwice, KeepsTwice
<1> QED
  BY <1>2, <1>3, <1>4, <1>6, SameMapped, StillOnce

\* A pause that is lifted between the two chats of a contact is the case that is excepted.
LEMMA ToggleOnce ==
    ASSUME FInv, NEW j \in Jid, NEW b \in BOOLEAN, ToggleChatAI(j, b)
    PROVE  OnceInv(store', split', check', followUpAt')
<1>1. store \in Store /\ check \in [Checks -> Judging] /\ OnceInv(store, split, check, followUpAt)
  BY DEF FInv, IInv, TInv, TypeOK
<1>2. /\ store' = Pause(store, j, b) /\ UNCHANGED <<check, followUpAt>>
      /\ split' = IF ~b /\ CheckBetween(j) THEN split \cup {j[1]} ELSE split
  BY DEF ToggleChatAI, work
<1>3. /\ Grows(store, store') /\ store'.mapped = store.mapped /\ Together(store', split)
      /\ \A i \in Jid : Has(store, i) => Has(store', i)
      /\ \A i \in Known(store, j) : store'.chats[i].paused <=> b
      /\ \A i \in Jid \ Known(store, j) : Has(store, i) => (store'.chats[i].paused = store.chats[i].paused)
  BY <1>1, <1>2, PauseStore, PauseGrows, PauseTogether DEF OnceInv
<1>4. split \subseteq split' /\ Together(store', split') /\ Late(store, store', split')
  BY <1>2, <1>3, TogetherMore DEF Late
<1>5. ASSUME NEW k \in Checks PROVE Passed(store', split', check[k].visited, check[k].processed)
  <2> DEFINE visited == check[k].visited
  <2>1. visited \subseteq Jid /\ Passed(store, split, visited, check[k].processed)
    BY <1>1 DEF Judging, OnceInv
  <2> SUFFICES ASSUME NEW i \in visited
               PROVE  /\ Has(store', i)
                      /\ (i[1] \in store'.mapped \ split' /\ Other(i) \notin visited)
                            => Unified(store', i) \in check[k].processed \/ store'.chats[i].paused
    BY DEF Passed
  <2>2. i \in Jid /\ Has(store, i) /\ Has(store', i)
    BY <1>3, <2>1 DEF Passed
  <2>3. ASSUME i[1] \in store'.mapped \ split', Other(i) \notin visited
        PROVE  Unified(store', i) \in check[k].processed \/ store'.chats[i].paused
    <3>1. Unified(store, i) \in check[k].processed \/ store.chats[i].paused
      BY <1>3, <1>4, <2>1, <2>3 DEF Passed
    <3>2. Unified(store', i) = Unified(store, i)
      BY <1>3 DEF Unified
    <3>3. CASE i \in Known(store, j) /\ ~b
      <4>1. Known(store, j) = {i, Other(i)} /\ j[1] = i[1]
        BY <1>3, <2>2, <2>3, <3>3, Ids, KnownIds
      <4>2. CheckBetween(j)
        BY <2>3, <4>1 DEF CheckBetween
      <4> QED
        BY <1>2, <2>3, <3>3, <4>1, <4>2
    <3>4. CASE ~(i \in Known(store, j) /\ ~b)
      BY <1>3, <2>2, <3>1, <3>2, <3>4
    <3> QED
      BY <3>3, <3>4
  <2> QED
    BY <2>2, <2>3
<1>6. \A k \in Checks : check[k].stage = "judging" => check[k].jid \in Jid
  BY DEF FInv, IInv, TInv, Named
<1>7. OnceInv(store', split', check, followUpAt)
  BY <1>1, <1>3, <1>4, <1>5, <1>6, GrowsOnce
<1> QED
  BY <1>2, <1>7

LEMMA LoseOnce ==
    ASSUME TInv, NEW K \in SUBSET Jid, Lose(K), NEW k \in Checks
    PROVE  /\ check'[k].visited = check[k].visited \ K
           /\ check'[k].processed = check[k].processed
           /\ check'[k].stage = check[k].stage /\ check'[k].jid = check[k].jid
           /\ check'[k].rec = IF check[k].jid \in K THEN "lost" ELSE check[k].rec
<1>1. check[k] \in Judging
  BY DEF TInv, TypeOK
<1>2. check'[k] = [check[k] EXCEPT !.rec = IF check[k].jid \in K THEN "lost" ELSE @,
                                   !.visited = @ \ K]
  BY Zenon DEF Lose
<1> QED
  BY <1>1, <1>2 DEF Judging

LEMMA DeleteOnce ==
    ASSUME FInv, NEW j \in Jid, DeleteChat(j)
    PROVE  OnceInv(store', split', check', followUpAt')
<1> DEFINE K == Known(store, j)
           s == Remove(store, K)
<1>1. /\ store \in Store /\ TInv /\ check \in [Checks -> Judging] /\ followUpAt \in [Jid -> Nat]
      /\ \A k \in Checks : check[k].stage = "judging" => check[k].jid \in Jid
  BY DEF FInv, IInv, TInv, TypeOK, Named
<1>2. K \in SUBSET Jid /\ j \in K /\ \A i \in K : i[1] = j[1]
  BY Ids, KnownIds
<1>3. store' = [s EXCEPT !.mapped = @ \ {j[1]}] /\ Lose(K) /\ split' = split
  BY DEF DeleteChat
<1>4. followUpAt' = [i \in Jid |-> IF i \in K THEN 0 ELSE followUpAt[i]]
  BY DEF DeleteChat, Forget
<1>5. \A i \in Jid \ K : i[1] = j[1] => i[1] \notin store.mapped
  BY Ids, KnownIds
<1>6. ASSUME NEW i \in Jid \ K
      PROVE  Known(store, i) \cap K = {} /\ (i[1] \in store.mapped => i[1] # j[1])
  <2>1. i[1] \in store.mapped => i[1] # j[1]
    BY <1>5
  <2>2. \A m \in Known(store, i) : m[1] = i[1] /\ (i[1] \notin store.mapped => m = i)
    BY Ids, KnownIds
  <2> QED
    BY <1>2, <2>1, <2>2
<1> HIDE DEF K
<1>7. s \in Store /\ s.mapped = store.mapped /\ s.count = store.count
  BY <1>1, <1>2, RemoveStore
<1>8. /\ store'.place = s.place /\ store'.chats = s.chats /\ store'.count = store.count
      /\ store'.mapped = store.mapped \ {j[1]}
  BY <1>3, <1>7 DEF Store
<1>9. \A i \in Jid : followUpAt'[i] # 0 =>
          /\ followUpAt'[i] = followUpAt[i] /\ Known(store, i) \cap K = {}
          /\ Known(store', i) = Known(store, i)
  BY <1>4, <1>6, <1>8 DEF Known
<1>10. \A i \in K, m \in Jid \ K : m[1] = i[1] => m[1] \notin store'.mapped \ split'
  BY <1>2, <1>8
<1>11. \A k \in Checks : /\ check'[k].visited = check[k].visited \ K
                         /\ check'[k].processed = check[k].processed
                         /\ check'[k].stage = check[k].stage /\ check'[k].jid = check[k].jid
                         /\ check'[k].rec = IF check[k].jid \in K THEN "lost" ELSE check[k].rec
  BY <1>1, <1>2, <1>3, LoseOnce
<1>12. OnceInv(store, split, check, followUpAt) /\ split \subseteq split' /\ store'.mapped \subseteq store.mapped
  BY <1>3, <1>8 DEF FInv
<1> QED
  BY <1>1, <1>2, <1>8, <1>9, <1>10, <1>11, <1>12, RemoveOnce DEF s

LEMMA PhoneOnce ==
    ASSUME FInv, NEW j \in Jid, PhoneDeletes(j)
    PROVE  OnceInv(store', split', check', followUpAt')
<1> DEFINE K == {j}
<1>1. /\ store \in Store /\ TInv /\ check \in [Checks -> Judging] /\ followUpAt \in [Jid -> Nat]
      /\ split \subseteq Contacts
      /\ \A k \in Checks : check[k].stage = "judging" => check[k].jid \in Jid
  BY DEF FInv, IInv, TInv, TypeOK, Named
<1>2. K \in SUBSET Jid
  OBVIOUS
<1>3. store' = Remove(store, K) /\ Lose(K) /\ split' = split \cup {j[1]}
  BY DEF PhoneDeletes
<1>4. followUpAt' = [i \in Jid |-> IF i \in Known(store, j) THEN 0 ELSE followUpAt[i]]
  BY DEF PhoneDeletes, Forget
<1>5. store'.mapped = store.mapped /\ store'.count = store.count
  BY <1>1, <1>2, <1>3, RemoveStore
<1>6. ASSUME NEW i \in Jid, followUpAt'[i] # 0, i[1] \notin split'
      PROVE  /\ followUpAt'[i] = followUpAt[i] /\ Known(store, i) \cap K = {}
             /\ Known(store', i) = Known(store, i)
  <2>1. j[1] # i[1] /\ \A m \in Known(store, i) : m[1] = i[1]
    BY <1>3, <1>6, Ids, KnownIds
  <2> QED
    BY <1>4, <1>5, <1>6, <2>1 DEF Known
<1>7. \A i \in K, m \in Jid \ K : m[1] = i[1] => m[1] \notin store'.mapped \ split'
  BY <1>3
<1>8. \A k \in Checks : /\ check'[k].visited = check[k].visited \ K
                        /\ check'[k].processed = check[k].processed
                        /\ check'[k].stage = check[k].stage /\ check'[k].jid = check[k].jid
                        /\ check'[k].rec = IF check[k].jid \in K THEN "lost" ELSE check[k].rec
  BY <1>1, <1>2, <1>3, LoseOnce
<1>9. OnceInv(store, split, check, followUpAt) /\ split \subseteq split' /\ store'.mapped \subseteq store.mapped
  BY <1>3, <1>5 DEF FInv
<1> HIDE DEF K
<1> QED
  BY <1>1, <1>2, <1>3, <1>5, <1>6, <1>7, <1>8, <1>9, RemoveOnce

LEMMA TellOnce ==
    ASSUME FInv, NEW c \in Contacts, TellMapping(c)
    PROVE  OnceInv(store', split', check', followUpAt')
<1>1. store \in Store /\ Together(store, split) /\ HeldPaused(store, {})
  BY DEF FInv, OnceInv, IInv, TInv, TypeOK, HeldPaused
<1>2. /\ Keeps(store, Learn(store, c)) /\ Learn(store, c).mapped = store.mapped \cup {c}
      /\ Grows(store, Learn(store, c)) /\ Together(Learn(store, c), split)
  BY <1>1, LearnStore, LearnGrows, LearnTogether
<1> QED
  BY <1>2, StillOnce DEF TellMapping, work

\* A judgement: the mark is on the chat that is judged, which is the first of its contact.
LEMMA DecidedOnce ==
    ASSUME FInv, NEW k \in Checks, Judge(k)
    PROVE  OnceInv(store', split, check, followUpAt')
<1>1. /\ store \in Store /\ Len(store.log) \in Nat /\ TInv /\ Together(store, split)
      /\ OnceInv(store, split, check, followUpAt)
      /\ check \in [Checks -> Judging] /\ followUpAt \in [Jid -> 0 .. Len(store.log)]
      /\ \A i \in Checks : check[i].stage = "judging" => check[i].jid \in Jid
  BY DEF FInv, OnceInv, IInv, TInv, TypeOK, Named, Store
<1> DEFINE j == check[k].jid
<1>2. /\ check[k].stage = "judging" /\ check[k].stage # "off" /\ j \in Jid
      /\ check[k].last \in Nat /\ check[k].rec \in {"kept", "lost"}
  BY <1>1 DEF Judge, Judging
<1>3. ASSUME NEW s \in Store, NEW n \in Nat, OnceInv(s, split, check, followUpAt),
             Len(s.log) >= Len(store.log)
      PROVE  OnceInv(Mark(s, k, n), split, check, followUpAt)
  <2> DEFINE t == Mark(s, k, n)
  <2>1. t.place = s.place /\ t.mapped = s.mapped /\ \A i \in Jid : t.chats[i].paused = s.chats[i].paused
    BY <1>1, <1>2, <1>3, MarkStore
  <2>2. /\ t.count = s.count
        /\ \A i \in Jid : i # j => t.chats[i] = s.chats[i]
        /\ check[k].rec = "kept" => t.chats[j].followedAt = Len(s.log)
        /\ check[k].rec = "lost" => t = s
    BY <1>1, <1>2, <1>3, MarkAlike
  <2>3. \A i \in Jid : followUpAt[i] <= Len(s.log)
    BY <1>1, <1>3 DEF Store
  <2> HIDE DEF t, j
  <2>4. \A i, m \in Jid : s.chats[i].followedAt >= followUpAt[m] => t.chats[i].followedAt >= followUpAt[m]
    BY <1>2, <2>2, <2>3
  <2>5. OnceInv(t, split, check, followUpAt)
    BY <1>1, <1>3, <2>1, <2>2, <2>4, AlikeOnce
  <2> QED
    BY <2>5 DEF t
<1>4. CASE LetBe(k)
  BY <1>1, <1>2, <1>3, <1>4 DEF LetBe
<1>5. CASE Leave(k)
  BY <1>1, <1>5 DEF Leave
<1>6. CASE FollowUp(k)
  <2> DEFINE s == Add(store, j, TRUE)
             t == Mark(s, k, Len(s.log))
  <2>1. /\ s \in Store /\ Grows(store, s) /\ Keeps(store, s) /\ s.mapped = store.mapped
        /\ Together(s, split) /\ Len(s.log) = Len(store.log) + 1
    BY <1>1, <1>2, AddStore, AddGrows, AddTogether
  <2>2. store' = t
    BY <1>6 DEF FollowUp
  <2>3. followUpAt' = [i \in Jid |-> IF i \in Known(s, j) /\ check[k].rec = "kept"
                                     THEN Len(s.log) ELSE followUpAt[i]]
    BY <1>6 DEF FollowUp
  <2> HIDE DEF s
  <2>4. OnceInv(s, split, check, followUpAt)
    <3>1. Late(store, s, split)
      BY <2>1 DEF Late
    <3> QED
      BY <1>1, <2>1, <3>1, KeepsOnce
  <2>5. Len(s.log) \in Nat /\ Len(s.log) >= Len(store.log)
    BY <1>1, <2>1
  <2>6. OnceInv(t, split, check, followUpAt)
    BY <1>3, <2>1, <2>4, <2>5
  <2>7. /\ t.place = s.place /\ t.mapped = s.mapped
        /\ check[k].rec = "kept" => t.chats[j].followedAt = Len(s.log)
    BY <1>1, <1>2, <2>1, <2>5, MarkStore, MarkAlike
  <2> HIDE DEF t
  <2>8. Followed(t, split, followUpAt')
    <3> SUFFICES ASSUME NEW m \in Jid, followUpAt'[m] # 0, m[1] \notin split
                 PROVE  \E i \in Known(t, m) :
                            Has(t, i) /\ IsFirst(t, i) /\ t.chats[i].followedAt >= followUpAt'[m]
      BY DEF Followed
    <3>1. CASE m \in Known(s, j) /\ check[k].rec = "kept"
      <4>1. followUpAt'[m] = Len(s.log) /\ t.chats[j].followedAt = Len(s.log)
        BY <2>3, <2>7, <3>1
      <4>2. j \in Known(t, m) /\ m[1] = j[1]
        <5>1. m[1] = j[1] /\ (m = j \/ (m = Other(j) /\ j[1] \in t.mapped))
          BY <1>2, <2>7, <3>1, Ids, KnownIds
        <5> QED
          BY <1>2, <5>1, Ids DEF Known
      <4>3. Has(t, j) /\ IsFirst(t, j)
        BY <1>2, <2>6, <3>1, <4>2 DEF OnceInv, Foremost
      <4> QED
        BY <2>5, <4>1, <4>2, <4>3
    <3>2. CASE ~(m \in Known(s, j) /\ check[k].rec = "kept")
      <4>1. followUpAt'[m] = followUpAt[m]
        BY <2>3, <3>2
      <4> QED
        BY <2>6, <4>1 DEF OnceInv, Followed
    <3> QED
      BY <3>1, <3>2
  <2> QED
    BY <2>2, <2>6, <2>8 DEF OnceInv
<1> QED
  BY <1>4, <1>5, <1>6 DEF Judge

LEMMA JudgeOnce ==
    ASSUME FInv, NEW k \in Checks, Judge(k)
    PROVE  OnceInv(store', split', check', followUpAt')
<1>1. check \in [Checks -> Judging] /\ store' \in Store
  BY JudgeStore DEF FInv, IInv, TInv, TypeOK
<1>2. check[k].visited \in SUBSET Jid /\ check[k].processed \in SUBSET Jid
  BY <1>1 DEF Judging
<1>3. OnceInv(store', split, check, followUpAt')
  BY DecidedOnce
<1>4. Passed(store', split, check[k].visited, check[k].processed)
  BY <1>3 DEF OnceInv
<1>5. check' = [check EXCEPT ![k] = Scan(store', check[k].visited, check[k].processed)] /\ split' = split
  BY DEF Judge
<1> QED
  BY <1>1, <1>2, <1>3, <1>4, <1>5, ScanOnce

LEMMA StartOnce ==
    ASSUME FInv, StartCheck
    PROVE  OnceInv(store', split', check', followUpAt')
<1>1. check \in [Checks -> Judging] /\ store \in Store /\ OnceInv(store, split, check, followUpAt)
  BY DEF FInv, IInv, TInv, TypeOK
<1>2. Free(Checks, check) \in Checks /\ {} \in SUBSET Jid
  BY DEF StartCheck, Free
<1>3. Passed(store, split, {}, {})
  BY DEF Passed
<1>4. /\ check' = [check EXCEPT ![Free(Checks, check)] = Scan(store, {}, {})]
      /\ UNCHANGED <<store, split, followUpAt>>
  BY DEF StartCheck, history
<1>5. OnceInv(store, split, check', followUpAt)
  BY <1>1, <1>2, <1>3, <1>4, ScanOnce
<1> QED
  BY <1>4, <1>5

LEMMA NextOnce == ASSUME FInv, MayRace = FALSE, [Next]_vars PROVE FInv'
<1>1. IInv'
  BY NextHeld DEF FInv
<1>2. CASE Reconnect
  <2>1. UNCHANGED <<store, split, followUpAt>> /\ check' = [k \in Checks |-> Ended]
    BY <1>2 DEF Reconnect, history
  <2>2. \A k \in Checks : check'[k].visited = {} /\ check'[k].stage = "off"
    BY <2>1 DEF Ended
  <2> QED
    BY <1>1, <2>1, <2>2 DEF FInv, OnceInv, Passed, Foremost
<1>3. CASE HoursPass \/ DelayPasses \/ UNCHANGED vars
  <2>1. UNCHANGED <<store, split, check, followUpAt>>
    BY <1>3 DEF HoursPass, DelayPasses, vars, work, history
  <2> QED
    BY <1>1, <2>1 DEF FInv
<1>4. CASE ~(Reconnect \/ HoursPass \/ DelayPasses \/ UNCHANGED vars)
  <2>1. OnceInv(store', split', check', followUpAt')
    BY <1>4, CustomerOnce, HumanOnce, DeleteOnce, PhoneOnce, ToggleOnce, TellOnce, StepOnce,
       JudgeOnce, StartOnce DEF Next
  <2> QED
    BY <1>1, <2>1 DEF FInv
<1> QED
  BY <1>2, <1>3, <1>4

\* What a check picks is due by its own marks, and the follow-ups of its contact are there.
LEMMA PickedOnce ==
    ASSUME NEW s \in Store, NEW sp, NEW c \in [Checks -> Judging], NEW f \in [Jid -> Nat],
           OnceInv(s, sp, c, f), NEW k \in Checks,
           NEW visited \in SUBSET Jid, NEW processed \in SUBSET Jid,
           c[k] = Scan(s, visited, processed), c[k] # Ended, c[k].jid[1] \notin sp
    PROVE  f[c[k].jid] = 0 \/ f[c[k].jid] < LastSpoken(s, c[k].jid)
<1> DEFINE j == c[k].jid
<1>1. Stops(s, visited, processed, c[k])
  BY ScanStops
<1>2. /\ j \in Jid /\ Has(s, j) /\ Due(s, j)
      /\ c[k].stage = "judging" /\ c[k].rec = "kept"
  BY <1>1 DEF Stops
<1>3. IsFirst(s, j)
  BY <1>2 DEF OnceInv, Foremost
<1>4. LastSpoken(s, j) \in Nat /\ s.chats[j].followedAt \in Nat /\ f[j] \in Nat
      /\ \A i \in Jid : s.place[i] \in Nat
  <2>1. s.chats[j] \in Chat /\ Len(s.log) \in Nat /\ \A i \in Jid : s.place[i] \in Nat
    BY <1>2 DEF Store
  <2>2. LastSpoken(s, j) \in 0 .. Len(s.log)
    BY <1>2, LastIsThere
  <2>3. s.chats[j].followedAt \in Nat
    BY <2>1 DEF Chat
  <2> QED
    BY <1>2, <2>1, <2>2, <2>3
<1> SUFFICES ASSUME f[j] # 0 PROVE f[j] < LastSpoken(s, j)
  OBVIOUS
<1>5. PICK i \in Known(s, j) : Has(s, i) /\ IsFirst(s, i) /\ s.chats[i].followedAt >= f[j]
  BY <1>2 DEF OnceInv, Followed
<1>6. i = j
  <2> SUFFICES ASSUME i # j PROVE FALSE
    OBVIOUS
  <2>1. i = Other(j) /\ j[1] \in s.mapped /\ i \in Jid /\ Other(i) = j /\ i[1] = j[1]
    BY <1>2, <1>5, Ids, KnownIds
  <2>2. s.place[j] < s.place[i] /\ s.place[i] < s.place[j]
    BY <1>2, <1>3, <1>5, <2>1 DEF IsFirst
  <2> QED
    BY <1>2, <1>4, <2>1, <2>2
<1>7. ~(s.chats[j].followedAt > 0 /\ s.chats[j].followedAt >= LastSpoken(s, j))
  BY <1>2 DEF Due
<1> HIDE DEF j
<1> QED
  BY <1>4, <1>5, <1>6, <1>7

LEMMA FollowUpStep ==
    ASSUME FInv, FInv', Next, NEW k \in Checks, Picks(k), check'[k].jid[1] \notin split'
    PROVE  LET j == check'[k].jid
           IN  followUpAt[j] = 0 \/ followUpAt[j] < LastSpoken(store', j)
<1>1. /\ check \in [Checks -> Judging] /\ store \in Store /\ Len(store.log) \in Nat
      /\ check' \in [Checks -> Judging] /\ store' \in Store /\ Len(store'.log) \in Nat
      /\ followUpAt \in [Jid -> 0 .. Len(store.log)]
      /\ followUpAt' \in [Jid -> 0 .. Len(store'.log)]
      /\ OnceInv(store', split', check', followUpAt')
  BY DEF FInv, IInv, TInv, TypeOK, Store
<1>2. followUpAt \in [Jid -> Nat] /\ followUpAt' \in [Jid -> Nat]
  BY <1>1
<1>3. check'[k] # Ended
  BY DEF Picks, Ended
<1>4. CASE \E c \in Checks : Judge(c)
  <2>1. PICK c \in Checks : Judge(c)
    BY <1>4
  <2>2. check' = [check EXCEPT ![c] = Scan(store', check[c].visited, check[c].processed)]
    BY <2>1 DEF Judge
  <2>3. c = k
    BY <1>1, <2>2 DEF Picks
  <2>4. check[k].visited \in SUBSET Jid /\ check[k].processed \in SUBSET Jid
    BY <1>1 DEF Judging
  <2>5. check'[k] = Scan(store', check[k].visited, check[k].processed)
    BY <1>1, <2>2, <2>3
  <2> DEFINE j == check'[k].jid
  <2>6. followUpAt'[j] = 0 \/ followUpAt'[j] < LastSpoken(store', j)
    BY <1>1, <1>2, <1>3, <2>4, <2>5, PickedOnce
  <2>7. j \in Jid
    BY <1>1, <1>3, <2>4, <2>5, ScanPicks
  <2>8. followUpAt'[j] >= followUpAt[j]
    <3>1. CASE FollowUp(k)
      <4> DEFINE s == Add(store, check[k].jid, TRUE)
      <4>1. check[k].jid \in Jid
        BY <2>1, <2>3 DEF Judge, FInv, IInv, TInv, Named
      <4>2. Len(s.log) = Len(store.log) + 1
        BY <1>1, <4>1, AddStore
      <4>3. followUpAt'[j] = followUpAt[j] \/ followUpAt'[j] = Len(s.log)
        BY <2>7, <3>1 DEF FollowUp
      <4> HIDE DEF s, j
      <4> QED
        BY <1>1, <1>2, <2>7, <4>2, <4>3
    <3>2. CASE LetBe(k) \/ Leave(k)
      BY <1>2, <2>7, <3>2 DEF LetBe, Leave
    <3> QED
      BY <2>1, <2>3, <3>1, <3>2 DEF Judge
  <2>9. LastSpoken(store', j) \in Nat
    BY <1>1, <2>7, LastIsThere
  <2> HIDE DEF j
  <2>10. followUpAt[j] = 0 \/ followUpAt[j] < LastSpoken(store', j)
    BY <1>2, <2>6, <2>7, <2>8, <2>9
  <2> QED
    BY <2>10 DEF j
<1>5. CASE StartCheck
  <2>1. check' = [check EXCEPT ![Free(Checks, check)] = Scan(store', {}, {})] /\ followUpAt' = followUpAt
    BY <1>5 DEF StartCheck, history
  <2>2. k = Free(Checks, check)
    BY <1>1, <2>1 DEF Picks
  <2>3. check'[k] = Scan(store', {}, {})
    BY <1>1, <2>1, <2>2
  <2>4. {} \in SUBSET Jid
    OBVIOUS
  <2> QED
    BY <1>1, <1>2, <1>3, <2>1, <2>3, <2>4, PickedOnce
<1>6. CASE \E j \in Jid : DeleteChat(j) \/ PhoneDeletes(j)
  <2>1. PICK K \in SUBSET Jid : Lose(K)
    <3>1. PICK j \in Jid : DeleteChat(j) \/ PhoneDeletes(j)
      BY <1>6
    <3>2. Known(store, j) \in SUBSET Jid /\ {j} \in SUBSET Jid
      BY KnownIds
    <3> QED
      BY <3>1, <3>2 DEF DeleteChat, PhoneDeletes
  <2>2. check'[k].visited = check[k].visited \ K
    BY <2>1, LoseOnce DEF FInv, IInv
  <2> QED
    BY <2>2 DEF Picks
<1>7. CASE Reconnect
  BY <1>3, <1>7 DEF Reconnect
<1>8. CASE check' = check
  BY <1>8 DEF Picks
<1> QED
  BY <1>4, <1>5, <1>6, <1>7, <1>8 DEF Next, CustomerWrites, HumanWrites, ToggleChatAI, TellMapping,
     Step, Resolve, Choose, Answer, SendAway, GiveUp, HoursPass, DelayPasses, work

\* If no chat is deleted while the database looks for its chatbot, a chat that was followed
\* up is not picked again before the customer speaks, under either id: the marks are on the
\* chat of the contact that came first, and every check that gets there judges that one.
\* Excepted are the contacts in split.
THEOREM FollowUpComesOnce == ASSUME MayRace = FALSE PROVE Spec => FollowUpOnce
<1>1. Init => FInv
  <2> SUFFICES ASSUME Init PROVE FInv
    OBVIOUS
  <2>1. IInv
    <3>1. HeldPaused(store, held) /\ Recorded
      BY DEF Init, HeldPaused, Recorded, Sound, Done
    <3> QED
      BY <3>1, InitTyped DEF IInv
  <2>2. Orderly(store) /\ Together(store, split)
    BY DEF Init, Orderly, Together, Has, Fresh
  <2>3. \A k \in Checks : /\ Passed(store, split, check[k].visited, check[k].processed)
                          /\ Foremost(store, split, check[k])
    BY DEF Init, Passed, Foremost, Ended
  <2>4. Followed(store, split, followUpAt)
    BY DEF Init, Followed
  <2> QED
    BY <2>1, <2>2, <2>3, <2>4 DEF FInv, OnceInv
<1>2. FInv /\ [Next]_vars => FInv'
  BY NextOnce
<1>3. FInv /\ FInv' /\ [Next]_vars =>
        [\A k \in Checks : (Picks(k) /\ check'[k].jid[1] \notin split') =>
            LET j == check'[k].jid
            IN  followUpAt[j] = 0 \/ followUpAt[j] < LastSpoken(store', j)]_vars
  BY FollowUpStep
<1> QED
  BY <1>1, <1>2, <1>3, PTL DEF Spec, FollowUpOnce
=============================================================================
