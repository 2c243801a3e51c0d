-------------------------- MODULE MarketFeedProofs --------------------------
(***************************************************************************)
(* A subscriber of the feed is told of a command once and, as long as the  *)
(* partition changes hands by crashes only, in the order of the queue; and *)
(* whoever subscribes before reading the book misses nothing.  For any     *)
(* processes, clients and commands, any number of crashes, failing calls   *)
(* and broken connections.                                                 *)
(***************************************************************************)
EXTENDS MarketFeed, CommandWorkerProofs

Note == [command : Command, done : BOOLEAN]

-----------------------------------------------------------------------------
(* Sequences on the way from the workers to the clients *)

\* What clients have seen, what is in the inbox and what is pending, in this order, are
\* pairwise in the relation R.
SeenChain(sn, R) ==
  \A k \in Client : \A i, j \in 1..Len(sn[k]) : i < j => <<sn[k][i], sn[k][j]>> \in R

InboxChain(ib, R) ==
  \A i, j \in 1..Len(ib) : i < j => <<ib[i].command, ib[j].command>> \in R

PendingChain(pd, R) ==
  \A p \in Process : \A i, j \in 1..Len(pd[p]) :
    i < j => <<pd[p][i].command, pd[p][j].command>> \in R

SeenInbox(sn, ib, R) ==
  \A k \in Client : \A i \in 1..Len(sn[k]), j \in 1..Len(ib) : <<sn[k][i], ib[j].command>> \in R

SeenPending(sn, pd, R) ==
  \A k \in Client, p \in Process : \A i \in 1..Len(sn[k]), j \in 1..Len(pd[p]) :
    <<sn[k][i], pd[p][j].command>> \in R

InboxPending(ib, pd, R) ==
  \A p \in Process : \A i \in 1..Len(ib), j \in 1..Len(pd[p]) :
    <<ib[i].command, pd[p][j].command>> \in R

AcrossPending(pd, R) ==
  \A p, q \in Process : p # q => \A i \in 1..Len(pd[p]), j \in 1..Len(pd[q]) :
    <<pd[p][i].command, pd[q][j].command>> \in R

Chained(sn, ib, pd, R) ==
  /\ SeenChain(sn, R) /\ InboxChain(ib, R) /\ PendingChain(pd, R)
  /\ SeenInbox(sn, ib, R) /\ SeenPending(sn, pd, R) /\ InboxPending(ib, pd, R)
  /\ AcrossPending(pd, R)

\* Clients have seen commands of the set C, and notes of the set N are on their way.
FeedSequences(sn, ib, pd, C, N) ==
  /\ sn \in [Client -> Seq(C)] /\ ib \in Seq(N) /\ pd \in [Process -> Seq(N)]
  /\ \A m \in N : m.command \in C

\* What is left of a sequence whose first element is taken.
LEMMA TailOf ==
  ASSUME NEW S, NEW s \in Seq(S), s # <<>>
  PROVE  /\ Len(s) \in Nat \ {0} /\ Tail(s) \in Seq(S) /\ Head(s) = s[1] /\ s[1] \in S
         /\ Len(Tail(s)) = Len(s) - 1
         /\ \A i \in 1..Len(Tail(s)) : Tail(s)[i] = s[i + 1] /\ i + 1 \in 1..Len(s) /\ 1 < i + 1
<1>1. Len(s) \in Nat /\ Len(s) # 0
  BY EmptySeq, LenProperties
<1>2. Head(s) = s[1] /\ Tail(s) \in Seq(S) /\ Len(Tail(s)) = Len(s) - 1
      /\ \A i \in 1..Len(Tail(s)) : Tail(s)[i] = s[i + 1]
  BY HeadTailProperties
<1>3. s[1] \in S
  BY <1>1, ElementOfSeq
<1>4. QED
  BY <1>1, <1>2, <1>3

LEMMA AppendOf ==
  ASSUME NEW S, NEW s \in Seq(S), NEW e \in S
  PROVE  /\ Append(s, e) \in Seq(S) /\ Len(s) \in Nat /\ Len(Append(s, e)) = Len(s) + 1
         /\ \A i \in 1..Len(s) : Append(s, e)[i] = s[i]
         /\ Append(s, e)[Len(s) + 1] = e
         /\ \A i \in 1..Len(Append(s, e)) : i \in 1..Len(s) \/ i = Len(s) + 1
BY AppendProperties, LenProperties

\* The members of these sequences.
LEMMA SequenceMembers ==
  ASSUME NEW sn, NEW ib, NEW pd, NEW C, NEW N, FeedSequences(sn, ib, pd, C, N)
  PROVE  /\ \A k \in Client : sn[k] \in Seq(C) /\ \A i \in 1..Len(sn[k]) : sn[k][i] \in C
         /\ \A i \in 1..Len(ib) : ib[i] \in N /\ ib[i].command \in C
         /\ \A p \in Process :
              pd[p] \in Seq(N) /\ \A i \in 1..Len(pd[p]) : pd[p][i] \in N /\ pd[p][i].command \in C
<1>1. \A k \in Client : sn[k] \in Seq(C) /\ \A i \in 1..Len(sn[k]) : sn[k][i] \in C
  BY ElementOfSeq DEF FeedSequences
<1>2. \A i \in 1..Len(ib) : ib[i] \in N
  BY ElementOfSeq DEF FeedSequences
<1>3. \A p \in Process : pd[p] \in Seq(N) /\ \A i \in 1..Len(pd[p]) : pd[p][i] \in N
  BY ElementOfSeq DEF FeedSequences
<1>4. QED
  BY <1>1, <1>2, <1>3 DEF FeedSequences

LEMMA WiderSequences ==
  ASSUME NEW S, NEW T, S \subseteq T, NEW s \in Seq(S)
  PROVE  s \in Seq(T)
<1>1. Len(s) \in Nat /\ s \in [1..Len(s) -> S]
  BY LenProperties
<1>2. s \in [1..Len(s) -> T]
  BY <1>1
<1>3. QED
  BY <1>1, <1>2, IsASeq

\* The sets grow.
LEMMA WiderFeed ==
  ASSUME NEW sn, NEW ib, NEW pd, NEW C, NEW N, FeedSequences(sn, ib, pd, C, N),
         NEW D, NEW M, C \subseteq D, N \subseteq M, \A m \in M : m.command \in D
  PROVE  FeedSequences(sn, ib, pd, D, M)
<1>1. Seq(C) \subseteq Seq(D) /\ Seq(N) \subseteq Seq(M)
  BY WiderSequences
<1>2. QED
  BY <1>1 DEF FeedSequences

\* The relation grows.
LEMMA WiderChains ==
  ASSUME NEW sn, NEW ib, NEW pd, NEW Q, Chained(sn, ib, pd, Q), NEW R, Q \subseteq R
  PROVE  Chained(sn, ib, pd, R)
<1>1. SeenChain(sn, R) /\ InboxChain(ib, R) /\ PendingChain(pd, R)
  BY DEF Chained, SeenChain, InboxChain, PendingChain
<1>2. SeenInbox(sn, ib, R) /\ SeenPending(sn, pd, R) /\ InboxPending(ib, pd, R)
  BY DEF Chained, SeenInbox, SeenPending, InboxPending
<1>3. AcrossPending(pd, R)
  BY DEF Chained, AcrossPending
<1>4. QED
  BY <1>1, <1>2, <1>3 DEF Chained

\* What one process has to publish changes.
LEMMA OneChanged ==
  ASSUME NEW sn, NEW ib, NEW pd, NEW new, NEW R, Chained(sn, ib, pd, R), NEW p \in Process,
         \A q \in Process : q # p => new[q] = pd[q],
         \A i, j \in 1..Len(new[p]) : i < j => <<new[p][i].command, new[p][j].command>> \in R,
         \A k \in Client : \A i \in 1..Len(sn[k]), j \in 1..Len(new[p]) :
           <<sn[k][i], new[p][j].command>> \in R,
         \A i \in 1..Len(ib), j \in 1..Len(new[p]) : <<ib[i].command, new[p][j].command>> \in R,
         \A q \in Process : q # p => \A i \in 1..Len(new[p]), j \in 1..Len(pd[q]) :
           /\ <<new[p][i].command, pd[q][j].command>> \in R
           /\ <<pd[q][j].command, new[p][i].command>> \in R
  PROVE  Chained(sn, ib, new, R)
<1>1. PendingChain(pd, R) /\ SeenPending(sn, pd, R) /\ InboxPending(ib, pd, R)
      /\ AcrossPending(pd, R)
  BY DEF Chained
<1>2. PendingChain(new, R)
  BY <1>1 DEF PendingChain
<1>3. SeenPending(sn, new, R)
  BY <1>1 DEF SeenPending
<1>4. InboxPending(ib, new, R)
  BY <1>1 DEF InboxPending
<1>5. ASSUME NEW q \in Process, NEW r \in Process, q # r,
             NEW i \in 1..Len(new[q]), NEW j \in 1..Len(new[r])
      PROVE  <<new[q][i].command, new[r][j].command>> \in R
  <2>1. CASE q = p
    BY <1>5, <2>1
  <2>2. CASE r = p
    BY <1>5, <2>2
  <2>3. CASE q # p /\ r # p
    BY <1>1, <1>5, <2>3 DEF AcrossPending
  <2>4. QED
    BY <2>1, <2>2, <2>3
<1>6. AcrossPending(new, R)
  BY <1>5 DEF AcrossPending
<1>7. QED
  BY <1>2, <1>3, <1>4, <1>6 DEF Chained

\* A worker takes note of a command that is behind everything that is under way.
LEMMA NotingChains ==
  ASSUME NEW sn, NEW ib, NEW pd, NEW C, NEW N, FeedSequences(sn, ib, pd, C, N), NEW R, Chained(sn, ib, pd, R),
         NEW p \in Process, NEW m, \A c \in C : <<c, m.command>> \in R,
         \A q \in Process : q # p => \A j \in 1..Len(pd[q]) : <<m.command, pd[q][j].command>> \in R
  PROVE  Chained(sn, ib, [pd EXCEPT ![p] = Append(@, m)], R)
<1> DEFINE new == [pd EXCEPT ![p] = Append(@, m)]
<1>1. /\ Len(pd[p]) \in Nat /\ new[p] = Append(pd[p], m)
      /\ \A i \in 1..Len(pd[p]) : new[p][i] = pd[p][i]
      /\ new[p][Len(pd[p]) + 1] = m
      /\ \A i \in 1..Len(new[p]) : i \in 1..Len(pd[p]) \/ i = Len(pd[p]) + 1
      /\ \A q \in Process : q # p => new[q] = pd[q]
  <2>1. pd[p] \in Seq(N) /\ new[p] = Append(pd[p], m) /\ \A q \in Process : q # p => new[q] = pd[q]
    BY DEF FeedSequences
  <2>2. pd[p] \in Seq(N \cup {m}) /\ m \in N \cup {m}
    BY <2>1, WiderSequences
  <2>3. QED
    BY <2>1, <2>2, AppendOf
<1>2. /\ \A k \in Client : \A i \in 1..Len(sn[k]) : <<sn[k][i], m.command>> \in R
      /\ \A i \in 1..Len(ib) : <<ib[i].command, m.command>> \in R
      /\ \A q \in Process : \A i \in 1..Len(pd[q]) : <<pd[q][i].command, m.command>> \in R
  BY SequenceMembers
<1> HIDE DEF new
<1>3. PendingChain(pd, R) /\ SeenPending(sn, pd, R) /\ InboxPending(ib, pd, R)
      /\ AcrossPending(pd, R)
  BY DEF Chained
<1>4. \A i, j \in 1..Len(new[p]) : i < j => <<new[p][i].command, new[p][j].command>> \in R
  BY <1>1, <1>2, <1>3 DEF PendingChain
<1>5. \A k \in Client : \A i \in 1..Len(sn[k]), j \in 1..Len(new[p]) :
        <<sn[k][i], new[p][j].command>> \in R
  BY <1>1, <1>2, <1>3 DEF SeenPending
<1>6. \A i \in 1..Len(ib), j \in 1..Len(new[p]) : <<ib[i].command, new[p][j].command>> \in R
  BY <1>1, <1>2, <1>3 DEF InboxPending
<1>7. ASSUME NEW q \in Process, q # p, NEW i \in 1..Len(new[p]), NEW j \in 1..Len(pd[q])
      PROVE  /\ <<new[p][i].command, pd[q][j].command>> \in R
             /\ <<pd[q][j].command, new[p][i].command>> \in R
  <2>1. CASE i \in 1..Len(pd[p])
    BY <1>1, <1>3, <1>7, <2>1 DEF AcrossPending
  <2>2. CASE i = Len(pd[p]) + 1
    BY <1>1, <1>2, <1>7, <2>2
  <2>3. QED
    BY <1>1, <2>1, <2>2
<1>8. Chained(sn, ib, new, R)
  BY <1>1, <1>4, <1>5, <1>6, <1>7, OneChanged
<1>9. QED
  BY <1>8 DEF new

\* Part of what is under way is lost, or on its way no more.
LEMMA DroppingChains ==
  ASSUME NEW sn, NEW ib, NEW pd, NEW C, NEW N, FeedSequences(sn, ib, pd, C, N), NEW R, Chained(sn, ib, pd, R),
         NEW p \in Process, NEW rest, rest = <<>> \/ (pd[p] # <<>> /\ rest = Tail(pd[p]))
  PROVE  Chained(sn, ib, [pd EXCEPT ![p] = rest], R)
<1> DEFINE new == [pd EXCEPT ![p] = rest]
<1>1. new[p] = rest /\ \A q \in Process : q # p => new[q] = pd[q]
  BY DEF FeedSequences
<1>2. \A i \in 1..Len(rest) : i \in Nat /\ i + 1 \in 1..Len(pd[p]) /\ rest[i] = pd[p][i + 1]
  <2>1. CASE rest = <<>>
    BY <2>1
  <2>2. CASE pd[p] # <<>> /\ rest = Tail(pd[p])
    <3>1. pd[p] \in Seq(N) /\ Len(rest) \in Nat
      BY <2>2, SequenceMembers, TailOf
    <3>2. QED
      BY <2>2, <3>1, TailOf
  <2>3. QED
    BY <2>1, <2>2
<1> HIDE DEF new
<1>3. PendingChain(pd, R) /\ SeenPending(sn, pd, R) /\ InboxPending(ib, pd, R)
      /\ AcrossPending(pd, R)
  BY DEF Chained
<1>4. \A i, j \in 1..Len(new[p]) : i < j => <<new[p][i].command, new[p][j].command>> \in R
  <2> SUFFICES ASSUME NEW i \in 1..Len(rest), NEW j \in 1..Len(rest), i < j
               PROVE  <<rest[i].command, rest[j].command>> \in R
    BY <1>1
  <2>1. i + 1 < j + 1 /\ i + 1 \in 1..Len(pd[p]) /\ j + 1 \in 1..Len(pd[p])
    BY <1>2
  <2>2. <<pd[p][i + 1].command, pd[p][j + 1].command>> \in R
    BY <1>3, <2>1 DEF PendingChain
  <2>3. QED
    BY <1>2, <2>2
<1>5. \A q \in Process : q # p => \A i \in 1..Len(new[p]), j \in 1..Len(pd[q]) :
        /\ <<new[p][i].command, pd[q][j].command>> \in R
        /\ <<pd[q][j].command, new[p][i].command>> \in R
  BY <1>1, <1>2, <1>3 DEF AcrossPending
<1>6. \A k \in Client : \A i \in 1..Len(sn[k]), j \in 1..Len(new[p]) :
        <<sn[k][i], new[p][j].command>> \in R
  BY <1>1, <1>2, <1>3 DEF SeenPending
<1>7. \A i \in 1..Len(ib), j \in 1..Len(new[p]) : <<ib[i].command, new[p][j].command>> \in R
  BY <1>1, <1>2, <1>3 DEF InboxPending
<1>8. Chained(sn, ib, new, R)
  BY <1>1, <1>4, <1>5, <1>6, <1>7, OneChanged
<1>9. QED
  BY <1>8 DEF new

\* The first pending announcement of a process goes to the end of the inbox.
LEMMA PublishingChains ==
  ASSUME NEW sn, NEW ib, NEW pd, NEW C, NEW N, FeedSequences(sn, ib, pd, C, N), NEW R, Chained(sn, ib, pd, R),
         NEW p \in Process, pd[p] # <<>>
  PROVE  Chained(sn, Append(ib, Head(pd[p])), [pd EXCEPT ![p] = Tail(@)], R)
<1> DEFINE box == Append(ib, Head(pd[p]))
           new == [pd EXCEPT ![p] = Tail(@)]
<1>1. Chained(sn, ib, new, R)
  BY DroppingChains
<1>2. /\ 1 \in 1..Len(pd[p]) /\ Head(pd[p]) = pd[p][1] /\ pd[p][1] \in N
      /\ \A i \in 1..Len(new[p]) : new[p][i] = pd[p][i + 1] /\ i + 1 \in 1..Len(pd[p]) /\ 1 < i + 1
      /\ \A q \in Process : q # p => new[q] = pd[q]
  <2>1. pd[p] \in Seq(N)
    BY SequenceMembers
  <2>2. new[p] = Tail(pd[p]) /\ \A q \in Process : q # p => new[q] = pd[q]
    BY DEF FeedSequences
  <2> HIDE DEF new
  <2>3. PICK s \in Seq(N) : s = pd[p] /\ s # <<>>
    BY <2>1
  <2>4. /\ Len(s) \in Nat \ {0} /\ Head(s) = s[1] /\ s[1] \in N
        /\ \A i \in 1..Len(Tail(s)) : Tail(s)[i] = s[i + 1] /\ i + 1 \in 1..Len(s) /\ 1 < i + 1
    BY <2>3, TailOf
  <2>5. 1 \in 1..Len(s)
    BY <2>4
  <2>6. QED
    BY <2>2, <2>3, <2>4, <2>5
<1>3. /\ Len(ib) \in Nat
      /\ \A i \in 1..Len(ib) : box[i] = ib[i]
      /\ box[Len(ib) + 1] = pd[p][1]
      /\ \A i \in 1..Len(box) : i \in 1..Len(ib) \/ i = Len(ib) + 1
  BY <1>2, AppendOf DEF FeedSequences
<1> HIDE DEF box, new
<1>4. /\ InboxChain(ib, R) /\ SeenInbox(sn, ib, R) /\ PendingChain(pd, R)
      /\ SeenPending(sn, pd, R) /\ InboxPending(ib, pd, R) /\ AcrossPending(pd, R)
      /\ InboxPending(ib, new, R)
  BY <1>1 DEF Chained
<1>5. InboxChain(box, R)
  BY <1>2, <1>3, <1>4 DEF InboxChain, InboxPending
<1>6. SeenInbox(sn, box, R)
  BY <1>2, <1>3, <1>4 DEF SeenInbox, SeenPending
<1>7. ASSUME NEW q \in Process, NEW i \in 1..Len(box), NEW j \in 1..Len(new[q])
      PROVE  <<box[i].command, new[q][j].command>> \in R
  <2>1. CASE i \in 1..Len(ib)
    BY <1>3, <1>4, <1>7, <2>1 DEF InboxPending
  <2>2. CASE i = Len(ib) + 1 /\ q = p
    BY <1>2, <1>3, <1>4, <1>7, <2>2 DEF PendingChain
  <2>3. CASE i = Len(ib) + 1 /\ q # p
    BY <1>2, <1>3, <1>4, <1>7, <2>3 DEF AcrossPending
  <2>4. QED
    BY <1>3, <2>1, <2>2, <2>3
<1>8. InboxPending(box, new, R)
  BY <1>7 DEF InboxPending
<1>9. Chained(sn, box, new, R)
  BY <1>1, <1>5, <1>6, <1>8 DEF Chained
<1>10. QED
  BY <1>9 DEF box, new

\* The subscriber's connection breaks, and what it has not handled is lost.
LEMMA BreakingChains ==
  ASSUME NEW sn, NEW ib, NEW pd, NEW R, Chained(sn, ib, pd, R)
  PROVE  Chained(sn, <<>>, pd, R)
<1>1. InboxChain(<<>>, R)
  BY DEF InboxChain
<1>2. SeenInbox(sn, <<>>, R)
  BY DEF SeenInbox
<1>3. InboxPending(<<>>, pd, R)
  BY DEF InboxPending
<1>4. QED
  BY <1>1, <1>2, <1>3 DEF Chained

\* A client leaves the room and forgets.
LEMMA LeavingChains ==
  ASSUME NEW sn, NEW ib, NEW pd, NEW C, NEW N, FeedSequences(sn, ib, pd, C, N), NEW R, Chained(sn, ib, pd, R),
         NEW k \in Client
  PROVE  Chained([sn EXCEPT ![k] = <<>>], ib, pd, R)
<1> DEFINE new == [sn EXCEPT ![k] = <<>>]
<1>1. \A l \in Client : \A i \in 1..Len(new[l]) : new[l] = sn[l]
  BY DEF FeedSequences
<1> HIDE DEF new
<1>2. SeenChain(sn, R) /\ SeenInbox(sn, ib, R) /\ SeenPending(sn, pd, R)
  BY DEF Chained
<1>3. SeenChain(new, R)
  BY <1>1, <1>2 DEF SeenChain
<1>4. SeenInbox(new, ib, R)
  BY <1>1, <1>2 DEF SeenInbox
<1>5. SeenPending(new, pd, R)
  BY <1>1, <1>2 DEF SeenPending
<1>6. Chained(new, ib, pd, R)
  BY <1>3, <1>4, <1>5 DEF Chained
<1>7. QED
  BY <1>6 DEF new

\* The first announcement of the inbox goes to the clients in the room.
LEMMA BroadcastingChains ==
  ASSUME NEW sn, NEW ib, NEW pd, NEW C, NEW N, FeedSequences(sn, ib, pd, C, N), NEW R, Chained(sn, ib, pd, R),
         NEW room, ib # <<>>
  PROVE  Chained([k \in Client |-> IF room[k] THEN Append(sn[k], Head(ib).command) ELSE sn[k]],
                 Tail(ib), pd, R)
<1> DEFINE new == [k \in Client |-> IF room[k] THEN Append(sn[k], Head(ib).command) ELSE sn[k]]
           box == Tail(ib)
<1>1. /\ 1 \in 1..Len(ib) /\ Head(ib) = ib[1] /\ ib[1].command \in C
      /\ \A i \in 1..Len(box) : box[i] = ib[i + 1] /\ i + 1 \in 1..Len(ib) /\ 1 < i + 1
  <2>1. ib \in Seq(N)
    BY DEF FeedSequences
  <2>2. /\ Head(ib) = ib[1] /\ Len(ib) \in Nat \ {0}
        /\ \A i \in 1..Len(box) : box[i] = ib[i + 1] /\ i + 1 \in 1..Len(ib) /\ 1 < i + 1
    BY <2>1, TailOf
  <2>3. QED
    BY <2>2, SequenceMembers
<1>2. ASSUME NEW k \in Client
      PROVE  /\ Len(sn[k]) \in Nat
             /\ \A i \in 1..Len(new[k]) : \/ i \in 1..Len(sn[k]) /\ new[k][i] = sn[k][i]
                                          \/ i = Len(sn[k]) + 1 /\ new[k][i] = ib[1].command
  <2>1. sn[k] \in Seq(C) /\ Len(sn[k]) \in Nat
    BY SequenceMembers, LenProperties
  <2>2. CASE room[k]
    <3>1. new[k] = Append(sn[k], ib[1].command)
      BY <1>1, <2>2
    <3>2. QED
      BY <1>1, <2>1, <3>1, AppendOf
  <2>3. CASE ~room[k]
    <3>1. new[k] = sn[k]
      BY <2>3
    <3>2. QED
      BY <2>1, <3>1
  <2>4. QED
    BY <2>2, <2>3
<1> HIDE DEF new, box
<1>3. /\ SeenChain(sn, R) /\ SeenInbox(sn, ib, R) /\ SeenPending(sn, pd, R)
      /\ InboxChain(ib, R) /\ InboxPending(ib, pd, R)
  BY DEF Chained
<1>4. ASSUME NEW k \in Client, NEW i \in 1..Len(new[k]), NEW j \in 1..Len(new[k]), i < j
      PROVE  <<new[k][i], new[k][j]>> \in R
  <2>1. Len(sn[k]) \in Nat /\ i < j /\ i \in Nat /\ j \in Nat
    BY <1>2, <1>4
  <2>2. CASE i \in 1..Len(sn[k]) /\ new[k][i] = sn[k][i] /\ j \in 1..Len(sn[k]) /\ new[k][j] = sn[k][j]
    BY <1>3, <1>4, <2>2 DEF SeenChain
  <2>3. CASE i \in 1..Len(sn[k]) /\ new[k][i] = sn[k][i] /\ new[k][j] = ib[1].command
    BY <1>1, <1>3, <2>3 DEF SeenInbox
  <2>4. CASE i = Len(sn[k]) + 1
    <3>1. j \notin 1..Len(sn[k]) /\ j # Len(sn[k]) + 1
      BY <2>1, <2>4
    <3>2. QED
      BY <1>2, <3>1
  <2>5. QED
    BY <1>2, <2>2, <2>3, <2>4
<1>5. ASSUME NEW k \in Client, NEW i \in 1..Len(new[k]), NEW j \in 1..Len(box)
      PROVE  <<new[k][i], box[j].command>> \in R
  <2>1. CASE i \in 1..Len(sn[k]) /\ new[k][i] = sn[k][i]
    BY <1>1, <1>3, <2>1 DEF SeenInbox
  <2>2. CASE new[k][i] = ib[1].command
    BY <1>1, <1>3, <2>2 DEF InboxChain
  <2>3. QED
    BY <1>2, <2>1, <2>2
<1>6. ASSUME NEW k \in Client, NEW p \in Process, NEW i \in 1..Len(new[k]), NEW j \in 1..Len(pd[p])
      PROVE  <<new[k][i], pd[p][j].command>> \in R
  <2>1. CASE i \in 1..Len(sn[k]) /\ new[k][i] = sn[k][i]
    BY <1>3, <2>1 DEF SeenPending
  <2>2. CASE new[k][i] = ib[1].command
    BY <1>1, <1>3, <2>2 DEF InboxPending
  <2>3. QED
    BY <1>2, <2>1, <2>2
<1>7. SeenChain(new, R) /\ SeenInbox(new, box, R) /\ SeenPending(new, pd, R)
  BY <1>4, <1>5, <1>6 DEF SeenChain, SeenInbox, SeenPending
<1>8. InboxChain(box, R) /\ InboxPending(box, pd, R)
  <2>1. ASSUME NEW i \in 1..Len(box), NEW j \in 1..Len(box), i < j
        PROVE  <<box[i].command, box[j].command>> \in R
    <3>1. i + 1 < j + 1
      BY <2>1
    <3>2. QED
      BY <1>1, <1>3, <3>1 DEF InboxChain
  <2>2. InboxPending(box, pd, R)
    BY <1>1, <1>3 DEF InboxPending
  <2>3. QED
    BY <2>1, <2>2 DEF InboxChain
<1>9. Chained(new, box, pd, R)
  BY <1>7, <1>8 DEF Chained
<1>10. QED
  BY <1>9 DEF new, box

\* What these steps do to the members of the sequences.
LEMMA NotedMembers ==
  ASSUME NEW sn, NEW ib, NEW pd, NEW C, NEW N, FeedSequences(sn, ib, pd, C, N),
         NEW p \in Process, NEW m \in N
  PROVE  FeedSequences(sn, ib, [pd EXCEPT ![p] = Append(@, m)], C, N)
<1>1. pd[p] \in Seq(N)
  BY DEF FeedSequences
<1>2. Append(pd[p], m) \in Seq(N)
  BY <1>1, AppendOf
<1>3. QED
  BY <1>2 DEF FeedSequences

LEMMA DroppedMembers ==
  ASSUME NEW sn, NEW ib, NEW pd, NEW C, NEW N, FeedSequences(sn, ib, pd, C, N),
         NEW p \in Process, NEW rest, rest = <<>> \/ (pd[p] # <<>> /\ rest = Tail(pd[p]))
  PROVE  FeedSequences(sn, ib, [pd EXCEPT ![p] = rest], C, N)
<1>1. pd[p] \in Seq(N)
  BY DEF FeedSequences
<1>2. rest \in Seq(N)
  BY <1>1, TailOf, EmptySeq
<1>3. QED
  BY <1>2 DEF FeedSequences

LEMMA PublishedMembers ==
  ASSUME NEW sn, NEW ib, NEW pd, NEW C, NEW N, FeedSequences(sn, ib, pd, C, N),
         NEW p \in Process, pd[p] # <<>>
  PROVE  FeedSequences(sn, Append(ib, Head(pd[p])), [pd EXCEPT ![p] = Tail(@)], C, N)
<1>1. pd[p] \in Seq(N) /\ ib \in Seq(N)
  BY DEF FeedSequences
<1>2. Tail(pd[p]) \in Seq(N) /\ Head(pd[p]) \in N
  BY <1>1, TailOf
<1>3. Append(ib, Head(pd[p])) \in Seq(N)
  BY <1>1, <1>2, AppendOf
<1>4. QED
  BY <1>2, <1>3 DEF FeedSequences

LEMMA BroadcastMembers ==
  ASSUME NEW sn, NEW ib, NEW pd, NEW C, NEW N, FeedSequences(sn, ib, pd, C, N), NEW room, ib # <<>>
  PROVE  /\ FeedSequences([k \in Client |-> IF room[k] THEN Append(sn[k], Head(ib).command) ELSE sn[k]],
                          Tail(ib), pd, C, N)
         /\ Head(ib) \in N
<1>1. ib \in Seq(N)
  BY DEF FeedSequences
<1>2. Tail(ib) \in Seq(N) /\ Head(ib) \in N /\ Head(ib).command \in C
  BY <1>1, TailOf DEF FeedSequences
<1>3. \A k \in Client : sn[k] \in Seq(C) /\ Append(sn[k], Head(ib).command) \in Seq(C)
  BY <1>2, AppendOf DEF FeedSequences
<1>4. QED
  BY <1>2, <1>3 DEF FeedSequences

-----------------------------------------------------------------------------
(* What the steps of the worker leave true of a command that is over *)

\* The command has left the queue and every process: no delivery will bring it back.
Past(c) == (\E i \in 1..Taken : sent[i] = c) /\ \A p \in Process : delivery[p] # c

PastCommands == {c \in Command : Past(c)}

\* The command is in the log and in the book that the API serves.
Saved(c) == InLog(c) /\ Holds(readModel, c)

\* What a note says is true.
SoundNotes == {m \in Note : Past(m.command) /\ (m.done => Saved(m.command))}

Differ == {e \in Command \X Command : e[1] # e[2]}

Earlier == {e \in Command \X Command :
              \E i, j \in 1..Len(sent) : i < j /\ sent[i] = e[1] /\ sent[j] = e[2]}

\* A process that consumes is the leader.
LeaderConsumes == \A p \in Process : consuming[p] => leader = p

\* The steps of the handler from the snapshot to the acknowledgement.
AfterReadModel == {"saveSnapshot", "saveProcessed", "checkBeforeAck"}

\* The read model is saved before the handler goes on to the snapshot.
ReadModelFirst ==
  \A p \in Process : handler[p] \in AfterReadModel => Holds(readModel, delivery[p])

WorkerSide == WorkerInv /\ LeaderConsumes /\ ReadModelFirst

\* A call of the feed fails, and the worker does nothing.
OnlyFailure ==
  /\ failures < MaxFailures /\ failures' = failures + 1
  /\ UNCHANGED <<apiVars, brokerVars, storeVars, processVars, crashes, doubts>>

LEMMA FailureKeeps ==
  ASSUME WorkerSide, OnlyFailure
  PROVE  WorkerSide'
<1> USE DEF OnlyFailure
<1>1. /\ UNCHANGED <<request, sent, queue, dlq, delivery, log, eventLog, readModel, snapshot>>
      /\ UNCHANGED <<status, leader, consuming, book, handler, held, entry, crashes, doubts>>
  BY DEF apiVars, brokerVars, storeVars, processVars
<1>2. failures \in Nat /\ failures' \in 0..MaxFailures /\ failures' # 0 /\ failures' \in Nat
  BY BoundsAssumption DEF WorkerSide, WorkerInv, ReplayInv, RestTypes
<1>3. ~Clean'
  BY <1>2 DEF Clean
<1>4. Shape' /\ OneTurn'
  BY <1>1, <1>2 DEF WorkerSide, WorkerInv, IInv, Shape, OneTurn
<1>5. QueueIsEnd' /\ LogIsBehind' /\ Progress'
  <2>1. QueueIsEnd'
    BY <1>1 DEF WorkerSide, WorkerInv, IInv, QueueIsEnd, Taken, InSent
  <2>2. LogIsBehind'
    BY <1>1 DEF WorkerSide, WorkerInv, IInv, LogIsBehind, Taken, InSent, InLog
  <2>3. Progress'
    BY <1>1 DEF WorkerSide, WorkerInv, IInv, Progress, InLog, InEventLog
  <2>4. QED
    BY <2>1, <2>2, <2>3
<1>6. StatusInv'
  BY <1>1, <1>2 DEF WorkerSide, WorkerInv, StatusInv, LogKnown, NoneThrows, KnowsLog,
                    RejectedThrows, InLog
<1>7. RestTypes' /\ NoneHeld'
  BY <1>1, <1>2 DEF WorkerSide, WorkerInv, ReplayInv, RestTypes, NoneHeld
<1>8. StoredBooks'
  BY <1>1, <1>3 DEF WorkerSide, WorkerInv, ReplayInv, StoredBooks, Holds
<1>9. \A p \in Process : consuming'[p] => BookSound(p)'
  BY <1>1, <1>3, SoundAside DEF WorkerSide, WorkerInv, ReplayInv
<1>10. LeaderConsumes' /\ ReadModelFirst'
  <2>1. LeaderConsumes'
    BY <1>1 DEF WorkerSide, LeaderConsumes
  <2>2. ReadModelFirst'
    BY <1>1 DEF WorkerSide, ReadModelFirst, Holds
  <2>3. QED
    BY <2>1, <2>2
<1>11. QED
  BY <1>4, <1>5, <1>6, <1>7, <1>8, <1>9, <1>10 DEF WorkerSide, WorkerInv, IInv, ReplayInv

\* What is over stays over.
LEMMA PastStays ==
  ASSUME WorkerInv, [Next]_vars, NEW c \in Command, Past(c)
  PROVE  Past(c)'
<1>1. PICK i \in 1..Taken : sent[i] = c
  BY DEF Past
<1>2. /\ Len(sent) \in Nat /\ Len(queue) \in Nat /\ Taken \in 0..Len(sent)
      /\ i \in 1..Len(sent) /\ Taken + Len(queue) = Len(sent) /\ c # Nobody
  BY TakenIsNat, CommandAssumption DEF WorkerInv, IInv, QueueIsEnd, Taken
<1>3. CASE UNCHANGED <<sent, queue, delivery>>
  BY <1>3 DEF Past, Taken
<1>4. ASSUME NEW d \in Command, Publish(d)
      PROVE  Past(c)'
  <2>1. sent' = Append(sent, d) /\ queue' = Append(queue, d) /\ delivery' = delivery
    BY <1>4 DEF Publish
  <2>2. /\ Len(sent') = Len(sent) + 1 /\ Len(queue') = Len(queue) + 1
        /\ \A n \in 1..Len(sent) : sent'[n] = sent[n]
    BY <2>1, AppendProperties DEF WorkerInv, IInv, Shape
  <2>3. Taken' = Taken
    BY <1>2, <2>2 DEF Taken
  <2>4. QED
    BY <1>1, <1>2, <2>1, <2>2, <2>3 DEF Past
<1>5. ASSUME NEW p \in Process, Deliver(p)
      PROVE  Past(c)'
  <2>1. /\ queue # <<>> /\ queue' = Tail(queue) /\ sent' = sent
        /\ delivery' = [delivery EXCEPT ![p] = Head(queue)]
    BY <1>5 DEF Deliver, apiVars
  <2>2. Len(queue) \in Nat \ {0} /\ Len(queue') = Len(queue) - 1 /\ Head(queue) = queue[1]
    BY <2>1, EmptySeq, HeadTailProperties DEF WorkerInv, IInv, Shape
  <2>3. Taken' = Taken + 1 /\ Taken + 1 \in 1..Len(sent) /\ Head(queue) = sent[Taken + 1]
    BY <1>2, <2>1, <2>2 DEF WorkerInv, IInv, QueueIsEnd, Taken
  <2>4. Head(queue) # c
    BY <1>1, <1>2, <2>3 DEF WorkerInv, IInv, QueueIsEnd
  <2>5. \A q \in Process : delivery'[q] # c
    BY <2>1, <2>4 DEF Past, WorkerInv, IInv, Shape
  <2>6. i \in 1..Taken'
    BY <1>2, <2>3
  <2>7. QED
    BY <1>1, <2>1, <2>5, <2>6 DEF Past
<1>6. ASSUME NEW p \in Process, Settles(p)
      PROVE  Past(c)'
  BY <1>2, <1>6 DEF Settles, Parts, Settle, Past, Taken, WorkerInv, IInv, Shape
<1>7. ASSUME NEW p \in Process, Returns(p)
      PROVE  Past(c)'
  <2>1. /\ delivery[p] \in Command /\ delivery[p] # Nobody /\ sent' = sent
        /\ delivery' = [delivery EXCEPT ![p] = Nobody] /\ queue' = <<delivery[p]>> \o queue
    BY <1>7 DEF Returns, Parts, Requeue, Settle, WorkerInv, IInv, Shape
  <2>2. Len(queue') = Len(queue) + 1
    <3>1. queue \in Seq(Command) /\ <<delivery[p]>> \in Seq(Command) /\ Len(<<delivery[p]>>) = 1
      BY <2>1 DEF WorkerInv, IInv, Shape
    <3>2. Len(queue') = 1 + Len(queue)
      BY <2>1, <3>1, ConcatProperties
    <3>3. QED
      BY <1>2, <3>2
  <2>3. Taken' = Taken - 1
    BY <1>2, <2>1, <2>2 DEF Taken
  <2>4. delivery[p] = sent[Taken] /\ delivery[p] # c
    BY <2>1 DEF WorkerInv, IInv, QueueIsEnd, Past
  <2>5. i \in 1..Taken'
    BY <1>1, <1>2, <2>3, <2>4
  <2>6. \A q \in Process : delivery'[q] # c
    BY <1>2, <2>1 DEF Past, WorkerInv, IInv, Shape
  <2>7. QED
    BY <1>1, <2>1, <2>5, <2>6 DEF Past
<1>8. ASSUME NEW d \in Command, SaveQueued(d) \/ PublishFails(d)
      PROVE  Past(c)'
  BY <1>3, <1>8 DEF SaveQueued, PublishFails, brokerVars
<1>9. ASSUME NEW p \in Process,
             Start(p) \/ AppendCommand(p) \/ AppendEvents(p) \/ MovesQuietly(p) \/ Leaves(p)
      PROVE  Past(c)'
  BY <1>3, <1>9 DEF Start, AppendCommand, AppendEvents, MovesQuietly, Moves, Leaves, Parts,
                    apiVars, brokerVars
<1>10. CASE UNCHANGED vars
  BY <1>3, <1>10 DEF vars, apiVars, brokerVars
<1>11. QED
  BY <1>4, <1>5, <1>6, <1>7, <1>8, <1>9, <1>10, StepKinds DEF WorkerInv

\* Only the handler writes the read model.
LEMMA ReadModelWriter ==
  ASSUME [Next]_vars
  PROVE  readModel' = readModel \/ \E p \in Process : SaveReadModel(p)
<1>1. CASE Api \/ UNCHANGED vars
  BY <1>1 DEF Api, SaveQueued, Publish, PublishFails, vars, storeVars
<1>2. ASSUME NEW p \in Process,
             \/ Deliver(p) \/ CallFails(p) \/ RejectFails(p) \/ Start(p) \/ Crash(p)
             \/ RefuseForeign(p) \/ Acknowledge(p) \/ ReportingStep(p)
      PROVE  readModel' = readModel
  BY <1>2 DEF Deliver, CallFails, RejectFails, Start, Crash, LoseProcess, LoseMemory,
              RefuseForeign, Acknowledge, EndDelivery, ReportingStep, GiveBack, HandBack,
              AcknowledgeAndReport, AcknowledgeLast, storeVars
<1>3. ASSUME NEW p \in Process, StoreStep(p), ~SaveReadModel(p)
      PROVE  readModel' = readModel
  BY <1>3 DEF StoreStep, Accept, SkipProcessed, Execute, StillLeads, AppendCommand, AppendEvents,
              SaveSnapshot, SaveProcessed, SaveSkipped, SaveRejected, storeVars
<1>4. QED
  BY <1>1, <1>2, <1>3 DEF Next, HandlerNext, QuietStep

\* The streams and the read model forget nothing.
LEMMA SavedStays ==
  ASSUME WorkerInv, [Next]_vars, NEW c, Saved(c)
  PROVE  Saved(c)'
<1>1. InLog(c)'
  <2>1. CASE log' = log
    BY <2>1 DEF Saved, InLog
  <2>2. ASSUME NEW p \in Process, AppendCommand(p)
        PROVE  InLog(c)'
    <3>1. log \in Seq(Command) /\ delivery[p] \in Command /\ log' = Append(log, delivery[p])
      BY <2>2 DEF AppendCommand, At, WorkerInv, IInv, Shape, OneTurn
    <3>2. Holds(log, c) => Holds(Append(log, delivery[p]), c)
      BY <3>1, AppendHolds
    <3>3. QED
      BY <3>1, <3>2 DEF Saved, InLog, Holds
  <2>3. log' = log \/ \E p \in Process : AppendCommand(p)
    BY StepKinds DEF WorkerInv, SaveQueued, Publish, PublishFails, Deliver, Start, AppendEvents,
                     MovesQuietly, Settles, Returns, Leaves, Parts, vars, storeVars
  <2>4. QED
    BY <2>1, <2>2, <2>3
<1>2. Holds(readModel, c)'
  <2>1. CASE readModel' = readModel
    BY <2>1 DEF Saved, Holds
  <2>2. ASSUME NEW p \in Process, SaveReadModel(p)
        PROVE  Holds(readModel, c)'
    <3>1. readModel' = book[p] /\ BookSound(p)
      BY <2>2 DEF SaveReadModel, HeldBook, At, WorkerInv, IInv, OneTurn, ReplayInv, NoneHeld
    <3>2. Holds(book[p], c)
      BY <3>1 DEF BookSound, Saved, InLog
    <3>3. QED
      BY <3>1, <3>2 DEF Holds
  <2>3. readModel' = readModel \/ \E p \in Process : SaveReadModel(p)
    BY ReadModelWriter
  <2>4. QED
    BY <2>1, <2>2, <2>3
<1>3. QED
  BY <1>1, <1>2 DEF Saved

LEMMA ComingFromReadModel ==
  ASSUME WorkerInv, [Next]_vars, NEW p \in Process, handler'[p] \in AfterReadModel
  PROVE  delivery'[p] = delivery[p] /\ (handler[p] \in AfterReadModel \/ SaveReadModel(p))
<1> USE DEF AfterReadModel
<1>1. handler \in [Process -> HandlerStep] /\ delivery \in [Process -> Command \cup {Nobody}]
  BY DEF WorkerInv, IInv, Shape
<1>2. CASE Api \/ UNCHANGED vars
  BY <1>2 DEF Api, SaveQueued, Publish, PublishFails, vars, brokerVars, processVars
<1>3. ASSUME NEW q \in Process, Start(q)
      PROVE  UNCHANGED <<handler, delivery>>
  BY <1>3 DEF Start, brokerVars
<1>4. ASSUME NEW q \in Process,
             \/ Deliver(q) \/ CallFails(q) \/ RejectFails(q) \/ Crash(q) \/ RefuseForeign(q)
             \/ Acknowledge(q) \/ ReportingStep(q)
      PROVE  /\ p # q => delivery'[p] = delivery[p] /\ handler'[p] = handler[p]
             /\ p # q
  <2>1. \E h \in {"checkLeadership", "reject", "idle"} : handler' = [handler EXCEPT ![q] = h]
    BY <1>4 DEF Deliver, CallFails, RejectFails, Crash, LoseProcess, LoseMemory, RefuseForeign,
                Acknowledge, EndDelivery, ReportingStep, GiveBack, HandBack,
                AcknowledgeAndReport, AcknowledgeLast, GoTo
  <2>2. delivery' = delivery \/ \E d : delivery' = [delivery EXCEPT ![q] = d]
    BY <1>4 DEF Deliver, CallFails, RejectFails, DeadLetter, Crash, LoseProcess, LoseMemory,
                Requeue, RefuseForeign, Acknowledge, EndDelivery, ReportingStep, GiveBack,
                HandBack, NackAndRequeue, AcknowledgeAndReport, AcknowledgeLast, Settle,
                brokerVars
  <2>3. QED
    BY <1>1, <2>1, <2>2
<1>5. ASSUME NEW q \in Process, StoreStep(q)
      PROVE  /\ UNCHANGED delivery
             /\ p # q => handler'[p] = handler[p]
             /\ p = q => handler[p] \in AfterReadModel \/ SaveReadModel(p)
  <2>1. UNCHANGED delivery
    BY <1>5 DEF StoreStep, Accept, SkipProcessed, Execute, StillLeads, AppendCommand,
                AppendEvents, SaveReadModel, SaveSnapshot, SaveProcessed, SaveSkipped,
                SaveRejected, brokerVars
  <2>2. \E h \in HandlerStep : handler' = [handler EXCEPT ![q] = h]
    BY <1>5 DEF StoreStep, Accept, SkipProcessed, Execute, StillLeads, AppendCommand,
                AppendEvents, SaveReadModel, SaveSnapshot, SaveProcessed, SaveSkipped,
                SaveRejected, CallReturns, GoTo, Following, AfterRejection, HandlerStep
  <2>3. CASE SaveReadModel(q) \/ SaveSnapshot(q) \/ SaveProcessed(q)
    BY <2>1, <2>2, <2>3, <1>1 DEF SaveSnapshot, SaveProcessed, At
  <2>4. CASE \/ Accept(q) \/ SkipProcessed(q) \/ Execute(q) \/ StillLeads(q)
             \/ AppendCommand(q) \/ AppendEvents(q) \/ SaveSkipped(q) \/ SaveRejected(q)
    <3>1. handler'[q] \notin AfterReadModel
      BY <1>1, <2>4 DEF Accept, SkipProcessed, Execute, StillLeads, AppendCommand, AppendEvents,
                        SaveSkipped, SaveRejected, CallReturns, GoTo, Following, AfterRejection
    <3>2. QED
      BY <1>1, <2>1, <2>2, <3>1
  <2>5. QED
    BY <1>5, <2>3, <2>4 DEF StoreStep
<1>6. QED
  BY <1>2, <1>3, <1>4, <1>5 DEF Next, HandlerNext, QuietStep

LEMMA ReadModelFirstStep ==
  ASSUME WorkerSide, [Next]_vars
  PROVE  ReadModelFirst'
<1> SUFFICES ASSUME NEW p \in Process, handler'[p] \in AfterReadModel
             PROVE  Holds(readModel', delivery'[p])
  BY DEF ReadModelFirst
<1>1. delivery'[p] = delivery[p] /\ (handler[p] \in AfterReadModel \/ SaveReadModel(p))
  BY ComingFromReadModel DEF WorkerSide
<1>2. CASE handler[p] \in AfterReadModel
  <2>1. PICK c : c = delivery[p]
    OBVIOUS
  <2>2. Saved(c)
    BY <1>2, <2>1 DEF AfterReadModel, Saved, WorkerSide, WorkerInv, StatusInv, LogKnown, KnowsLog,
                      ReadModelFirst
  <2>3. Saved(c)'
    BY <2>2, SavedStays DEF WorkerSide
  <2>4. QED
    BY <1>1, <2>1, <2>3 DEF Saved, Holds
<1>3. CASE SaveReadModel(p)
  <2>1. readModel' = book[p] /\ BookSound(p)
    BY <1>3 DEF SaveReadModel, HeldBook, At, WorkerSide, WorkerInv, IInv, OneTurn, ReplayInv,
                NoneHeld
  <2>2. InLog(delivery[p])
    BY <1>3 DEF SaveReadModel, At, WorkerSide, WorkerInv, StatusInv, LogKnown, KnowsLog
  <2>3. QED
    BY <1>1, <2>1, <2>2 DEF BookSound, InLog, Holds
<1>4. QED
  BY <1>1, <1>2, <1>3

LEMMA LeaderStep ==
  ASSUME WorkerSide, [Next]_vars
  PROVE  LeaderConsumes'
<1>1. consuming \in [Process -> BOOLEAN]
      /\ \A p, q \in Process : consuming[p] /\ consuming[q] => p = q
  BY DEF WorkerSide, WorkerInv, IInv, Shape, OneTurn
<1>2. CASE UNCHANGED <<leader, consuming>>
  BY <1>2 DEF WorkerSide, LeaderConsumes
<1>3. ASSUME NEW p \in Process, Start(p)
      PROVE  LeaderConsumes'
  BY <1>1, <1>3 DEF Start, LeaderConsumes
<1>4. ASSUME NEW p \in Process, ReportingStep(p), StepDown(p)
      PROVE  LeaderConsumes'
  <2>1. consuming[p]
    BY <1>4 DEF ReportingStep, GiveBack, HandBack, AcknowledgeAndReport, AcknowledgeLast, At,
                WorkerSide, WorkerInv, IInv, OneTurn
  <2>2. QED
    BY <1>1, <1>4, <2>1 DEF StepDown, LeaderConsumes
<1>5. ASSUME NEW p \in Process, Crash(p)
      PROVE  LeaderConsumes'
  <2>1. /\ consuming' = [consuming EXCEPT ![p] = FALSE]
        /\ leader' = IF leader = p THEN Nobody ELSE leader
    BY <1>5 DEF Crash, LoseProcess, LoseMemory
  <2>2. QED
    BY <1>1, <2>1 DEF WorkerSide, LeaderConsumes
<1>6. CASE Api \/ UNCHANGED vars
  BY <1>2, <1>6 DEF Api, SaveQueued, Publish, PublishFails, vars, processVars
<1>7. ASSUME NEW p \in Process,
             Deliver(p) \/ CallFails(p) \/ RejectFails(p) \/ QuietStep(p)
      PROVE  UNCHANGED <<leader, consuming>>
  BY <1>7 DEF Deliver, CallFails, RejectFails, QuietStep, RefuseForeign, Acknowledge, StoreStep,
              Accept, SkipProcessed, Execute, StillLeads, AppendCommand, AppendEvents,
              SaveReadModel, SaveSnapshot, SaveProcessed, SaveSkipped, SaveRejected
<1>8. QED
  BY <1>2, <1>3, <1>4, <1>5, <1>6, <1>7 DEF Next, HandlerNext

\* As long as no check of the leadership has failed, only a crash ends a turn.
LEMMA ConsumingStays ==
  ASSUME WorkerSide, [Next]_vars, doubts' = 0, NEW p \in Process, consuming[p]
  PROVE  doubts = 0 /\ (consuming'[p] \/ Crash(p))
<1>1. consuming \in [Process -> BOOLEAN] /\ doubts \in Nat /\ leader = p
  BY BoundsAssumption DEF WorkerSide, WorkerInv, IInv, Shape, ReplayInv, RestTypes, LeaderConsumes
<1>2. CASE UNCHANGED <<doubts, consuming>>
  BY <1>2
<1>3. ASSUME NEW q \in Process, Start(q)
      PROVE  doubts = 0 /\ consuming'[p]
  BY <1>1, <1>3 DEF Start, faultVars
<1>4. ASSUME NEW q \in Process, ReportingStep(q)
      PROVE  FALSE
  <2>1. CheckSaysNo(q) /\ handler[q] # "idle"
    BY <1>4 DEF ReportingStep, GiveBack, HandBack, AcknowledgeAndReport, AcknowledgeLast, At
  <2>2. Leads(q)
    BY <2>1 DEF Leads, WorkerSide, WorkerInv, IInv, OneTurn, LeaderConsumes
  <2>3. QED
    BY <1>1, <2>1, <2>2 DEF CheckSaysNo
<1>5. ASSUME NEW q \in Process, Crash(q)
      PROVE  doubts = 0 /\ (consuming'[p] \/ q = p)
  BY <1>1, <1>5 DEF Crash, LoseProcess, LoseMemory
<1>6. CASE Api \/ UNCHANGED vars
  BY <1>2, <1>6 DEF Api, SaveQueued, Publish, PublishFails, vars, processVars, faultVars
<1>7. ASSUME NEW q \in Process,
             Deliver(q) \/ CallFails(q) \/ RejectFails(q) \/ QuietStep(q)
      PROVE  UNCHANGED <<doubts, consuming>>
  <2>1. CASE Deliver(q) \/ CallFails(q) \/ RejectFails(q) \/ RefuseForeign(q) \/ Acknowledge(q)
    BY <2>1 DEF Deliver, CallFails, RejectFails, RefuseForeign, Acknowledge, faultVars
  <2>2. CASE StoreStep(q)
    BY <2>2 DEF StoreStep, Accept, SkipProcessed, Execute, StillLeads, AppendCommand,
                AppendEvents, SaveReadModel, SaveSnapshot, SaveProcessed, SaveSkipped,
                SaveRejected, faultVars
  <2>3. QED
    BY <1>7, <2>1, <2>2 DEF QuietStep
<1>8. QED
  BY <1>2, <1>3, <1>4, <1>5, <1>6, <1>7 DEF Next, HandlerNext

\* The queue's order is never changed.
LEMMA EarlierGrows ==
  ASSUME WorkerInv, [Next]_vars
  PROVE  Earlier \subseteq Earlier'
<1>1. sent' = sent \/ \E c \in Command : sent' = Append(sent, c)
  BY StepKinds DEF WorkerInv, SaveQueued, Publish, PublishFails, Deliver, Start, AppendCommand,
                   AppendEvents, MovesQuietly, Moves, Settles, Returns, Leaves, Parts, vars,
                   apiVars
<1>2. CASE sent' = sent
  BY <1>2 DEF Earlier
<1>3. ASSUME NEW c \in Command, sent' = Append(sent, c)
      PROVE  Earlier \subseteq Earlier'
  <2>1. /\ Len(sent) \in Nat /\ Len(sent') = Len(sent) + 1
        /\ \A i \in 1..Len(sent) : sent'[i] = sent[i] /\ i \in 1..Len(sent')
    <3>1. sent \in Seq(Command)
      BY DEF WorkerInv, IInv, Shape
    <3>2. /\ Len(sent) \in Nat /\ Len(sent') = Len(sent) + 1
          /\ \A i \in 1..Len(sent) : sent'[i] = sent[i]
      BY <1>3, <3>1, AppendOf
    <3>3. QED
      BY <3>2
  <2>2. QED
    BY <2>1 DEF Earlier
<1>4. QED
  BY <1>1, <1>2, <1>3

\* What a step leaves true of everything that is under way in the feed.
LEMMA FeedSurvives ==
  ASSUME WorkerSide, [Next]_vars \/ OnlyFailure
  PROVE  /\ WorkerSide'
         /\ PastCommands \subseteq PastCommands'
         /\ SoundNotes \subseteq SoundNotes'
         /\ \A m \in SoundNotes' : m.command \in PastCommands'
         /\ Earlier \subseteq Earlier'
<1>1. \A m \in SoundNotes' : m.command \in PastCommands'
  BY DEF SoundNotes, PastCommands, Note
<1>2. CASE [Next]_vars
  <2>1. WorkerSide'
    BY <1>2, WorkerInvStep, ReadModelFirstStep, LeaderStep DEF WorkerSide
  <2>2. ASSUME NEW c \in Command, Past(c) PROVE Past(c)'
    BY <1>2, <2>2, PastStays DEF WorkerSide
  <2>3. ASSUME NEW c, Saved(c) PROVE Saved(c)'
    BY <1>2, <2>3, SavedStays DEF WorkerSide
  <2>4. PastCommands \subseteq PastCommands'
    BY <2>2 DEF PastCommands
  <2>5. SoundNotes \subseteq SoundNotes'
    <3> SUFFICES ASSUME NEW m \in SoundNotes PROVE m \in SoundNotes'
      OBVIOUS
    <3>1. m \in Note /\ m.command \in Command /\ Past(m.command) /\ (m.done => Saved(m.command))
      BY DEF SoundNotes, Note
    <3>2. PICK c \in Command : c = m.command
      BY <3>1
    <3>3. Past(c)' /\ (m.done => Saved(c)')
      BY <2>2, <2>3, <3>1, <3>2
    <3>4. Past(m.command)' /\ (m.done => Saved(m.command)')
      BY <3>2, <3>3 DEF Past, Saved, InLog, Holds
    <3>5. QED
      BY <3>1, <3>4 DEF SoundNotes
  <2>6. QED
    BY <1>1, <1>2, <2>1, <2>4, <2>5, EarlierGrows DEF WorkerSide
<1>3. CASE OnlyFailure
  <2>1. UNCHANGED <<sent, queue, delivery, log, readModel>>
    BY <1>3 DEF OnlyFailure, apiVars, brokerVars, storeVars
  <2>2. PastCommands' = PastCommands
    BY <2>1 DEF PastCommands, Past, Taken
  <2>3. SoundNotes' = SoundNotes
    BY <2>1 DEF SoundNotes, Past, Taken, Saved, InLog, Holds
  <2>4. Earlier' = Earlier
    BY <2>1 DEF Earlier
  <2>5. QED
    BY <1>1, <1>3, <2>2, <2>3, <2>4, FailureKeeps
<1>4. QED
  BY <1>2, <1>3

\* A command that is announced is over with this step, and behind all that are already.
LEMMA AnnouncementIsLast ==
  ASSUME WorkerSide, NEW p \in Process, HandlerNext(p), Announces(p)
  PROVE  /\ consuming[p]
         /\ Announcement(p) \in SoundNotes'
         /\ \A c \in PastCommands :
              /\ <<c, delivery[p]>> \in Differ /\ <<delivery[p], c>> \in Differ
              /\ <<c, delivery[p]>> \in Earlier'
<1>1. /\ delivery[p] \in Command /\ delivery[p] # Nobody /\ consuming[p]
      /\ Taken \in 1..Len(sent) /\ delivery[p] = sent[Taken] /\ Len(sent) \in Nat
  <2>1. handler[p] # "idle"
    BY DEF Announces, At
  <2>2. delivery[p] # Nobody /\ delivery[p] \in Command /\ consuming[p]
    BY <2>1 DEF WorkerSide, WorkerInv, IInv, Shape, OneTurn
  <2>3. Taken > 0 /\ delivery[p] = sent[Taken] /\ Taken \in 0..Len(sent)
    BY <2>2 DEF WorkerSide, WorkerInv, IInv, QueueIsEnd
  <2>4. Len(sent) \in Nat
    BY LenProperties DEF WorkerSide, WorkerInv, IInv, Shape
  <2>5. QED
    BY <2>2, <2>3, <2>4
<1>2. delivery' = [delivery EXCEPT ![p] = Nobody] /\ UNCHANGED <<sent, queue, log, readModel>>
  <2>1. handler[p] \in {"checkBeforeAck", "ack"}
    BY DEF Announces, At
  <2>2. Acknowledge(p) \/ AcknowledgeAndReport(p)
    BY <2>1 DEF HandlerNext, QuietStep, ReportingStep, GiveBack, HandBack, RefuseForeign,
                StoreStep, Accept, SkipProcessed, Execute, StillLeads, AppendCommand,
                AppendEvents, SaveReadModel, SaveSnapshot, SaveProcessed, SaveSkipped,
                SaveRejected, At
  <2>3. EndDelivery(p)
    BY <2>2 DEF Acknowledge, AcknowledgeAndReport, AcknowledgeLast
  <2>4. QED
    BY <2>3 DEF EndDelivery, Settle, apiVars, storeVars
<1>3. PICK c \in Command : c = delivery[p]
  BY <1>1
<1>4. Past(c)'
  <2>1. \A q \in Process : delivery'[q] # c
    <3>1. \A q \in Process : q # p => delivery[q] = Nobody
      BY <1>1, OneDelivery DEF WorkerSide, WorkerInv
    <3>2. QED
      BY <1>1, <1>2, <1>3, <3>1 DEF WorkerSide, WorkerInv, IInv, Shape
  <2>2. Taken' = Taken /\ Taken \in 1..Taken
    BY <1>1, <1>2 DEF Taken
  <2>3. QED
    BY <1>1, <1>2, <1>3, <2>1, <2>2 DEF Past
<1>5. Announcement(p) \in SoundNotes'
  <2>1. PICK m : m = Announcement(p)
    OBVIOUS
  <2>2. m \in Note /\ m.command = c /\ (m.done => At(p, "checkBeforeAck"))
    BY <1>3, <2>1 DEF Announcement, Announces, Note
  <2>3. At(p, "checkBeforeAck") => Saved(c)
    BY <1>3 DEF At, AfterReadModel, Saved, WorkerSide, WorkerInv, StatusInv, LogKnown, KnowsLog,
                ReadModelFirst
  <2>4. Saved(c) => Saved(c)'
    BY <1>2 DEF Saved, InLog, Holds
  <2>5. m \in SoundNotes'
    BY <1>4, <2>2, <2>3, <2>4 DEF SoundNotes
  <2>6. QED
    BY <2>1, <2>5
<1>6. ASSUME NEW d \in PastCommands
      PROVE  <<d, c>> \in Differ /\ <<c, d>> \in Differ /\ <<d, c>> \in Earlier'
  <2>1. d \in Command /\ d # c /\ \E i \in 1..Taken : sent[i] = d
    BY <1>3 DEF PastCommands, Past
  <2>2. PICK i \in 1..Taken : sent[i] = d
    BY <2>1
  <2>3. i < Taken /\ i \in 1..Len(sent)
    BY <1>1, <1>3, <2>1, <2>2
  <2>4. \E m, n \in 1..Len(sent) : m < n /\ sent[m] = d /\ sent[n] = c
    BY <1>1, <1>3, <2>2, <2>3
  <2>5. <<d, c>> \in Earlier
    BY <2>1, <2>4 DEF Earlier
  <2>6. Earlier' = Earlier
    BY <1>2 DEF Earlier
  <2>7. QED
    BY <2>1, <2>5, <2>6 DEF Differ
<1>7. QED
  BY <1>1, <1>3, <1>5, <1>6

-----------------------------------------------------------------------------
(* The invariant of the feed *)

\* As long as no check of the leadership has failed, only the process that consumes
\* has anything to publish.
OnePublisher == doubts = 0 => \A p \in Process : pending[p] # <<>> => consuming[p]

\* What is under way is over and true, and in the order of the queue.
InFlight ==
  /\ FeedSequences(seen, inbox, pending, PastCommands, SoundNotes)
  /\ told \subseteq SoundNotes
  /\ Chained(seen, inbox, pending, Differ)
  /\ doubts = 0 => Chained(seen, inbox, pending, Earlier)

\* A client that has read the book has in it, or has been told since, what was broadcast.
Covered ==
  \A k \in Client : fetched[k] # Nobody =>
    /\ joined[k]
    /\ \A m \in told : m.done => Holds(fetched[k], m.command) \/ Holds(seen[k], m.command)

ClientTypes ==
  /\ joined \in [Client -> BOOLEAN]
  /\ fetched \in [Client -> Seq(Command) \cup {Nobody}]

FeedInv == WorkerSide /\ OnePublisher /\ InFlight /\ ClientTypes /\ Covered

\* A step of the feed as the worker sees it.
LEMMA FeedIsWorker ==
  ASSUME [FeedNext]_allVars
  PROVE  [Next]_vars \/ OnlyFailure
<1>1. CASE WorkerStep
  BY <1>1 DEF WorkerStep, Next
<1>2. CASE \E p \in Process : HandlerWithFeed(p) \/ CrashWithFeed(p)
  BY <1>2 DEF HandlerWithFeed, CrashWithFeed, Next
<1>3. CASE \E p \in Process : PublishMarketEvents(p) \/ PublicationFails(p)
  BY <1>3 DEF PublishMarketEvents, PublicationFails, OnlyFailure
<1>4. CASE Broadcast \/ LinkBreaks \/ LinkReturns \/ \E k \in Client : Join(k) \/ Leave(k) \/ Fetch(k)
  BY <1>4 DEF Broadcast, LinkBreaks, LinkReturns, Join, Leave, Fetch
<1>5. CASE UNCHANGED allVars
  BY <1>5 DEF allVars
<1>6. QED
  BY <1>1, <1>2, <1>3, <1>4, <1>5 DEF FeedNext

\* Nothing is announced: what is under way moves on or is lost.
LEMMA MovingOn ==
  ASSUME [FeedNext]_allVars, NEW C, NEW N, FeedSequences(seen, inbox, pending, C, N),
         \A p \in Process : HandlerWithFeed(p) => ~Announces(p)
  PROVE  /\ FeedSequences(seen', inbox', pending', C, N)
         /\ \A R : Chained(seen, inbox, pending, R) => Chained(seen', inbox', pending', R)
         /\ \A m \in told' : m \in told \/ m \in N
<1>1. CASE UNCHANGED <<seen, inbox, pending, told>>
  BY <1>1
<1>2. ASSUME NEW p \in Process, PublishMarketEvents(p)
      PROVE  /\ FeedSequences(seen', inbox', pending', C, N)
             /\ \A R : Chained(seen, inbox, pending, R) => Chained(seen', inbox', pending', R)
             /\ told' = told
  <2>1. /\ pending[p] # <<>> /\ pending' = [pending EXCEPT ![p] = Tail(@)]
        /\ inbox' = Append(inbox, Head(pending[p])) \/ inbox' = inbox
        /\ seen' = seen /\ told' = told
    BY <1>2 DEF PublishMarketEvents, NextAnnouncement
  <2>2. PICK rest : /\ rest = <<>> \/ (pending[p] # <<>> /\ rest = Tail(pending[p]))
                    /\ pending' = [pending EXCEPT ![p] = rest] /\ seen' = seen
    BY <2>1
  <2>3. CASE inbox' = Append(inbox, Head(pending[p]))
    <3>1. FeedSequences(seen', inbox', pending', C, N)
      BY <2>1, <2>3, PublishedMembers
    <3>2. \A R : Chained(seen, inbox, pending, R) => Chained(seen', inbox', pending', R)
      BY <2>1, <2>3, PublishingChains
    <3>3. QED
      BY <2>1, <3>1, <3>2
  <2>4. CASE inbox' = inbox
    <3>1. FeedSequences(seen', inbox', pending', C, N)
      BY <2>2, <2>4, DroppedMembers
    <3>2. \A R : Chained(seen, inbox, pending, R) => Chained(seen', inbox', pending', R)
      BY <2>2, <2>4, DroppingChains
    <3>3. QED
      BY <2>1, <3>1, <3>2
  <2>5. QED
    BY <2>1, <2>3, <2>4
<1>3. ASSUME NEW p \in Process, PublicationFails(p) \/ CrashWithFeed(p)
      PROVE  /\ FeedSequences(seen', inbox', pending', C, N)
             /\ \A R : Chained(seen, inbox, pending, R) => Chained(seen', inbox', pending', R)
             /\ told' = told
  <2>1. PICK rest : /\ rest = <<>> \/ (pending[p] # <<>> /\ rest = Tail(pending[p]))
                    /\ pending' = [pending EXCEPT ![p] = rest]
    BY <1>3 DEF PublicationFails, NextAnnouncement, CrashWithFeed
  <2>2. UNCHANGED <<seen, inbox, told>>
    BY <1>3 DEF PublicationFails, CrashWithFeed, feedVars
  <2>3. FeedSequences(seen', inbox', pending', C, N)
    BY <2>1, <2>2, DroppedMembers
  <2>4. \A R : Chained(seen, inbox, pending, R) => Chained(seen', inbox', pending', R)
    BY <2>1, <2>2, DroppingChains
  <2>5. QED
    BY <2>2, <2>3, <2>4
<1>4. CASE Broadcast
  <2>1. /\ inbox # <<>> /\ inbox' = Tail(inbox) /\ pending' = pending
        /\ seen' = [k \in Client |->
                      IF joined[k] THEN Append(seen[k], Head(inbox).command) ELSE seen[k]]
        /\ told' = told \cup {Head(inbox)}
    BY <1>4 DEF Broadcast
  <2>2. FeedSequences(seen', inbox', pending', C, N) /\ Head(inbox) \in N
    BY <2>1, BroadcastMembers
  <2>3. \A R : Chained(seen, inbox, pending, R) => Chained(seen', inbox', pending', R)
    BY <2>1, BroadcastingChains
  <2>4. QED
    BY <2>1, <2>2, <2>3
<1>5. CASE LinkBreaks
  <2>1. inbox' = <<>> /\ UNCHANGED <<seen, pending, told>>
    BY <1>5 DEF LinkBreaks
  <2>2. FeedSequences(seen', inbox', pending', C, N)
    BY <2>1, EmptySeq DEF FeedSequences
  <2>3. \A R : Chained(seen, inbox, pending, R) => Chained(seen', inbox', pending', R)
    BY <2>1, BreakingChains
  <2>4. QED
    BY <2>1, <2>2, <2>3
<1>6. ASSUME NEW k \in Client, Leave(k)
      PROVE  /\ FeedSequences(seen', inbox', pending', C, N)
             /\ \A R : Chained(seen, inbox, pending, R) => Chained(seen', inbox', pending', R)
             /\ told' = told
  <2>1. seen' = [seen EXCEPT ![k] = <<>>] /\ UNCHANGED <<inbox, pending, told>>
    BY <1>6 DEF Leave
  <2>2. FeedSequences(seen', inbox', pending', C, N)
    BY <2>1, EmptySeq DEF FeedSequences
  <2>3. \A R : Chained(seen, inbox, pending, R) => Chained(seen', inbox', pending', R)
    BY <2>1, LeavingChains
  <2>4. QED
    BY <2>1, <2>2, <2>3
<1>7. CASE WorkerStep \/ LinkReturns \/ UNCHANGED allVars
  BY <1>1, <1>7 DEF WorkerStep, LinkReturns, allVars, feedVars
<1>8. ASSUME NEW k \in Client, Join(k) \/ Fetch(k)
      PROVE  UNCHANGED <<seen, inbox, pending, told>>
  BY <1>8 DEF Join, Fetch
<1>9. ASSUME NEW p \in Process, HandlerWithFeed(p)
      PROVE  UNCHANGED <<seen, inbox, pending, told>>
  BY <1>9 DEF HandlerWithFeed, feedVars
<1>10. QED
  BY <1>1, <1>2, <1>3, <1>4, <1>5, <1>6, <1>7, <1>8, <1>9 DEF FeedNext

\* A command is announced: it is behind everything that is under way.
LEMMA Announcing ==
  ASSUME WorkerSide, OnePublisher, InFlight, NEW p \in Process, HandlerWithFeed(p), Announces(p)
  PROVE  InFlight'
<1>1. /\ HandlerNext(p) /\ [Next]_vars
      /\ pending' = [pending EXCEPT ![p] = Append(@, Announcement(p))]
      /\ UNCHANGED <<inbox, seen, told>>
  BY DEF HandlerWithFeed, feedVars, Next
<1>2. PICK m : m = Announcement(p)
  OBVIOUS
<1>3. m.command = delivery[p]
  BY <1>2 DEF Announcement
<1>4. /\ consuming[p] /\ m \in SoundNotes'
      /\ \A c \in PastCommands :
           <<c, m.command>> \in Differ /\ <<m.command, c>> \in Differ /\ <<c, m.command>> \in Earlier'
  BY <1>1, <1>2, <1>3, AnnouncementIsLast
<1>5. /\ PastCommands \subseteq PastCommands' /\ SoundNotes \subseteq SoundNotes'
      /\ \A n \in SoundNotes' : n.command \in PastCommands'
      /\ Earlier \subseteq Earlier'
  BY <1>1, FeedSurvives
<1>6. FeedSequences(seen, inbox, pending, PastCommands, SoundNotes)
      /\ Chained(seen, inbox, pending, Differ)
      /\ (doubts = 0 => Chained(seen, inbox, pending, Earlier))
  BY DEF InFlight
<1>7. FeedSequences(seen', inbox', pending', PastCommands', SoundNotes')
  <2>1. FeedSequences(seen, inbox, pending, PastCommands', SoundNotes')
    BY <1>5, <1>6, WiderFeed
  <2>2. FeedSequences(seen, inbox, [pending EXCEPT ![p] = Append(@, m)], PastCommands', SoundNotes')
    BY <1>4, <2>1, NotedMembers
  <2>3. QED
    BY <1>1, <1>2, <2>2
<1>8. \A q \in Process : \A j \in 1..Len(pending[q]) : pending[q][j].command \in PastCommands
  BY <1>6, SequenceMembers
<1>9. Chained(seen', inbox', pending', Differ)
  <2>1. Chained(seen, inbox, [pending EXCEPT ![p] = Append(@, m)], Differ)
    BY <1>4, <1>6, <1>8, NotingChains
  <2>2. QED
    BY <1>1, <1>2, <2>1
<1>10. ASSUME doubts' = 0
       PROVE  Chained(seen', inbox', pending', Earlier')
  <2>1. doubts = 0
    BY <1>1, <1>4, <1>10, ConsumingStays
  <2>2. Chained(seen, inbox, pending, Earlier')
    BY <1>5, <1>6, <2>1, WiderChains
  <2>3. \A q \in Process : q # p => pending[q] = <<>>
    BY <1>4, <2>1 DEF OnePublisher, WorkerSide, WorkerInv, IInv, OneTurn
  <2>4. \A q \in Process : q # p => \A j \in 1..Len(pending[q]) :
          <<m.command, pending[q][j].command>> \in Earlier'
    BY <2>3
  <2>5. Chained(seen, inbox, [pending EXCEPT ![p] = Append(@, m)], Earlier')
    BY <1>4, <1>6, <2>2, <2>4, NotingChains
  <2>6. QED
    BY <1>1, <1>2, <2>5
<1>11. told' \subseteq SoundNotes'
  BY <1>1, <1>5 DEF InFlight
<1>12. Differ' = Differ
  BY DEF Differ
<1>13. QED
  BY <1>7, <1>9, <1>10, <1>11, <1>12 DEF InFlight

\* No step takes back a leadership check that has failed.
LEMMA DoubtsStay ==
  ASSUME WorkerSide, [Next]_vars \/ OnlyFailure, doubts' = 0
  PROVE  doubts = 0
<1>1. doubts \in Nat
  BY BoundsAssumption DEF WorkerSide, WorkerInv, ReplayInv, RestTypes
<1>2. ASSUME NEW p \in Process, ReportingStep(p)
      PROVE  doubts' = doubts \/ doubts' = doubts + 1
  BY <1>2 DEF ReportingStep, GiveBack, AcknowledgeAndReport, CheckSaysNo
<1>3. doubts' = doubts \/ \E p \in Process : ReportingStep(p)
  <2>1. CASE Api \/ UNCHANGED vars \/ OnlyFailure
    BY <2>1 DEF Api, SaveQueued, Publish, PublishFails, vars, faultVars, OnlyFailure
  <2>2. ASSUME NEW p \in Process,
               \/ Deliver(p) \/ CallFails(p) \/ RejectFails(p) \/ Start(p) \/ Crash(p)
               \/ RefuseForeign(p) \/ Acknowledge(p)
        PROVE  doubts' = doubts
    BY <2>2 DEF Deliver, CallFails, RejectFails, Start, Crash, LoseProcess, LoseMemory,
                RefuseForeign, Acknowledge, faultVars
  <2>3. ASSUME NEW p \in Process, StoreStep(p)
        PROVE  doubts' = doubts
    BY <2>3 DEF StoreStep, Accept, SkipProcessed, Execute, StillLeads, AppendCommand,
                AppendEvents, SaveReadModel, SaveSnapshot, SaveProcessed, SaveSkipped,
                SaveRejected, faultVars
  <2>4. QED
    BY <2>1, <2>2, <2>3 DEF Next, HandlerNext, QuietStep
<1>4. QED
  BY <1>1, <1>2, <1>3

LEMMA InFlightStep ==
  ASSUME WorkerSide, OnePublisher, InFlight, [FeedNext]_allVars
  PROVE  InFlight'
<1>1. CASE \E p \in Process : HandlerWithFeed(p) /\ Announces(p)
  BY <1>1, Announcing
<1>2. CASE \A p \in Process : HandlerWithFeed(p) => ~Announces(p)
  <2>1. [Next]_vars \/ OnlyFailure
    BY FeedIsWorker
  <2>2. /\ PastCommands \subseteq PastCommands' /\ SoundNotes \subseteq SoundNotes'
        /\ \A n \in SoundNotes' : n.command \in PastCommands'
        /\ Earlier \subseteq Earlier'
    BY <2>1, FeedSurvives
  <2>3. FeedSequences(seen, inbox, pending, PastCommands', SoundNotes')
    BY <2>2, WiderFeed DEF InFlight
  <2>4. /\ FeedSequences(seen', inbox', pending', PastCommands', SoundNotes')
        /\ \A R : Chained(seen, inbox, pending, R) => Chained(seen', inbox', pending', R)
        /\ \A m \in told' : m \in told \/ m \in SoundNotes'
    BY <1>2, <2>3, MovingOn
  <2>5. Chained(seen', inbox', pending', Differ')
    BY <2>4 DEF InFlight, Differ
  <2>6. ASSUME doubts' = 0
        PROVE  Chained(seen', inbox', pending', Earlier')
    <3>1. Chained(seen, inbox, pending, Earlier)
      BY <2>1, <2>6, DoubtsStay DEF InFlight
    <3>2. Chained(seen, inbox, pending, Earlier')
      BY <2>2, <3>1, WiderChains
    <3>3. QED
      BY <2>4, <3>2
  <2>7. told' \subseteq SoundNotes'
    BY <2>2, <2>4 DEF InFlight
  <2>8. QED
    BY <2>4, <2>5, <2>6, <2>7 DEF InFlight
<1>3. QED
  BY <1>1, <1>2

\* A process that crashes takes no other step.
LEMMA NoCrash ==
  ASSUME WorkerSide, NEW p \in Process,
         WorkerStep \/ (\E q \in Process : HandlerNext(q)) \/ UNCHANGED vars
  PROVE  ~Crash(p)
<1>1. crashes' = crashes
  <2>1. CASE Api \/ UNCHANGED vars
    BY <2>1 DEF Api, SaveQueued, Publish, PublishFails, vars, faultVars
  <2>2. ASSUME NEW q \in Process,
               \/ Deliver(q) \/ CallFails(q) \/ RejectFails(q) \/ Start(q) \/ RefuseForeign(q)
               \/ Acknowledge(q) \/ ReportingStep(q)
        PROVE  crashes' = crashes
    BY <2>2 DEF Deliver, CallFails, RejectFails, Start, RefuseForeign, Acknowledge, EndDelivery,
                ReportingStep, GiveBack, HandBack, AcknowledgeAndReport, AcknowledgeLast, faultVars
  <2>3. ASSUME NEW q \in Process, StoreStep(q)
        PROVE  crashes' = crashes
    BY <2>3 DEF StoreStep, Accept, SkipProcessed, Execute, StillLeads, AppendCommand,
                AppendEvents, SaveReadModel, SaveSnapshot, SaveProcessed, SaveSkipped,
                SaveRejected, faultVars
  <2>4. QED
    BY <2>1, <2>2, <2>3 DEF WorkerStep, HandlerNext, QuietStep
<1>2. crashes \in Nat
  BY BoundsAssumption DEF WorkerSide, WorkerInv, ReplayInv, RestTypes
<1>3. QED
  BY <1>1, <1>2 DEF Crash, LoseProcess

LEMMA OnePublisherStep ==
  ASSUME WorkerSide, OnePublisher, InFlight, [FeedNext]_allVars
  PROVE  OnePublisher'
<1> SUFFICES ASSUME doubts' = 0, NEW p \in Process, pending'[p] # <<>>
             PROVE  consuming'[p]
  BY DEF OnePublisher
<1>1. doubts = 0 /\ (pending[p] # <<>> => consuming[p])
  BY FeedIsWorker, DoubtsStay DEF OnePublisher
<1>2. pending \in [Process -> Seq(SoundNotes)]
  BY DEF InFlight, FeedSequences
<1>3. CASE WorkerStep
  <2>1. [Next]_vars /\ pending' = pending
    BY <1>3 DEF WorkerStep, Next
  <2>2. QED
    BY <1>1, <1>3, <2>1, NoCrash, ConsumingStays
<1>4. ASSUME NEW q \in Process, HandlerWithFeed(q)
      PROVE  consuming'[p]
  <2>1. [Next]_vars /\ HandlerNext(q)
    BY <1>4 DEF HandlerWithFeed, Next
  <2>2. pending[p] # <<>> \/ (p = q /\ Announces(q))
    BY <1>2, <1>4 DEF HandlerWithFeed
  <2>3. consuming[p]
    BY <1>1, <2>1, <2>2, AnnouncementIsLast
  <2>4. QED
    BY <2>1, <2>3, NoCrash, ConsumingStays
<1>5. ASSUME NEW q \in Process, CrashWithFeed(q)
      PROVE  consuming'[p]
  <2>1. /\ pending' = [pending EXCEPT ![q] = <<>>]
        /\ consuming' = [consuming EXCEPT ![q] = FALSE]
    BY <1>5 DEF CrashWithFeed, Crash, LoseProcess, LoseMemory
  <2>2. p # q /\ pending[p] # <<>>
    BY <1>2, <2>1
  <2>3. QED
    BY <1>1, <2>1, <2>2 DEF WorkerSide, WorkerInv, IInv, Shape
<1>6. ASSUME NEW q \in Process, PublishMarketEvents(q) \/ PublicationFails(q)
      PROVE  consuming'[p]
  <2>1. /\ pending[q] # <<>> /\ pending' = [pending EXCEPT ![q] = Tail(@)]
        /\ consuming' = consuming
    BY <1>6 DEF PublishMarketEvents, PublicationFails, NextAnnouncement, vars, processVars
  <2>2. pending[p] # <<>>
    BY <1>2, <2>1
  <2>3. QED
    BY <1>1, <2>1, <2>2
<1>7. CASE \/ Broadcast \/ LinkBreaks \/ LinkReturns \/ UNCHANGED allVars
           \/ \E k \in Client : Join(k) \/ Leave(k) \/ Fetch(k)
  <2>1. UNCHANGED <<pending, consuming>>
    BY <1>7 DEF Broadcast, LinkBreaks, LinkReturns, Join, Leave, Fetch, allVars, vars,
                processVars
  <2>2. QED
    BY <1>1, <2>1
<1>8. QED
  BY <1>3, <1>4, <1>5, <1>6, <1>7 DEF FeedNext

LEMMA CoveredStep ==
  ASSUME WorkerSide, InFlight, ClientTypes, Covered, [FeedNext]_allVars
  PROVE  ClientTypes' /\ Covered'
<1>1. /\ joined \in [Client -> BOOLEAN] /\ fetched \in [Client -> Seq(Command) \cup {Nobody}]
      /\ readModel \in Seq(Command) /\ seen \in [Client -> Seq(PastCommands)]
  BY DEF ClientTypes, WorkerSide, WorkerInv, ReplayInv, RestTypes, InFlight, FeedSequences
<1>2. CASE UNCHANGED <<joined, fetched, seen, told>>
  BY <1>2 DEF ClientTypes, Covered, Holds
<1>3. CASE Broadcast
  <2>1. /\ inbox # <<>> /\ UNCHANGED <<joined, fetched>>
        /\ seen' = [k \in Client |->
                      IF joined[k] THEN Append(seen[k], Head(inbox).command) ELSE seen[k]]
        /\ told' = told \cup {Head(inbox)}
    BY <1>3 DEF Broadcast
  <2>2. Head(inbox).command \in PastCommands
    BY <2>1, BroadcastMembers DEF InFlight, FeedSequences
  <2>3. ASSUME NEW k \in Client, fetched[k] # Nobody, NEW m \in told', m.done
        PROVE  joined[k] /\ (Holds(fetched[k], m.command) \/ Holds(seen'[k], m.command))
    <3>1. joined[k]
      BY <2>3 DEF Covered
    <3>2. seen[k] \in Seq(PastCommands) /\ seen'[k] = Append(seen[k], Head(inbox).command)
      BY <1>1, <2>1, <3>1
    <3>3. /\ Holds(seen'[k], Head(inbox).command)
          /\ \A d : Holds(seen[k], d) => Holds(seen'[k], d)
      BY <2>2, <3>2, AppendHolds
    <3>4. QED
      BY <2>1, <2>3, <3>1, <3>3 DEF Covered
  <2>4. \A k \in Client : fetched[k] # Nobody => joined[k]
    BY DEF Covered
  <2>5. Covered'
    BY <2>1, <2>3, <2>4 DEF Covered, Holds
  <2>6. QED
    BY <2>1, <2>5 DEF ClientTypes
<1>4. ASSUME NEW k \in Client, Join(k)
      PROVE  ClientTypes' /\ Covered'
  <2>1. joined' = [joined EXCEPT ![k] = TRUE] /\ UNCHANGED <<fetched, seen, told>>
    BY <1>4 DEF Join
  <2>2. ClientTypes'
    BY <1>1, <2>1 DEF ClientTypes
  <2>3. \A l \in Client : joined[l] => joined'[l]
    BY <1>1, <2>1
  <2>4. Covered'
    BY <2>1, <2>3 DEF Covered, Holds
  <2>5. QED
    BY <2>2, <2>4
<1>5. ASSUME NEW k \in Client, Leave(k)
      PROVE  ClientTypes' /\ Covered'
  <2>1. /\ joined' = [joined EXCEPT ![k] = FALSE] /\ fetched' = [fetched EXCEPT ![k] = Nobody]
        /\ seen' = [seen EXCEPT ![k] = <<>>] /\ told' = told
    BY <1>5 DEF Leave
  <2>2. ClientTypes'
    BY <1>1, <2>1 DEF ClientTypes
  <2>3. \A l \in Client : \/ fetched'[l] = Nobody
                          \/ joined'[l] = joined[l] /\ fetched'[l] = fetched[l] /\ seen'[l] = seen[l]
    BY <1>1, <2>1
  <2>4. ASSUME NEW l \in Client, fetched'[l] # Nobody
        PROVE  joined'[l] /\ \A m \in told :
                 m.done => Holds(fetched'[l], m.command) \/ Holds(seen'[l], m.command)
    BY <2>3, <2>4 DEF Covered
  <2>5. Covered'
    BY <2>1, <2>4 DEF Covered, Holds
  <2>6. QED
    BY <2>2, <2>5
<1>6. ASSUME NEW k \in Client, Fetch(k)
      PROVE  ClientTypes' /\ Covered'
  <2>1. \A m \in told : m.done => Holds(readModel, m.command)
    BY DEF InFlight, SoundNotes, Saved
  <2>2. joined[k] /\ fetched' = [fetched EXCEPT ![k] = readModel] /\ UNCHANGED <<joined, seen, told>>
    BY <1>6 DEF Fetch
  <2>3. ClientTypes'
    BY <1>1, <2>2 DEF ClientTypes
  <2>4. fetched'[k] = readModel /\ \A l \in Client : l # k => fetched'[l] = fetched[l]
    BY <1>1, <2>2
  <2>5. ASSUME NEW l \in Client, fetched'[l] # Nobody
        PROVE  joined[l] /\ \A m \in told :
                 m.done => Holds(fetched'[l], m.command) \/ Holds(seen[l], m.command)
    BY <2>1, <2>2, <2>4, <2>5 DEF Covered
  <2>6. Covered'
    BY <2>2, <2>5 DEF Covered, Holds
  <2>7. QED
    BY <2>3, <2>6
<1>7. CASE \/ WorkerStep \/ LinkBreaks \/ LinkReturns \/ UNCHANGED allVars
           \/ \E p \in Process : \/ HandlerWithFeed(p) \/ CrashWithFeed(p)
                                 \/ PublishMarketEvents(p) \/ PublicationFails(p)
  BY <1>2, <1>7 DEF WorkerStep, LinkBreaks, LinkReturns, allVars, HandlerWithFeed, CrashWithFeed,
                    PublishMarketEvents, PublicationFails, feedVars
<1>8. QED
  BY <1>3, <1>4, <1>5, <1>6, <1>7 DEF FeedNext

LEMMA FeedInitially == FeedInit => FeedInv
<1> SUFFICES ASSUME FeedInit PROVE FeedInv
  OBVIOUS
<1>1. WorkerInv /\ LeaderConsumes /\ ReadModelFirst
  BY WorkerInitially DEF FeedInit, Init, LeaderConsumes, ReadModelFirst, AfterReadModel
<1>2. /\ seen = [k \in Client |-> <<>>] /\ inbox = <<>> /\ pending = [p \in Process |-> <<>>]
      /\ told = {} /\ joined = [k \in Client |-> FALSE] /\ fetched = [k \in Client |-> Nobody]
  BY DEF FeedInit
<1>3. FeedSequences(seen, inbox, pending, PastCommands, SoundNotes)
  BY <1>2, EmptySeq DEF FeedSequences, SoundNotes, PastCommands, Note
<1>4. \A R : Chained(seen, inbox, pending, R)
  BY <1>2 DEF Chained, SeenChain, InboxChain, PendingChain, SeenInbox, SeenPending, InboxPending,
              AcrossPending
<1>5. OnePublisher /\ ClientTypes /\ Covered
  BY <1>2 DEF OnePublisher, ClientTypes, Covered
<1>6. QED
  BY <1>1, <1>2, <1>3, <1>4, <1>5 DEF FeedInv, WorkerSide, InFlight

LEMMA FeedInvariance == FeedSpec => []FeedInv
<1>1. FeedInv /\ [FeedNext]_allVars => FeedInv'
  BY FeedIsWorker, FeedSurvives, OnePublisherStep, InFlightStep, CoveredStep DEF FeedInv
<1>2. QED
  BY <1>1, FeedInitially, PTL DEF FeedSpec

-----------------------------------------------------------------------------
(* The theorems *)

\* A client is told of a command once however often it is delivered and, as long as the
\* partition changes hands by crashes only, in the order of the queue: a publication is
\* under way only of a command that no delivery can bring back (void publishMarketEvents
\* right before the acknowledgement).
THEOREM AlwaysToldOnceInOrder == FeedSpec => []ToldOnceInOrder
<1>1. FeedInv => ToldOnceInOrder
  <2> SUFFICES ASSUME FeedInv, NEW k \in Client
               PROVE  /\ Promise!Distinct(seen[k])
                      /\ doubts = 0 => Promise!KeepsOrder(seen[k], sent)
    BY DEF ToldOnceInOrder
  <2>1. \A i, j \in 1..Len(seen[k]) : i < j => seen[k][i] # seen[k][j]
    <3>1. SeenChain(seen, Differ)
      BY DEF FeedInv, InFlight, Chained
    <3>2. \A c, d : <<c, d>> \in Differ => c # d
      BY DEF Differ
    <3>3. QED
      BY <3>1, <3>2 DEF SeenChain
  <2>2. ASSUME doubts = 0, NEW i \in 1..Len(seen[k]), NEW j \in 1..Len(seen[k]), i < j
        PROVE  \E m, n \in 1..Len(sent) : m < n /\ sent[m] = seen[k][i] /\ sent[n] = seen[k][j]
    <3>1. SeenChain(seen, Earlier)
      BY <2>2 DEF FeedInv, InFlight, Chained
    <3>2. <<seen[k][i], seen[k][j]>> \in Earlier
      BY <2>2, <3>1 DEF SeenChain
    <3>3. \A c, d : <<c, d>> \in Earlier =>
            \E m, n \in 1..Len(sent) : m < n /\ sent[m] = c /\ sent[n] = d
      BY DEF Earlier
    <3>4. QED
      BY <3>2, <3>3
  <2>3. Promise!Distinct(seen[k])
    <3>1. seen[k] \in Seq(PastCommands)
      BY DEF FeedInv, InFlight, FeedSequences
    <3>2. Len(seen[k]) \in Nat
      BY <3>1, LenProperties
    <3>3. \A i, j \in 1..Len(seen[k]) : i < j \/ j < i \/ i = j
      BY <3>2
    <3>4. QED
      BY <2>1, <3>3 DEF Promise!Distinct
  <2>4. doubts = 0 => Promise!KeepsOrder(seen[k], sent)
    BY <2>2 DEF Promise!KeepsOrder
  <2>5. QED
    BY <2>3, <2>4
<1>2. QED
  BY <1>1, FeedInvariance, PTL

\* A client that subscribes and then reads the book misses nothing of what has been
\* broadcast: what was broadcast before it subscribed is in the book it reads (saveBook
\* before publishMarketEvents).
THEOREM NeverAGap == FeedSpec => []NoGap
<1>1. FeedInv => NoGap
  <2> SUFFICES ASSUME FeedInv, NEW k \in Client, fetched[k] # Nobody, NEW m \in told, m.done
               PROVE  m.command \in ToSet(fetched[k]) \cup ToSet(seen[k])
    BY DEF NoGap
  <2>1. Holds(fetched[k], m.command) \/ Holds(seen[k], m.command)
    BY DEF FeedInv, Covered
  <2>2. QED
    BY <2>1 DEF Holds, ToSet
<1>2. QED
  BY <1>1, FeedInvariance, PTL
=============================================================================
