-------------------------- MODULE ConversationProofs --------------------------
(***************************************************************************)
(* More proofs about RuntimeSession: the conversation.  The store, the     *)
(* session and the run hold prefixes of one conversation (HistoriesNest),  *)
(* every tool call in it has its result (CallsAnswered), and a turn keeps  *)
(* what it did (TurnKept).                                                 *)
(***************************************************************************)
EXTENDS RuntimeProofs

-----------------------------------------------------------------------------
(* Prefixes.                                                               *)

LEMMA PrefixMeans ==
  ASSUME NEW S, NEW s \in Seq(S), NEW t \in Seq(S)
  PROVE  IsPrefix(s, t) <=> Len(s) <= Len(t) /\ \A i \in 1 .. Len(s) : s[i] = t[i]
<1>0. Len(s) \in Nat /\ Len(t) \in Nat
  OBVIOUS
<1>1. SubSeq(s, 1, Len(s)) = s
  BY SubSeqFull
<1>2. ASSUME Len(s) <= Len(t)
      PROVE  s = SubSeq(t, 1, Len(s)) <=> \A i \in 1 .. Len(s) : s[i] = t[i]
  <2>1. /\ SubSeq(t, 1, Len(s)) \in Seq(S) /\ Len(SubSeq(t, 1, Len(s))) = Len(s)
        /\ \A i \in 1 .. Len(s) : SubSeq(t, 1, Len(s))[i] = t[i]
    <3>1. \A i \in 1 .. Len(s) : i \in 1 .. Len(t) /\ 1 + i - 1 = i
      BY <1>0, <1>2
    <3> QED
      BY <1>0, <1>2, <3>1, SubSeqProperties
  <2> DEFINE u == SubSeq(t, 1, Len(s))
  <2> HIDE DEF u
  <2>2. u \in Seq(S) /\ Len(u) = Len(s) /\ \A i \in 1 .. Len(s) : u[i] = t[i]
    BY <2>1 DEF u
  <2>3. s = u <=> \A i \in 1 .. Len(s) : s[i] = u[i]
    BY <2>2, SeqEqual
  <2> QED
    BY <2>2, <2>3 DEF u
<1> QED
  BY <1>0, <1>1, <1>2 DEF IsPrefix

LEMMA PrefixSelf ==
  ASSUME NEW S, NEW s \in Seq(S)
  PROVE  IsPrefix(s, s)
BY PrefixMeans

LEMMA PrefixAppend ==
  ASSUME NEW S, NEW s \in Seq(S), NEW e \in S
  PROVE  IsPrefix(s, Append(s, e))
<1>1. /\ Append(s, e) \in Seq(S) /\ Len(Append(s, e)) = Len(s) + 1 /\ Len(s) \in Nat
      /\ \A i \in 1 .. Len(s) : Append(s, e)[i] = s[i]
  BY AppendProperties
<1> DEFINE t == Append(s, e)
<1> HIDE DEF t
<1>2. t \in Seq(S) /\ Len(s) <= Len(t) /\ \A i \in 1 .. Len(s) : s[i] = t[i]
  BY <1>1 DEF t
<1>3. IsPrefix(s, t)
  BY <1>2, PrefixMeans
<1> QED
  BY <1>3 DEF t

LEMMA PrefixTrans ==
  ASSUME NEW S, NEW s \in Seq(S), NEW t \in Seq(S), NEW u \in Seq(S),
         IsPrefix(s, t), IsPrefix(t, u)
  PROVE  IsPrefix(s, u)
<1>1. /\ Len(s) \in Nat /\ Len(t) \in Nat /\ Len(u) \in Nat
      /\ Len(s) <= Len(t) /\ Len(t) <= Len(u)
      /\ \A i \in 1 .. Len(s) : s[i] = t[i]
      /\ \A i \in 1 .. Len(t) : t[i] = u[i]
  BY PrefixMeans
<1>2. Len(s) <= Len(u) /\ \A i \in 1 .. Len(s) : s[i] = u[i]
  BY <1>1
<1> QED
  BY <1>2, PrefixMeans

-----------------------------------------------------------------------------
(* What a conversation is without its instructions.  f lists what Talk has *)
(* of the first n messages.                                                *)

IsTalk(f, h, k) ==
  f = [n \in 0 .. k |-> IF n = 0 THEN << >>
                        ELSE IF h[n].role = "system" THEN f[n - 1]
                        ELSE Append(f[n - 1], h[n])]

Follows(f, h, k) ==
  /\ f[0] = << >>
  /\ \A n \in Nat : n < k =>
       f[n + 1] = IF h[n + 1].role = "system" THEN f[n] ELSE Append(f[n], h[n + 1])

LEMMA TalkExists ==
  ASSUME NEW h, NEW k \in Nat
  PROVE  \E f : IsTalk(f, h, k)
<1> DEFINE T == {j \in Nat : \E f : IsTalk(f, h, j)}
<1>1. 0 \in T
  <2> DEFINE f == [n \in 0 .. 0 |-> << >>]
  <2>1. IsTalk(f, h, 0)
    BY DEF IsTalk
  <2> QED
    BY <2>1
<1>2. ASSUME NEW j \in T
      PROVE  j + 1 \in T
  <2>1. PICK f : IsTalk(f, h, j)
    OBVIOUS
  <2>2. j \in Nat
    OBVIOUS
  <2> DEFINE g == [n \in 0 .. (j + 1) |->
                     IF n <= j THEN f[n]
                     ELSE IF h[n].role = "system" THEN f[n - 1] ELSE Append(f[n - 1], h[n])]
             G == [n \in 0 .. (j + 1) |-> IF n = 0 THEN << >>
                        ELSE IF h[n].role = "system" THEN g[n - 1]
                        ELSE Append(g[n - 1], h[n])]
  <2>3. ASSUME NEW n \in 0 .. (j + 1)
        PROVE  g[n] = G[n]
    <3>1. CASE n = 0
      BY <2>1, <2>2, <3>1 DEF IsTalk
    <3>2. CASE n \in 1 .. j
      <4>1. n - 1 \in 0 .. j /\ n - 1 \in 0 .. (j + 1) /\ n \in 0 .. j /\ n <= j /\ n # 0 /\ n - 1 <= j
        BY <2>2, <3>2
      <4>2. f[n] = IF h[n].role = "system" THEN f[n - 1] ELSE Append(f[n - 1], h[n])
        BY <2>1, <4>1 DEF IsTalk
      <4>3. g[n] = f[n] /\ g[n - 1] = f[n - 1]
        BY <4>1
      <4> QED
        BY <4>1, <4>2, <4>3
    <3>3. CASE n = j + 1
      <4>1. n - 1 = j /\ ~(n <= j) /\ n # 0 /\ j <= j /\ j \in 0 .. (j + 1)
        BY <2>2, <3>3
      <4>2. g[j] = f[j] /\ g[n] = IF h[n].role = "system" THEN f[j] ELSE Append(f[j], h[n])
        BY <4>1
      <4> QED
        BY <4>1, <4>2
    <3> QED
      BY <2>2, <3>1, <3>2, <3>3
  <2>4. g = G
    BY <2>3
  <2>5. IsTalk(g, h, j + 1)
    BY <2>4 DEF IsTalk
  <2> QED
    BY <2>2, <2>5
<1>3. T = Nat
  <2> HIDE DEF T
  <2>1. T \in SUBSET Nat
    BY DEF T
  <2> QED
    BY <1>1, <1>2, <2>1, SetInduction
<1> QED
  BY <1>3

\* Talk goes through the messages one by one.
LEMMA TalkFollows ==
  ASSUME NEW h \in History
  PROVE  \E f : Follows(f, h, Len(h)) /\ Talk(h) = f[Len(h)]
<1> DEFINE f == CHOOSE g : IsTalk(g, h, Len(h))
<1>1. Len(h) \in Nat
  BY DEF History
<1>2. IsTalk(f, h, Len(h))
  BY <1>1, TalkExists
<1>3. Talk(h) = f[Len(h)]
  BY Zenon DEF Talk, IsTalk
<1> HIDE DEF f
<1>4. f[0] = << >>
  BY <1>1, <1>2 DEF IsTalk
<1>5. ASSUME NEW n \in Nat, n < Len(h)
      PROVE  f[n + 1] = IF h[n + 1].role = "system" THEN f[n] ELSE Append(f[n], h[n + 1])
  <2>1. n + 1 \in 0 .. Len(h) /\ n + 1 # 0 /\ (n + 1) - 1 = n
    BY <1>1, <1>5
  <2>2. \A m \in 0 .. Len(h) : m # 0 =>
          f[m] = IF h[m].role = "system" THEN f[m - 1] ELSE Append(f[m - 1], h[m])
    BY <1>2 DEF IsTalk
  <2>3. f[n + 1] = IF h[n + 1].role = "system" THEN f[(n + 1) - 1]
                   ELSE Append(f[(n + 1) - 1], h[n + 1])
    BY <2>1, <2>2, Zenon
  <2> QED
    BY <2>1, <2>3
<1> QED
  BY <1>3, <1>4, <1>5 DEF Follows

LEMMA FollowsType ==
  ASSUME NEW h \in History, NEW f, Follows(f, h, Len(h))
  PROVE  \A n \in 0 .. Len(h) : f[n] \in History
<1> DEFINE T == {n \in Nat : n <= Len(h) => f[n] \in History}
<1>0. Len(h) \in Nat /\ \A i \in 1 .. Len(h) : h[i] \in MessageRecord
  BY DEF History
<1>1. 0 \in T
  BY Empties DEF Follows
<1>2. ASSUME NEW n \in T
      PROVE  n + 1 \in T
  <2>1. CASE n < Len(h)
    <3>1. n \in Nat /\ f[n] \in History /\ n + 1 \in 1 .. Len(h)
      BY <1>0, <2>1
    <3>2. f[n + 1] = f[n] \/ f[n + 1] = Append(f[n], h[n + 1])
      BY <2>1, <3>1 DEF Follows
    <3>3. h[n + 1] \in MessageRecord
      BY <1>0, <3>1
    <3>4. Append(f[n], h[n + 1]) \in History
      BY <3>1, <3>3 DEF History
    <3>5. f[n + 1] \in History
      BY <3>1, <3>2, <3>4, Zenon
    <3>6. n + 1 \in Nat
      BY <3>1
    <3> QED
      BY <3>5, <3>6
  <2>2. CASE ~(n < Len(h))
    BY <1>0, <2>2
  <2> QED
    BY <2>1, <2>2
<1>3. T = Nat
  <2>1. T \in SUBSET Nat
    OBVIOUS
  <2> HIDE DEF T
  <2> QED
    BY <1>1, <1>2, <2>1, SetInduction
<1> QED
  BY <1>0, <1>3

\* f and g follow h and h2 and agree at a and b; the k messages after are the same.
Alike(f, h, m, g, h2, m2, a, b, k) ==
  /\ m \in Nat /\ m2 \in Nat /\ a \in Nat /\ b \in Nat /\ k \in Nat
  /\ Follows(f, h, m) /\ Follows(g, h2, m2)
  /\ a + k <= m /\ b + k <= m2
  /\ f[a] = g[b]
  /\ \A i \in 1 .. k : h[a + i] = h2[b + i]

\* The same messages after the same talk make the same talk.
LEMMA FollowsShift ==
  ASSUME NEW h, NEW f, NEW m, NEW h2, NEW g, NEW m2, NEW a, NEW b, NEW k,
         Alike(f, h, m, g, h2, m2, a, b, k)
  PROVE  f[a + k] = g[b + k]
<1>0. /\ m \in Nat /\ m2 \in Nat /\ a \in Nat /\ b \in Nat /\ k \in Nat
      /\ Follows(f, h, m) /\ Follows(g, h2, m2)
      /\ a + k <= m /\ b + k <= m2
      /\ f[a] = g[b]
      /\ \A i \in 1 .. k : h[a + i] = h2[b + i]
  BY DEF Alike
<1> DEFINE T == {n \in Nat : n <= k => f[a + n] = g[b + n]}
<1>1. 0 \in T
  <2>1. a + 0 = a /\ b + 0 = b
    BY <1>0
  <2>2. f[a + 0] = g[b + 0]
    BY <1>0, <2>1, Zenon
  <2> QED
    BY <2>2
<1>2. ASSUME NEW n \in T
      PROVE  n + 1 \in T
  <2>1. CASE n < k
    <3>1. n \in Nat /\ f[a + n] = g[b + n] /\ n + 1 \in 1 .. k
      BY <1>0, <2>1
    <3>2. /\ a + n \in Nat /\ a + n < m /\ (a + n) + 1 = a + (n + 1)
          /\ b + n \in Nat /\ b + n < m2 /\ (b + n) + 1 = b + (n + 1)
      BY <1>0, <2>1, <3>1
    <3>3. f[a + (n + 1)] = IF h[a + (n + 1)].role = "system" THEN f[a + n]
                           ELSE Append(f[a + n], h[a + (n + 1)])
      BY <1>0, <3>2 DEF Follows
    <3>4. g[b + (n + 1)] = IF h2[b + (n + 1)].role = "system" THEN g[b + n]
                           ELSE Append(g[b + n], h2[b + (n + 1)])
      BY <1>0, <3>2 DEF Follows
    <3>5. h[a + (n + 1)] = h2[b + (n + 1)]
      BY <1>0, <3>1
    <3>6. f[a + (n + 1)] = g[b + (n + 1)]
      BY <3>1, <3>3, <3>4, <3>5, Zenon
    <3> QED
      BY <3>1, <3>6
  <2>2. CASE ~(n < k)
    BY <1>0, <2>2
  <2> QED
    BY <2>1, <2>2
<1>3. T = Nat
  <2>1. T \in SUBSET Nat
    OBVIOUS
  <2> HIDE DEF T
  <2> QED
    BY <1>1, <1>2, <2>1, SetInduction
<1>4. k \in T
  <2> HIDE DEF T
  <2> QED
    BY <1>0, <1>3
<1>5. k <= k => f[a + k] = g[b + k]
  BY <1>4
<1>6. k <= k
  BY <1>0
<1> QED
  BY <1>5, <1>6

\* Instructions in front say nothing.
LEMMA FollowsLeading ==
  ASSUME NEW h, NEW f, NEW m \in Nat, Follows(f, h, m),
         NEW p \in Nat, p <= m, \A i \in 1 .. p : h[i].role = "system"
  PROVE  f[p] = << >>
<1> DEFINE T == {n \in Nat : n <= p => f[n] = << >>}
<1>1. 0 \in T
  BY DEF Follows
<1>2. ASSUME NEW n \in T
      PROVE  n + 1 \in T
  <2>1. CASE n < p
    <3>1. n \in Nat /\ f[n] = << >> /\ n + 1 \in 1 .. p /\ n < m
      BY <2>1
    <3> QED
      BY <3>1 DEF Follows
  <2>2. CASE ~(n < p)
    BY <2>2
  <2> QED
    BY <2>1, <2>2
<1>3. T = Nat
  <2>1. T \in SUBSET Nat
    OBVIOUS
  <2> HIDE DEF T
  <2> QED
    BY <1>1, <1>2, <2>1, SetInduction
<1> QED
  BY <1>3

\* The talk only grows.
LEMMA FollowsGrows ==
  ASSUME NEW h \in History, NEW f, Follows(f, h, Len(h)),
         NEW a \in Nat, NEW k \in Nat, a + k <= Len(h)
  PROVE  IsPrefix(f[a], f[a + k])
<1> DEFINE T == {n \in Nat : a + n <= Len(h) => IsPrefix(f[a], f[a + n])}
<1>0. /\ Len(h) \in Nat /\ \A i \in 1 .. Len(h) : h[i] \in MessageRecord
      /\ \A n \in 0 .. Len(h) : f[n] \in Seq(MessageRecord)
  BY FollowsType DEF History
<1>1. 0 \in T
  <2>1. a + 0 = a /\ a \in 0 .. Len(h)
    BY <1>0
  <2>2. IsPrefix(f[a], f[a])
    BY <1>0, <2>1, PrefixSelf
  <2> QED
    BY <2>1, <2>2
<1>2. ASSUME NEW n \in T
      PROVE  n + 1 \in T
  <2>1. CASE a + (n + 1) <= Len(h)
    <3>1. /\ n \in Nat /\ a + n <= Len(h) /\ a + n \in Nat /\ a + n < Len(h)
          /\ (a + n) + 1 = a + (n + 1) /\ a + (n + 1) \in 1 .. Len(h)
          /\ a + n \in 0 .. Len(h) /\ a \in 0 .. Len(h) /\ a + (n + 1) \in 0 .. Len(h)
      BY <1>0, <2>1
    <3>2. IsPrefix(f[a], f[a + n])
      BY <3>1
    <3>3. f[a + (n + 1)] = f[a + n] \/ f[a + (n + 1)] = Append(f[a + n], h[a + (n + 1)])
      BY <3>1 DEF Follows
    <3>4. IsPrefix(f[a + n], f[a + (n + 1)])
      BY <1>0, <3>1, <3>3, PrefixSelf, PrefixAppend
    <3>5. IsPrefix(f[a], f[a + (n + 1)])
      BY <1>0, <3>1, <3>2, <3>4, PrefixTrans
    <3> QED
      BY <3>1, <3>5
  <2>2. CASE ~(a + (n + 1) <= Len(h))
    BY <2>2
  <2> QED
    BY <2>1, <2>2
<1>3. T = Nat
  <2>1. T \in SUBSET Nat
    OBVIOUS
  <2> HIDE DEF T
  <2> QED
    BY <1>1, <1>2, <2>1, SetInduction
<1> QED
  BY <1>3

LEMMA TalkType ==
  ASSUME NEW h \in History
  PROVE  Talk(h) \in History
<1>1. Len(h) \in 0 .. Len(h)
  BY DEF History
<1> QED
  BY <1>1, TalkFollows, FollowsType

\* A history that another one begins with, message by message.
LEMMA TalkPrefix ==
  ASSUME NEW h \in History, NEW h2 \in History, Len(h) <= Len(h2),
         \A i \in 1 .. Len(h) : h[i] = h2[i]
  PROVE  IsPrefix(Talk(h), Talk(h2))
<1>1. Len(h) \in Nat /\ Len(h2) \in Nat
  BY DEF History
<1>2. PICK f : Follows(f, h, Len(h)) /\ Talk(h) = f[Len(h)]
  BY TalkFollows
<1>3. PICK g : Follows(g, h2, Len(h2)) /\ Talk(h2) = g[Len(h2)]
  BY TalkFollows
<1>4. f[0 + Len(h)] = g[0 + Len(h)]
  <2>1. 0 + Len(h) <= Len(h) /\ 0 + Len(h) <= Len(h2) /\ 0 \in Nat
    BY <1>1
  <2>2. f[0] = g[0]
    BY <1>2, <1>3 DEF Follows
  <2>3. Alike(f, h, Len(h), g, h2, Len(h2), 0, 0, Len(h))
    BY <1>1, <1>2, <1>3, <2>1, <2>2 DEF Alike
  <2> QED
    BY <2>3, FollowsShift
<1>5. IsPrefix(g[Len(h)], g[Len(h) + (Len(h2) - Len(h))])
  <2>1. Len(h2) - Len(h) \in Nat /\ Len(h) + (Len(h2) - Len(h)) <= Len(h2)
    BY <1>1
  <2> QED
    BY <1>1, <1>3, <2>1, FollowsGrows
<1>6. 0 + Len(h) = Len(h) /\ Len(h) + (Len(h2) - Len(h)) = Len(h2)
  BY <1>1
<1> QED
  BY <1>2, <1>3, <1>4, <1>5, <1>6

\* insert_stable_system_context does not change what was said.
LEMMA TalkInsert ==
  ASSUME NEW h \in History
  PROVE  Talk(InsertSystem(h)) = Talk(h)
<1>1. PICK p \in 0 .. Len(h) :
        /\ \A i \in 1 .. p : h[i].role = "system"
        /\ InsertSystem(h) \in History /\ Len(InsertSystem(h)) = Len(h) + 1
        /\ \A i \in 1 .. p : InsertSystem(h)[i] = h[i]
        /\ InsertSystem(h)[p + 1] = System
        /\ \A i \in (p + 1) .. Len(h) : InsertSystem(h)[i + 1] = h[i]
  BY Inserted
<1>2. PICK h2 \in History : h2 = InsertSystem(h)
  BY <1>1
<1>3. Len(h) \in Nat /\ p \in Nat /\ p <= Len(h)
  BY DEF History
<1>4. PICK f : Follows(f, h, Len(h)) /\ Talk(h) = f[Len(h)]
  BY TalkFollows
<1>5. PICK g : Follows(g, h2, Len(h) + 1) /\ Talk(h2) = g[Len(h) + 1]
  BY <1>1, <1>2, TalkFollows
<1>6. f[p] = << >>
  BY <1>1, <1>3, <1>4, FollowsLeading
<1>7. g[p + 1] = << >>
  <2>1. \A i \in 1 .. (p + 1) : h2[i].role = "system"
    <3>1. System.role = "system"
      BY DEF System, Message
    <3>2. \A i \in 1 .. (p + 1) : i \in 1 .. p \/ i = p + 1
      BY <1>3
    <3> QED
      BY <1>1, <1>2, <3>1, <3>2
  <2>2. p + 1 \in Nat /\ p + 1 <= Len(h) + 1 /\ Len(h) + 1 \in Nat
    BY <1>3
  <2> QED
    BY <1>5, <2>1, <2>2, FollowsLeading
<1>8. f[p + (Len(h) - p)] = g[(p + 1) + (Len(h) - p)]
  <2> DEFINE k == Len(h) - p
  <2>1. k \in Nat /\ p + k <= Len(h) /\ (p + 1) + k <= Len(h) + 1 /\ p + 1 \in Nat /\ Len(h) + 1 \in Nat
    BY <1>3
  <2>2. \A i \in 1 .. k : p + i \in (p + 1) .. Len(h) /\ (p + i) + 1 = (p + 1) + i
    BY <1>3
  <2>3. \A i \in 1 .. k : h[p + i] = h2[(p + 1) + i]
    BY <1>1, <1>2, <2>2
  <2> HIDE DEF k
  <2>4. Alike(f, h, Len(h), g, h2, Len(h) + 1, p, p + 1, k)
    BY <1>3, <1>4, <1>5, <1>6, <1>7, <2>1, <2>3 DEF Alike
  <2>5. f[p + k] = g[(p + 1) + k]
    BY <2>4, FollowsShift
  <2> QED
    BY <2>5 DEF k
<1>9. p + (Len(h) - p) = Len(h) /\ (p + 1) + (Len(h) - p) = Len(h) + 1
  BY <1>3
<1> QED
  BY <1>2, <1>4, <1>5, <1>8, <1>9

-----------------------------------------------------------------------------
(* What a step of the agent loop does to the messages of the run.          *)

\* The results of the batch.
BatchResults == [i \in DOMAIN run.calls |-> ToolResult(run.calls[i], run.outcomes[i])]

LEMMA AgentHistory ==
  ASSUME RunOK, PermOK, AgentAssumption, AgentAction
  PROVE  \/ /\ run'.messages = run.messages
            /\ run'.at \in Batch => run.at \in Batch /\ run'.calls = run.calls
         \/ /\ run.at \in Batch /\ run'.calls = run.calls
            /\ run'.messages = InsertSystem(run.messages)
         \/ \E calls \in Seq(CallRecord) :
              /\ run'.messages = Append(run.messages, Assistant(run.text, calls))
              /\ run'.at \in Batch => run'.calls = calls
         \/ /\ run.at \in Batch /\ run'.at \notin Batch
            /\ Len(run.outcomes) = Len(run.calls)
            /\ run'.messages = run.messages \o BatchResults
<1>0. run \in RunRecord
  BY DEF RunOK
<1>1. ASSUME NEW reason, run' = Stopped(reason)
      PROVE  run'.messages = run.messages /\ run'.at \notin Batch
  BY <1>0, <1>1 DEF Stopped, RunRecord, Batch, Admission
<1>2. CASE LoopTop \/ Delta \/ GatewayCancelled \/ GatewayFails \/ SelectFails \/ ReviewFails
  <2>1. GatewayCancelled \/ GatewayFails \/ SelectFails \/ ReviewFails =>
          run'.messages = run.messages /\ run'.at \notin Batch
    BY <1>1 DEF GatewayCancelled, GatewayFails, SelectFails, ReviewFails
  <2>2. LoopTop => run'.messages = run.messages /\ run'.at \notin Batch
    <3>1. CASE LoopTop /\ (run.step = MaxSteps \/ flag)
      BY <1>1, <3>1 DEF LoopTop
    <3>2. CASE LoopTop /\ run.step # MaxSteps /\ ~flag
      <4>1. PICK n, t : run' = [run EXCEPT !.at = "model", !.step = n, !.text = t]
        BY <3>2, Zenon DEF LoopTop
      <4> QED
        BY <1>0, <4>1 DEF RunRecord, Batch, Admission
    <3> QED
      BY <3>1, <3>2
  <2>3. Delta => run'.messages = run.messages /\ run'.at \notin Batch
    <3> SUFFICES ASSUME Delta
                 PROVE  run'.messages = run.messages /\ run'.at \notin Batch
      OBVIOUS
    <3>1. PICK t, p, v : run' = [run EXCEPT !.text = t, !.partial = p, !.visible = v]
      BY Zenon DEF Delta
    <3>2. run.at = "model"
      BY DEF Delta
    <3> QED
      BY <1>0, <3>1, <3>2 DEF RunRecord, Batch, Admission
  <2> QED
    BY <1>2, <2>1, <2>2, <2>3
<1>3. CASE Respond
  <2>1. PICK calls \in Batches :
          LET answered == [run EXCEPT !.messages = Append(@, Assistant(run.text, calls))]
          IN  run' = IF flag THEN [answered EXCEPT !.at = "stop", !.stop = "cancelled"]
                     ELSE IF calls = << >> THEN [answered EXCEPT !.at = "stop", !.stop = "complete"]
                     ELSE [answered EXCEPT !.at = "select", !.calls = calls]
    BY <1>3 DEF Respond
  <2>2. PICK new : /\ new = Append(run.messages, Assistant(run.text, calls))
                   /\ LET answered == [run EXCEPT !.messages = new]
                      IN  \/ run' = [answered EXCEPT !.at = "stop", !.stop = "cancelled"]
                          \/ run' = [answered EXCEPT !.at = "stop", !.stop = "complete"]
                          \/ run' = [answered EXCEPT !.at = "select", !.calls = calls]
    BY <2>1, Zenon
  <2>3. run'.messages = new /\ (run'.at \in Batch => run'.calls = calls)
    BY <1>0, <2>2 DEF RunRecord, Batch, Admission
  <2>4. calls \in Seq(CallRecord)
    BY AgentAssumption
  <2> QED
    BY <2>2, <2>3, <2>4
<1>4. CASE SelectContext
  <2>1. PICK d, new : /\ run.at = "select" /\ new = InsertSystem(run.messages)
                      /\ \/ run' = [run EXCEPT !.at = "call", !.messages = new, !.delayed = d]
                         \/ run' = [run EXCEPT !.at = "call", !.delayed = d]
    BY <1>4, Zenon DEF SelectContext
  <2>2. run.at \in Batch /\ run'.calls = run.calls /\ run'.messages \in {new, run.messages}
    BY <1>0, <2>1 DEF RunRecord, Batch
  <2> QED
    BY <2>1, <2>2
<1>5. CASE CollectResults
  <2>1. PICK new, e : /\ new = run.messages \o BatchResults
                      /\ run' = [run EXCEPT !.at = "loop", !.calls = e, !.outcomes = e, !.delayed = {},
                                            !.messages = new]
    BY <1>5, Zenon DEF CollectResults, BatchResults
  <2>2. run'.messages = new /\ run'.at = "loop" /\ run.at = "call"
    BY <1>0, <1>5, <2>1 DEF CollectResults, RunRecord
  <2>3. Len(run.outcomes) = Len(run.calls)
    BY <1>5, RunTypes DEF CollectResults, RunOK, Index
  <2> QED
    BY <2>1, <2>2, <2>3 DEF Batch, Admission
<1>6. CASE CancelRest \/ Defer \/ BeginGroup
  <2>1. run.at = "call"
    BY <1>6 DEF CancelRest, Defer, BeginGroup
  <2>2. PICK o, a, p, g : \/ run' = [run EXCEPT !.outcomes = o]
                          \/ run' = [run EXCEPT !.outcomes = o, !.partial = p]
                          \/ run' = [run EXCEPT !.at = "admit", !.admitted = a, !.partial = p, !.group = g]
    <3>1. CancelRest => \E o : run' = [run EXCEPT !.outcomes = o]
      BY Zenon DEF CancelRest
    <3>2. Defer => \E o, p : run' = [run EXCEPT !.outcomes = o, !.partial = p]
      BY Zenon DEF Defer
    <3>3. BeginGroup => \E a, p, g : run' = [run EXCEPT !.at = "admit", !.admitted = a, !.partial = p,
                                                        !.group = g]
      BY Zenon DEF BeginGroup
    <3> QED
      BY <1>6, <3>1, <3>2, <3>3, Zenon
  <2> QED
    BY <1>0, <2>1, <2>2 DEF RunRecord, Batch
<1>7. ASSUME NEW verdict, run' = Admitted(verdict)
      PROVE  run'.messages = run.messages /\ run'.calls = run.calls
  <2>1. PICK p, a : run' = [run EXCEPT !.at = p, !.admitted = a]
    BY <1>7, Zenon DEF Admitted
  <2> QED
    BY <1>0, <2>1 DEF RunRecord
<1>8. CASE Admit
  <2>1. /\ run.at = "admit"
        /\ \/ \E verdict : run' = Admitted(verdict)
           \/ run' = [run EXCEPT !.at = "review", !.reviewer = "user"]
           \/ run' = [run EXCEPT !.at = "review", !.reviewer = "model"]
    <3>1. Decide(perm.mode, perm.grants, Candidate) \in {"allow", "ask", "deny", "review"}
      BY <1>8, CandidateType, DecideType DEF Admit, PermOK
    <3> QED
      BY <1>8, <3>1 DEF Admit
  <2>2. run'.messages = run.messages /\ run'.calls = run.calls
    BY <1>0, <1>7, <2>1 DEF RunRecord
  <2> QED
    BY <2>1, <2>2 DEF Batch, Admission
<1>9. CASE ModelReviews \/ \E answer : Reviewed(answer)
  <2>1. PICK answer : Reviewed(answer)
    BY <1>9 DEF ModelReviews
  <2>2. run.at = "review" /\ \E verdict : run' = Admitted(verdict)
    BY <2>1 DEF Reviewed
  <2> QED
    BY <1>7, <2>2 DEF Batch, Admission
<1>10. CASE StartTools \/ FinishTools
  <2>1. run.at \in {"start", "execute"}
    BY <1>10 DEF StartTools, FinishTools
  <2>2. PICK n, o : \/ run' = [run EXCEPT !.at = "execute", !.ran = n]
                    \/ run' = [run EXCEPT !.at = "call", !.outcomes = o]
    <3>1. FinishTools => \E o : run' = [run EXCEPT !.at = "call", !.outcomes = o]
      BY Zenon DEF FinishTools
    <3>2. StartTools => \E n, o : \/ run' = [run EXCEPT !.at = "execute", !.ran = n]
                                  \/ run' = [run EXCEPT !.at = "call", !.outcomes = o]
      BY Zenon DEF StartTools
    <3> QED
      BY <1>10, <3>1, <3>2, Zenon
  <2> QED
    BY <1>0, <2>1, <2>2 DEF RunRecord, Batch, Admission
<1> QED
  BY <1>2, <1>3, <1>4, <1>5, <1>6, <1>8, <1>9, <1>10 DEF AgentAction, Progress, Provided

LEMMA BatchResultsType ==
  ASSUME RunOK, Len(run.outcomes) = Len(run.calls)
  PROVE  BatchResults \in History /\ Len(BatchResults) = Len(run.calls)
<1>1. DOMAIN run.calls = 1 .. Len(run.calls) /\ Len(run.calls) \in Nat
  BY RunTypes
<1>2. ASSUME NEW i \in 1 .. Len(run.calls)
      PROVE  ToolResult(run.calls[i], run.outcomes[i]) \in MessageRecord
  <2>1. run.calls[i] \in CallRecord /\ run.outcomes[i] \in Results
    BY RunTypes
  <2> QED
    BY <2>1 DEF ToolResult, Message, MessageRecord
<1>3. BatchResults \in [1 .. Len(run.calls) -> MessageRecord]
  BY <1>1, <1>2 DEF BatchResults
<1> QED
  BY <1>1, <1>3, FunctionIsSeq DEF History

\* A step of the loop only adds to what was said.
LEMMA AgentTalk ==
  ASSUME RunOK, PermOK, AgentAssumption, AgentAction
  PROVE  IsPrefix(Talk(run.messages), Talk(run'.messages))
<1>0. run.messages \in History /\ run'.messages \in History
  <2>1. RunOK'
    BY AgentRunOK DEF PermOK
  <2> QED
    BY <2>1, RunTypes DEF RunOK, RunRecord
<1>1. CASE run'.messages = run.messages \/ run'.messages = InsertSystem(run.messages)
  <2>1. Talk(run'.messages) = Talk(run.messages) /\ Talk(run.messages) \in Seq(MessageRecord)
    BY <1>0, <1>1, TalkInsert, TalkType DEF History
  <2> QED
    BY <2>1, PrefixSelf
<1>2. CASE \E e : run'.messages = Append(run.messages, e)
  <2>1. PICK e : run'.messages = Append(run.messages, e)
    BY <1>2
  <2>2. /\ Len(run'.messages) = Len(run.messages) + 1 /\ Len(run.messages) \in Nat
        /\ \A i \in 1 .. Len(run.messages) : run.messages[i] = run'.messages[i]
    BY <1>0, <2>1 DEF History
  <2>3. Len(run.messages) <= Len(run'.messages)
    BY <2>2
  <2> QED
    BY <1>0, <2>2, <2>3, TalkPrefix
<1>3. CASE run'.messages = run.messages \o BatchResults /\ Len(run.outcomes) = Len(run.calls)
  <2>1. BatchResults \in Seq(MessageRecord)
    BY <1>3, BatchResultsType DEF History
  <2> DEFINE h == run.messages
             r == BatchResults
  <2> HIDE DEF r
  <2>2. h \in Seq(MessageRecord) /\ r \in Seq(MessageRecord)
    BY <1>0, <2>1 DEF r, History
  <2>3. /\ Len(h \o r) = Len(h) + Len(r) /\ Len(h) \in Nat /\ Len(r) \in Nat
        /\ \A i \in 1 .. Len(h) : (h \o r)[i] = h[i]
    BY <2>2, ConcatProperties
  <2>4. Len(h) <= Len(h \o r) /\ h \o r = run'.messages
    BY <1>3, <2>3 DEF r
  <2> QED
    BY <1>0, <2>3, <2>4, TalkPrefix
<1> QED
  BY <1>1, <1>2, <1>3, AgentHistory

-----------------------------------------------------------------------------
(* HistoriesNest.                                                          *)

\* A step that touches neither the histories nor the run.
LEMMA NestSame ==
  ASSUME NestOK, UNCHANGED <<run, disk, session, stored>>
  PROVE  NestOK'
BY DEF NestOK, Running

LEMMA NestAgent ==
  ASSUME TypesOK, NestOK, AgentAssumption, AgentAction, UNCHANGED <<disk, session, stored>>
  PROVE  NestOK'
<1>1. RunOK /\ PermOK /\ DataOK
  BY DEF TypesOK
<1>2. Running /\ Running'
  BY <1>1, AgentMoves DEF DataOK
<1>3. disk = session /\ IsPrefix(Talk(session.history), Talk(run.messages))
  BY <1>2 DEF NestOK
<1>4. IsPrefix(Talk(run.messages), Talk(run'.messages))
  BY <1>1, AgentTalk
<1>5. /\ Talk(session.history) \in Seq(MessageRecord)
      /\ Talk(run.messages) \in Seq(MessageRecord) /\ Talk(run'.messages) \in Seq(MessageRecord)
  <2>1. RunOK'
    BY <1>1, AgentRunOK DEF PermOK
  <2>2. run'.messages \in History
    BY <2>1 DEF RunOK, RunRecord
  <2> QED
    BY <1>1, <2>2, SessionTypes, RunTypes, TalkType DEF History
<1>6. IsPrefix(Talk(session.history), Talk(run'.messages))
  BY <1>3, <1>4, <1>5, PrefixTrans
<1> QED
  BY <1>2, <1>3, <1>6 DEF NestOK

\* An answer that is kept comes last.
LEMMA UncommittedTalk ==
  ASSUME RunOK, NEW h \in History
  PROVE  IsPrefix(Talk(h), Talk(AppendUncommitted(h)))
<1> DEFINE t == AppendUncommitted(h)
<1>1. t \in History
  BY UncommittedType
<1>2. t = h \/ \E e : t = Append(h, e)
  BY DEF AppendUncommitted
<1> HIDE DEF t
<1>3. Len(h) <= Len(t) /\ \A i \in 1 .. Len(h) : h[i] = t[i]
  BY <1>1, <1>2 DEF History
<1>4. IsPrefix(Talk(h), Talk(t))
  BY <1>1, <1>3, TalkPrefix
<1> QED
  BY <1>4 DEF t

LEMMA NestStep ==
  ASSUME TypesOK, NestOK, AgentAssumption, RuntimeAssumption, [Next]_vars
  PROVE  NestOK'
<1>0. RunOK /\ PermOK /\ DataOK /\ LockOK /\ HandlerOK /\ run \in RunRecord
  BY DEF TypesOK, RunOK
<1>1. \A h \in History : IsPrefix(Talk(h), Talk(h))
  BY TalkType, PrefixSelf DEF History
<1>2. session.history \in History /\ disk.history \in History /\ run.messages \in History
  BY <1>0, SessionTypes, RunTypes
<1>3. CASE UNCHANGED vars \/ Client
  BY <1>3, NestSame DEF Client, SendPrompt, SendRequest, SendAnswer, Send, vars, agent, slot
<1>4. CASE Handlers
  <2>1. CASE HandlePrompt \/ HandleCancel \/ HandleSetMode \/ HandleConfig \/ HandleClose
               \/ LoadBuilt \/ LoadFails \/ HandlerLocks \/ ConfigModelLocks \/ ConfigModelFails
    BY <2>1, NestSame DEF HandlePrompt, HandleCancel, HandleSetMode, HandleConfig, HandleClose,
       LoadBuilt, LoadFails, HandlerLocks, ConfigModelLocks, ConfigModelFails, Dispatch, agent, slot
  <2>2. CASE HandleAnswer
    <3>1. AgentAction /\ UNCHANGED <<disk, session, stored>>
      BY <2>2 DEF HandleAnswer, AgentAction, Dispatch, slot
    <3> QED
      BY <3>1, NestAgent
  <2>3. CASE HandleLoad
    <3>1. CASE UNCHANGED session
      BY <2>3, <3>1, NestSame DEF HandleLoad, Dispatch, agent
    <3>2. CASE ~active /\ session' = disk
      <4>1. UNCHANGED <<run, disk, stored>> /\ handler = Idle
        BY <2>3, <3>2 DEF HandleLoad, Dispatch, agent
      <4>2. handler.at = "none"
        BY <4>1 DEF Idle
      <4>3. run.at = "none"
        BY <1>0, <3>2, <4>2 DEF LockOK
      <4> QED
        BY <1>1, <1>2, <3>2, <4>1, <4>3 DEF NestOK, Running
    <3> QED
      BY <2>3, <3>1, <3>2 DEF HandleLoad, slot
  <2>4. CASE ConfigModelSaved
    <3>1. session' = handler.persisted /\ disk' = session' /\ run' = run /\ handler.at = "save"
      BY <2>4 DEF ConfigModelSaved, agent
    <3>2. run.at = "none"
      BY <1>0, <3>1 DEF LockOK
    <3>3. session'.history \in History
      <4>1. TypesOK'
        BY NextTypes
      <4> QED
        BY <4>1 DEF TypesOK, DataOK, SessionRecord
    <3> QED
      BY <1>1, <3>1, <3>2, <3>3 DEF NestOK, Running
  <2> QED
    BY <1>4, <2>1, <2>2, <2>3, <2>4 DEF Handlers
<1>5. ASSUME run'.at \in {"none", "gateway", "stage"}, UNCHANGED <<disk, session>>,
             stored' => stored, run.at # "save"
      PROVE  NestOK'
  BY <1>5 DEF NestOK, Running
<1>6. Release => run'.at = "none"
  BY DEF Release, NoRun
<1>7. CASE StartPrompt
  <2>1. UNCHANGED <<disk, session, stored>>
    BY <1>7 DEF StartPrompt
  <2>2. CASE run' = run
    BY <2>1, <2>2, NestSame
  <2>3. CASE run' # run
    <3>1. run' = [NoRun EXCEPT !.at = "gateway"] /\ lock = "free"
      BY <1>7, <2>3 DEF StartPrompt
    <3>2. run'.at = "gateway" /\ run.at = "none"
      BY <1>0, <3>1, NoRunOK DEF LockOK
    <3> QED
      BY <1>5, <2>1, <3>2
  <2> QED
    BY <2>2, <2>3
<1>8. CASE GatewayRefused \/ GatewayReady \/ StageFails
  <2>1. /\ run.at \in {"gateway", "stage"} /\ UNCHANGED <<disk, session, stored>>
    BY <1>8 DEF GatewayRefused, GatewayReady, StageFails, slot
  <2>2. run'.at \in {"none", "stage"}
    BY <1>0, <1>6, <1>8 DEF GatewayRefused, GatewayReady, StageFails, RunRecord
  <2> QED
    BY <1>5, <2>1, <2>2
<1>9. CASE StageSaved
  <2>1. disk' = session' /\ run' = [run EXCEPT !.at = "loop", !.messages = session'.history]
    BY <1>9 DEF StageSaved
  <2>2. run'.messages = session'.history /\ run'.at = "loop"
    BY <1>0, <2>1 DEF RunRecord
  <2>3. session'.history \in History
    <3>1. TypesOK'
      BY NextTypes
    <3> QED
      BY <3>1 DEF TypesOK, DataOK, SessionRecord
  <2> QED
    BY <1>1, <2>1, <2>2, <2>3 DEF NestOK, Running
<1>10. CASE TurnEnds
  <2>1. Running /\ UNCHANGED <<disk, stored>>
    BY <1>10 DEF TurnEnds, Running
  <2>2. disk = session /\ IsPrefix(Talk(session.history), Talk(run.messages))
    BY <2>1 DEF NestOK
  <2>3. CASE Release /\ UNCHANGED session
    BY <1>1, <1>2, <1>6, <2>1, <2>2, <2>3 DEF NestOK, Running
  <2>4. CASE run' = [run EXCEPT !.at = "save"]
             /\ \E h \in {AppendUncommitted(session.history), AppendUncommitted(run.messages),
                          run.messages} : session' = [session EXCEPT !.history = h]
    <3>1. run'.at = "save"
      BY <1>0, <2>4 DEF RunRecord
    <3>2. PICK h \in {AppendUncommitted(session.history), AppendUncommitted(run.messages),
                      run.messages} : session' = [session EXCEPT !.history = h]
      BY <2>4
    <3>3. session'.history = h
      BY <1>0, <3>2 DEF DataOK, SessionRecord
    <3>4. IsPrefix(Talk(session.history), Talk(h))
      <4>1. CASE h = AppendUncommitted(session.history)
        BY <1>0, <1>2, <4>1, UncommittedTalk
      <4>2. CASE h = run.messages
        BY <2>2, <4>2
      <4>3. CASE h = AppendUncommitted(run.messages)
        <5>1. IsPrefix(Talk(run.messages), Talk(h))
          BY <1>0, <1>2, <4>3, UncommittedTalk
        <5>2. /\ Talk(session.history) \in Seq(MessageRecord)
              /\ Talk(run.messages) \in Seq(MessageRecord) /\ Talk(h) \in Seq(MessageRecord)
          <6>1. h \in History
            BY <1>0, <1>2, <4>3, UncommittedType
          <6> QED
            BY <1>2, <6>1, TalkType DEF History
        <5> QED
          BY <2>2, <5>1, <5>2, PrefixTrans
      <4> QED
        BY <4>1, <4>2, <4>3
    <3> QED
      BY <2>1, <2>2, <3>1, <3>3, <3>4 DEF NestOK, Running
  <2> QED
    BY <1>10, <2>3, <2>4 DEF TurnEnds
<1>11. CASE TurnSaved \/ TurnNotSaved
  <2>1. run'.at = "none" /\ UNCHANGED session
    BY <1>6, <1>11 DEF TurnSaved, TurnNotSaved
  <2>2. disk' = session \/ (disk' = disk /\ stored' = FALSE)
    BY <1>11 DEF TurnSaved, TurnNotSaved
  <2> QED
    BY <1>1, <1>2, <2>1, <2>2 DEF NestOK, Running
<1>12. CASE Agent \/ QuestionCloses
  <2>1. AgentAction /\ UNCHANGED <<disk, session, stored>>
    BY <1>12, LoopTypes DEF slot
  <2> QED
    BY <2>1, NestAgent
<1> QED
  BY <1>3, <1>4, <1>7, <1>8, <1>9, <1>10, <1>11, <1>12 DEF Next, Turn

LEMMA NestInit ==
  ASSUME TypesOK, Init
  PROVE  NestOK
<1>1. disk = session /\ run.at = "none"
  BY DEF Init, NoRun
<1>2. Talk(session.history) \in Seq(MessageRecord)
  BY SessionTypes, TalkType DEF TypesOK, History
<1> QED
  BY <1>1, <1>2, PrefixSelf DEF NestOK, Running

\* Three copies of one conversation at different points: whatever fails to be
\* saved and whatever the client does in between, the store is never ahead of
\* the session nor the session of the run, both are level when the last save
\* succeeded, and nobody writes the session behind the back of a running prompt.
THEOREM Nesting == Spec => []HistoriesNest
<1> USE AgentAssumption, RuntimeAssumption
<1>1. Init => TypesOK /\ NestOK
  BY InitTypes, NestInit
<1>2. TypesOK /\ NestOK /\ [Next]_vars => TypesOK' /\ NestOK'
  BY NextTypes, NestStep
<1>3. TypesOK /\ NestOK => HistoriesNest
  <2> SUFFICES ASSUME TypesOK, NestOK
               PROVE  HistoriesNest
    OBVIOUS
  <2>1. lock = "free" => run.at # "save"
    BY DEF TypesOK, LockOK
  <2> QED
    BY <2>1 DEF NestOK, HistoriesNest
<1> QED
  BY <1>1, <1>2, <1>3, PTL DEF Spec

-----------------------------------------------------------------------------
(* CallsAnswered.                                                          *)

\* The results that history h has of the answer at i.
AnsweredBy(h, i, n) ==
  /\ n \in {0, Len(h[i].calls)}
  /\ i + n <= Len(h)
  /\ \A j \in 1 .. n : h[i + j].role = "tool" /\ h[i + j].calls[1] = h[i].calls[j]
  /\ i + n < Len(h) => h[i + n + 1].role # "tool"

LEMMA AnsweredIs ==
  ASSUME NEW h \in History
  PROVE  /\ Answered(h) <=> \A i \in 1 .. Len(h) : h[i].role = "assistant" =>
                              \E n \in Nat : AnsweredBy(h, i, n)
         /\ \A i \in 1 .. Len(h) : Len(h[i].calls) \in Nat
         /\ Len(h) \in Nat /\ DOMAIN h = 1 .. Len(h)
<1>1. \A i \in 1 .. Len(h) : h[i] \in MessageRecord
  BY DEF History
<1>2. \A m \in MessageRecord : Len(m.calls) \in Nat
  BY DEF MessageRecord
<1>3. \A i \in 1 .. Len(h) : Len(h[i].calls) \in Nat
  BY <1>1, <1>2
<1>4. Len(h) \in Nat /\ DOMAIN h = 1 .. Len(h)
  BY DEF History
<1>5. \A i \in 1 .. Len(h) :
        (\E n \in Nat : AnsweredBy(h, i, n)) <=> (\E n \in {0, Len(h[i].calls)} : AnsweredBy(h, i, n))
  BY <1>3 DEF AnsweredBy
<1>6. Answered(h) <=> \A i \in DOMAIN h : h[i].role = "assistant" =>
                         \E n \in {0, Len(h[i].calls)} : AnsweredBy(h, i, n)
  BY Zenon DEF Answered, AnsweredBy
<1> QED
  BY <1>3, <1>4, <1>5, <1>6

\* A message that is no result opens a new place for results.
LEMMA AnsweredAppend ==
  ASSUME NEW h \in History, Answered(h), NEW e \in MessageRecord, e.role # "tool"
  PROVE  Answered(Append(h, e))
<1> DEFINE t == Append(h, e)
<1>1. /\ t \in History /\ Len(t) = Len(h) + 1 /\ Len(h) \in Nat
      /\ \A i \in 1 .. Len(h) : t[i] = h[i]
      /\ t[Len(h) + 1] = e
  BY DEF History
<1> HIDE DEF t
<1>2. ASSUME NEW i \in 1 .. Len(t), t[i].role = "assistant"
      PROVE  \E n \in Nat : AnsweredBy(t, i, n)
  <2>1. CASE i = Len(h) + 1
    <3>1. AnsweredBy(t, i, 0)
      BY <1>1, <2>1 DEF AnsweredBy
    <3> QED
      BY <3>1
  <2>2. CASE i # Len(h) + 1
    <3>1. i \in 1 .. Len(h) /\ t[i] = h[i]
      BY <1>1, <2>2
    <3>2. PICK n \in Nat : AnsweredBy(h, i, n)
      BY <1>2, <3>1, AnsweredIs
    <3>3. i + n <= Len(h) /\ \A j \in 1 .. n : i + j \in 1 .. Len(h)
      BY <3>1, <3>2 DEF AnsweredBy
    <3>4. i + n < Len(t) /\ t[i + n + 1].role # "tool"
      <4>1. CASE i + n < Len(h)
        <5>1. i + n + 1 \in 1 .. Len(h)
          BY <1>1, <3>1, <4>1
        <5> QED
          BY <1>1, <3>1, <3>2, <4>1, <5>1 DEF AnsweredBy
      <4>2. CASE i + n = Len(h)
        BY <1>1, <4>2
      <4> QED
        BY <1>1, <3>1, <3>3, <4>1, <4>2
    <3>5. \A j \in 1 .. n : t[i + j] = h[i + j]
      BY <1>1, <3>3
    <3>6. i + n <= Len(t)
      BY <1>1, <3>1, <3>3
    <3>7. AnsweredBy(t, i, n)
      BY <3>1, <3>2, <3>4, <3>5, <3>6 DEF AnsweredBy
    <3> QED
      BY <3>7
  <2> QED
    BY <2>1, <2>2
<1>3. Answered(t)
  BY <1>1, <1>2, AnsweredIs
<1> QED
  BY <1>3 DEF t

\* insert_stable_system_context stays in front of every answer.
LEMMA AnsweredInsert ==
  ASSUME NEW h \in History, Answered(h)
  PROVE  /\ Answered(InsertSystem(h))
         /\ h # << >> /\ h[Len(h)].role = "assistant" =>
              /\ InsertSystem(h) # << >>
              /\ InsertSystem(h)[Len(InsertSystem(h))] = h[Len(h)]
<1>1. PICK p \in 0 .. Len(h) :
        /\ \A i \in 1 .. p : h[i].role = "system"
        /\ InsertSystem(h) \in History /\ Len(InsertSystem(h)) = Len(h) + 1
        /\ \A i \in 1 .. p : InsertSystem(h)[i] = h[i]
        /\ InsertSystem(h)[p + 1] = System
        /\ \A i \in (p + 1) .. Len(h) : InsertSystem(h)[i + 1] = h[i]
  BY Inserted
<1>2. PICK t \in History : t = InsertSystem(h)
  BY <1>1
<1>3. Len(h) \in Nat /\ Len(t) = Len(h) + 1 /\ p \in Nat /\ p <= Len(h)
  BY <1>1, <1>2 DEF History
<1>4. ASSUME NEW i \in 1 .. Len(t), t[i].role = "assistant"
      PROVE  \E n \in Nat : AnsweredBy(t, i, n)
  <2>1. i > p + 1
    <3>1. \A k \in 1 .. (p + 1) : t[k].role = "system"
      <4>1. System.role = "system"
        BY DEF System, Message
      <4>2. \A k \in 1 .. (p + 1) : k \in 1 .. p \/ k = p + 1
        BY <1>3
      <4> QED
        BY <1>1, <1>2, <4>1, <4>2
    <3> QED
      BY <1>3, <1>4, <3>1
  <2> DEFINE k == i - 1
  <2>2. k \in Nat /\ k \in (p + 1) .. Len(h) /\ k \in 1 .. Len(h) /\ k + 1 = i
    BY <1>3, <2>1
  <2> HIDE DEF k
  <2>3. \A m \in (p + 1) .. Len(h) : t[m + 1] = h[m]
    BY <1>1, <1>2
  <2>4. t[i] = h[k]
    BY <2>2, <2>3
  <2>5. PICK n \in Nat : AnsweredBy(h, k, n)
    BY <1>4, <2>2, <2>4, AnsweredIs
  <2>6. ASSUME NEW j \in 1 .. n
        PROVE  t[i + j] = h[k + j]
    <3>1. k + j \in (p + 1) .. Len(h) /\ (k + j) + 1 = i + j
      BY <1>3, <2>2, <2>5 DEF AnsweredBy
    <3> QED
      BY <2>3, <3>1
  <2>7. i + n < Len(t) => t[i + n + 1].role # "tool"
    <3> SUFFICES ASSUME i + n < Len(t)
                 PROVE  t[i + n + 1].role # "tool"
      OBVIOUS
    <3>1. k + n < Len(h) /\ k + n + 1 \in (p + 1) .. Len(h) /\ (k + n + 1) + 1 = i + n + 1
      BY <1>3, <2>2
    <3>2. t[i + n + 1] = h[k + n + 1]
      BY <2>3, <3>1
    <3> QED
      BY <2>5, <3>1, <3>2 DEF AnsweredBy
  <2>8. i + n <= Len(t)
    BY <1>3, <2>2, <2>5 DEF AnsweredBy
  <2>9. AnsweredBy(t, i, n)
    BY <2>4, <2>5, <2>6, <2>7, <2>8 DEF AnsweredBy
  <2> QED
    BY <2>9
<1>5. Answered(t)
  BY <1>4, AnsweredIs
<1>6. ASSUME h # << >>, h[Len(h)].role = "assistant"
      PROVE  t # << >> /\ t[Len(t)] = h[Len(h)]
  <2>1. Len(h) # 0 /\ Len(h) \in 1 .. Len(h)
    BY <1>3, <1>6 DEF History
  <2>2. Len(h) \notin 1 .. p
    BY <1>1, <1>6
  <2>3. Len(h) \in (p + 1) .. Len(h)
    BY <1>3, <2>1, <2>2
  <2>4. t[Len(h) + 1] = h[Len(h)]
    BY <1>1, <1>2, <2>3
  <2>5. t # << >>
    BY <1>3
  <2> QED
    BY <1>3, <2>4, <2>5
<1> QED
  BY <1>2, <1>5, <1>6

\* A batch that ends has a result per call, in order.
LEMMA AnsweredResults ==
  ASSUME RunOK, Answered(run.messages), Len(run.outcomes) = Len(run.calls),
         run.messages # << >>, run.messages[Len(run.messages)].role = "assistant",
         run.messages[Len(run.messages)].calls = run.calls
  PROVE  Answered(run.messages \o BatchResults)
<1> DEFINE h == run.messages
           r == BatchResults
           t == h \o r
<1>1. /\ h \in History /\ r \in History /\ Len(r) = Len(run.calls)
      /\ \A i \in 1 .. Len(r) : r[i].role = "tool" /\ r[i].calls[1] = run.calls[i]
  <2>1. r \in History /\ Len(r) = Len(run.calls)
    BY BatchResultsType
  <2>2. \A i \in 1 .. Len(run.calls) : r[i] = ToolResult(run.calls[i], run.outcomes[i])
    BY RunTypes DEF BatchResults
  <2>3. \A c, o : ToolResult(c, o).role = "tool" /\ ToolResult(c, o).calls[1] = c
    BY DEF ToolResult, Message
  <2> HIDE DEF r
  <2> QED
    BY <2>1, <2>2, <2>3, RunTypes
<1> HIDE DEF r
<1>2. /\ t \in History /\ Len(t) = Len(h) + Len(r) /\ Len(h) \in Nat /\ Len(r) \in Nat
      /\ \A i \in 1 .. Len(h) : t[i] = h[i]
      /\ \A j \in 1 .. Len(r) : t[Len(h) + j] = r[j]
  <2>1. h \in Seq(MessageRecord) /\ r \in Seq(MessageRecord)
    BY <1>1 DEF History
  <2>2. /\ t \in Seq(MessageRecord) /\ Len(t) = Len(h) + Len(r) /\ Len(h) \in Nat /\ Len(r) \in Nat
        /\ \A i \in 1 .. (Len(h) + Len(r)) : t[i] = IF i <= Len(h) THEN h[i] ELSE r[i - Len(h)]
    BY <2>1, ConcatProperties
  <2>3. \A i \in 1 .. Len(h) : t[i] = h[i]
    BY <2>2
  <2>4. \A j \in 1 .. Len(r) : /\ Len(h) + j \in 1 .. (Len(h) + Len(r)) /\ ~(Len(h) + j <= Len(h))
                               /\ (Len(h) + j) - Len(h) = j
    BY <2>2
  <2>5. \A j \in 1 .. Len(r) : t[Len(h) + j] = r[j]
    BY <2>2, <2>4
  <2> QED
    BY <2>2, <2>3, <2>5 DEF History
<1> HIDE DEF t
<1>3. ASSUME NEW i \in 1 .. Len(t), t[i].role = "assistant"
      PROVE  \E n \in Nat : AnsweredBy(t, i, n)
  <2>1. i \in 1 .. Len(h)
    <3>1. CASE i > Len(h)
      <4>1. i - Len(h) \in 1 .. Len(r) /\ Len(h) + (i - Len(h)) = i
        BY <1>2, <3>1
      <4>2. t[i] = r[i - Len(h)]
        BY <1>2, <4>1
      <4> QED
        BY <1>1, <1>3, <4>1, <4>2
    <3> QED
      BY <1>2, <3>1
  <2>2. t[i] = h[i]
    BY <1>2, <2>1
  <2>3. CASE i = Len(h)
    <3>1. t[i].calls = run.calls
      BY <2>2, <2>3
    <3> HIDE DEF h
    <3>2. \A j \in 1 .. Len(r) : t[i + j] = r[j]
      BY <1>2, <2>3
    <3>3. \A j \in 1 .. Len(r) : t[i + j].role = "tool" /\ t[i + j].calls[1] = t[i].calls[j]
      BY <1>1, <3>1, <3>2
    <3>4. i + Len(r) = Len(t) /\ Len(t) \in Nat
      BY <1>2, <2>3
    <3>5. Len(r) = Len(t[i].calls)
      BY <1>1, <3>1
    <3>6. Len(r) \in {0, Len(t[i].calls)} /\ i + Len(r) <= Len(t) /\ ~(i + Len(r) < Len(t))
      BY <3>4, <3>5
    <3>7. AnsweredBy(t, i, Len(r))
      BY <3>3, <3>6, Zenon DEF AnsweredBy
    <3> QED
      BY <1>2, <3>7
  <2>4. CASE i < Len(h)
    <3>1. PICK n \in Nat : AnsweredBy(h, i, n)
      BY <1>1, <1>3, <2>1, <2>2, AnsweredIs
    <3>2. i + n < Len(h)
      <4>1. CASE n = 0
        BY <2>4, <4>1, <1>2, <2>1
      <4>2. CASE n # 0 /\ i + n = Len(h)
        <5>1. n \in 1 .. n
          BY <4>2
        <5>2. h[Len(h)].role = "tool"
          BY <3>1, <4>2, <5>1 DEF AnsweredBy
        <5> QED
          BY <5>2
      <4>3. i + n <= Len(h)
        BY <3>1, Zenon DEF AnsweredBy
      <4>4. i + n # Len(h)
        <5>1. CASE n = 0
          BY <1>2, <2>1, <4>1, <5>1
        <5> QED
          BY <4>2, <5>1
      <4> QED
        BY <1>2, <2>1, <4>3, <4>4
    <3>3. i + n + 1 \in 1 .. Len(h) /\ \A j \in 1 .. n : i + j \in 1 .. Len(h)
      BY <1>2, <2>1, <3>2
    <3>4. t[i + n + 1] = h[i + n + 1] /\ \A j \in 1 .. n : t[i + j] = h[i + j]
      BY <1>2, <3>3
    <3>5. i + n <= Len(t)
      BY <1>2, <3>2
    <3>6. h[i + n + 1].role # "tool"
      BY <3>1, <3>2 DEF AnsweredBy
    <3>7. AnsweredBy(t, i, n)
      BY <2>2, <3>1, <3>4, <3>5, <3>6 DEF AnsweredBy
    <3> QED
      BY <3>7
  <2> QED
    BY <1>2, <2>1, <2>3, <2>4
<1>4. Answered(t)
  BY <1>2, <1>3, AnsweredIs
<1> QED
  BY <1>4 DEF t, r

LEMMA AnsweredUncommitted ==
  ASSUME RunOK, NEW h \in History, Answered(h)
  PROVE  Answered(AppendUncommitted(h))
<1>1. /\ Assistant(run.partial, << >>) \in MessageRecord
      /\ Assistant(run.partial, << >>).role # "tool"
  BY RunTypes, Empties DEF Assistant, Message, MessageRecord
<1>2. Answered(Append(h, Assistant(run.partial, << >>)))
  BY <1>1, AnsweredAppend
<1> QED
  BY <1>2 DEF AppendUncommitted

LEMMA AnswersSame ==
  ASSUME AnswersOK, UNCHANGED run,
         session'.history \in {session.history, disk.history},
         disk'.history \in {session.history, disk.history}
  PROVE  AnswersOK'
BY DEF AnswersOK

LEMMA AnswersAgent ==
  ASSUME TypesOK, AnswersOK, AgentAssumption, AgentAction, UNCHANGED <<disk, session>>
  PROVE  AnswersOK'
<1>0. RunOK /\ PermOK /\ run.messages \in History /\ Answered(run.messages)
  BY RunTypes DEF TypesOK, AnswersOK
<1>1. SUFFICES /\ Answered(run'.messages)
               /\ run'.at \in Batch =>
                    /\ run'.messages # << >>
                    /\ run'.messages[Len(run'.messages)].role = "assistant"
                    /\ run'.messages[Len(run'.messages)].calls = run'.calls
  BY DEF AnswersOK
<1>2. CASE /\ run'.messages = run.messages
           /\ run'.at \in Batch => run.at \in Batch /\ run'.calls = run.calls
  BY <1>2 DEF AnswersOK
<1>3. CASE /\ run.at \in Batch /\ run'.calls = run.calls
           /\ run'.messages = InsertSystem(run.messages)
  BY <1>0, <1>3, AnsweredInsert DEF AnswersOK
<1>4. ASSUME NEW calls \in Seq(CallRecord),
             run'.messages = Append(run.messages, Assistant(run.text, calls)),
             run'.at \in Batch => run'.calls = calls
      PROVE  /\ Answered(run'.messages)
             /\ run'.at \in Batch =>
                  /\ run'.messages # << >>
                  /\ run'.messages[Len(run'.messages)].role = "assistant"
                  /\ run'.messages[Len(run'.messages)].calls = run'.calls
  <2> DEFINE e == Assistant(run.text, calls)
  <2>1. e \in MessageRecord /\ e.role = "assistant" /\ e.calls = calls
    BY <1>0, RunTypes DEF Assistant, Message, MessageRecord
  <2> HIDE DEF e
  <2>2. /\ Len(Append(run.messages, e)) = Len(run.messages) + 1
        /\ Append(run.messages, e)[Len(run.messages) + 1] = e
        /\ Append(run.messages, e) # << >>
    BY <1>0, <2>1 DEF History
  <2>3. Answered(Append(run.messages, e))
    BY <1>0, <2>1, AnsweredAppend
  <2>4. run'.messages = Append(run.messages, e)
    BY <1>4 DEF e
  <2> QED
    BY <1>4, <2>1, <2>2, <2>3, <2>4
<1>5. CASE /\ run.at \in Batch /\ run'.at \notin Batch
           /\ Len(run.outcomes) = Len(run.calls)
           /\ run'.messages = run.messages \o BatchResults
  BY <1>0, <1>5, AnsweredResults DEF AnswersOK
<1> QED
  BY <1>0, <1>2, <1>3, <1>4, <1>5, AgentHistory

LEMMA EmptyAnswered == Answered(<< >>)
BY DEF Answered

LEMMA AnswersStep ==
  ASSUME TypesOK, AnswersOK, AgentAssumption, RuntimeAssumption, [Next]_vars
  PROVE  AnswersOK'
<1>0. RunOK /\ DataOK /\ LockOK /\ HandlerOK /\ run \in RunRecord
  BY DEF TypesOK, RunOK
<1>1. session.history \in History /\ disk.history \in History /\ run.messages \in History
  BY <1>0, SessionTypes, RunTypes
<1>2. CASE UNCHANGED vars \/ Client
  BY <1>2, AnswersSame DEF Client, SendPrompt, SendRequest, SendAnswer, Send, vars, agent, slot
<1>3. CASE Handlers
  <2>1. CASE HandlePrompt \/ HandleCancel \/ HandleSetMode \/ HandleConfig \/ HandleClose
               \/ LoadBuilt \/ LoadFails \/ HandlerLocks \/ ConfigModelLocks \/ ConfigModelFails
    BY <2>1, AnswersSame DEF HandlePrompt, HandleCancel, HandleSetMode, HandleConfig, HandleClose,
       LoadBuilt, LoadFails, HandlerLocks, ConfigModelLocks, ConfigModelFails, Dispatch, agent, slot
  <2>2. CASE HandleAnswer
    <3>1. AgentAction /\ UNCHANGED <<disk, session>>
      BY <2>2 DEF HandleAnswer, AgentAction, Dispatch, slot
    <3> QED
      BY <3>1, AnswersAgent
  <2>3. CASE HandleLoad
    <3>1. /\ UNCHANGED <<run, disk>> /\ session' \in {session, disk}
      BY <2>3 DEF HandleLoad, Dispatch, agent, slot
    <3> QED
      BY <3>1, AnswersSame
  <2>4. CASE ConfigModelSaved
    <3>1. /\ session' = handler.persisted /\ disk' = handler.persisted /\ UNCHANGED run
          /\ handler.at = "save"
      BY <2>4 DEF ConfigModelSaved, agent
    <3>2. PICK model \in Models : handler = [kind |-> "config_model", arg |-> model, at |-> "save",
                                             persisted |-> [session EXCEPT !.model = model]]
      BY <1>0, <3>1, HandlerTypes
    <3>3. handler.persisted.history = session.history
      <4>1. PICK saved : saved = [session EXCEPT !.model = model]
        OBVIOUS
      <4>2. saved.history = session.history
        BY <1>0, <4>1 DEF DataOK, SessionRecord
      <4>3. handler = [kind |-> "config_model", arg |-> model, at |-> "save", persisted |-> saved]
        BY <3>2, <4>1
      <4> QED
        BY <4>2, <4>3
    <3> QED
      BY <3>1, <3>3, AnswersSame
  <2> QED
    BY <1>3, <2>1, <2>2, <2>3, <2>4 DEF Handlers
<1>4. Release => run'.at = "none" /\ run'.messages = << >>
  BY DEF Release, NoRun
<1>5. ASSUME run'.at \in {"none", "gateway"}, run'.messages = << >>,
             Answered(disk'.history), Answered(session'.history)
      PROVE  AnswersOK'
  BY <1>5, EmptyAnswered DEF AnswersOK, Batch, Admission
<1>6. Answered(disk.history) /\ Answered(session.history) /\ Answered(run.messages)
  BY DEF AnswersOK
<1>7. CASE StartPrompt
  <2>1. UNCHANGED <<disk, session>>
    BY <1>7 DEF StartPrompt
  <2>2. CASE run' = run
    BY <2>1, <2>2, AnswersSame
  <2>3. CASE run' = [NoRun EXCEPT !.at = "gateway"]
    BY <1>5, <1>6, <2>1, <2>3, NoRunOK
  <2> QED
    BY <1>7, <2>2, <2>3 DEF StartPrompt
<1>8. CASE GatewayRefused \/ StageFails \/ TurnSaved \/ TurnNotSaved
  <2>1. Release /\ UNCHANGED session /\ disk' \in {disk, session}
    BY <1>8 DEF GatewayRefused, StageFails, TurnSaved, TurnNotSaved
  <2> QED
    BY <1>4, <1>5, <1>6, <2>1
<1>9. CASE GatewayReady
  <2>1. run' = [run EXCEPT !.at = "stage"] /\ UNCHANGED <<disk, session>>
    BY <1>9 DEF GatewayReady, slot
  <2>2. run'.at = "stage" /\ run'.messages = run.messages
    BY <1>0, <2>1 DEF RunRecord
  <2> QED
    BY <1>6, <2>1, <2>2 DEF AnswersOK, Batch, Admission
<1>10. CASE StageSaved
  <2> DEFINE prompts == {i \in DOMAIN session.history : session.history[i].role = "user"}
             prompt == User(Cardinality(prompts) + 1)
  <2>1. /\ session' = [session EXCEPT !.history = Append(@, prompt)]
        /\ disk' = session'
        /\ run' = [run EXCEPT !.at = "loop", !.messages = session'.history]
    BY <1>10 DEF StageSaved
  <2>2. prompt \in MessageRecord /\ prompt.role # "tool"
    <3>1. prompt.role = "user"
      BY DEF User, Message
    <3> QED
      BY <1>1, <3>1, PromptType
  <2> HIDE DEF prompt
  <2>3. Answered(Append(session.history, prompt))
    BY <1>1, <1>6, <2>2, AnsweredAppend
  <2>4. session'.history = Append(session.history, prompt)
    BY <1>0, <2>1 DEF DataOK, SessionRecord
  <2>5. run'.at = "loop" /\ run'.messages = session'.history
    BY <1>0, <2>1 DEF RunRecord
  <2> QED
    BY <2>1, <2>3, <2>4, <2>5 DEF AnswersOK, Batch, Admission
<1>11. CASE TurnEnds
  <2>1. UNCHANGED disk
    BY <1>11 DEF TurnEnds
  <2>2. CASE Release /\ UNCHANGED session
    BY <1>4, <1>5, <1>6, <2>1, <2>2
  <2>3. CASE run' = [run EXCEPT !.at = "save"]
             /\ \E h \in {AppendUncommitted(session.history), AppendUncommitted(run.messages),
                          run.messages} : session' = [session EXCEPT !.history = h]
    <3>1. run'.at = "save" /\ run'.messages = run.messages
      BY <1>0, <2>3 DEF RunRecord
    <3>2. PICK h \in {AppendUncommitted(session.history), AppendUncommitted(run.messages),
                      run.messages} : session' = [session EXCEPT !.history = h]
      BY <2>3
    <3>3. session'.history = h
      BY <1>0, <3>2 DEF DataOK, SessionRecord
    <3>4. Answered(h)
      BY <1>0, <1>1, <1>6, <3>2, AnsweredUncommitted
    <3> QED
      BY <1>6, <2>1, <3>1, <3>3, <3>4 DEF AnswersOK, Batch, Admission
  <2> QED
    BY <1>11, <2>2, <2>3 DEF TurnEnds
<1>12. CASE Agent \/ QuestionCloses
  <2>1. AgentAction /\ UNCHANGED <<disk, session>>
    BY <1>12, LoopTypes DEF slot
  <2> QED
    BY <2>1, AnswersAgent
<1> QED
  BY <1>2, <1>3, <1>7, <1>8, <1>9, <1>10, <1>11, <1>12 DEF Next, Turn

LEMMA AnswersInit ==
  ASSUME Init
  PROVE  AnswersOK
<1>1. disk.history = <<System>> /\ session = disk /\ run.messages = << >> /\ run.at = "none"
  BY DEF Init, NoRun
<1>2. System.role = "system"
  BY DEF System, Message
<1>3. Answered(<<System>>)
  BY <1>2 DEF Answered
<1> QED
  BY <1>1, <1>3, EmptyAnswered DEF AnswersOK, Batch, Admission

\* What Answered says of an answer, in the words of CallsAnswered.
LEMMA AnsweredMeans ==
  ASSUME NEW h \in History, Answered(h), NEW i \in 1 .. Len(h), h[i].role = "assistant"
  PROVE  [k \in DOMAIN ResultsAfter(h, i) |-> ResultsAfter(h, i)[k].calls[1]]
           \in {h[i].calls, << >>}
<1>1. PICK n \in Nat : AnsweredBy(h, i, n)
  BY AnsweredIs
<1>2. Len(h) \in Nat /\ i + n <= Len(h) /\ i \in Nat
  BY <1>1, AnsweredIs DEF AnsweredBy
<1> DEFINE after == {m \in 0 .. (Len(h) - i) : \A j \in (i + 1) .. (i + m) : h[j].role = "tool"}
<1>3. n \in after
  <2>1. \A j \in (i + 1) .. (i + n) : j - i \in 1 .. n /\ i + (j - i) = j
    BY <1>2
  <2>2. \A j \in (i + 1) .. (i + n) : h[j].role = "tool"
    <3> SUFFICES ASSUME NEW j \in (i + 1) .. (i + n)
                 PROVE  h[j].role = "tool"
      OBVIOUS
    <3>1. h[i + (j - i)].role = "tool"
      BY <1>1, <2>1 DEF AnsweredBy
    <3> QED
      BY <2>1, <3>1
  <2>3. n \in 0 .. (Len(h) - i)
    BY <1>2
  <2> QED
    BY <2>2, <2>3
<1>4. ASSUME NEW m \in after
      PROVE  n >= m
  <2>1. CASE m > n
    <3>1. i + n + 1 \in (i + 1) .. (i + m) /\ i + n < Len(h)
      BY <1>2, <2>1
    <3> QED
      BY <1>1, <3>1 DEF AnsweredBy
  <2> QED
    BY <2>1
<1>5. Max(after) = n
  <2>1. \A m \in after : (\A y \in after : m >= y) => m = n
    BY <1>3, <1>4
  <2>2. \E m \in after : \A y \in after : m >= y
    BY <1>3, <1>4
  <2> HIDE DEF after
  <2> QED
    BY <2>1, <2>2 DEF Max
<1>6. ResultsAfter(h, i) = SubSeq(h, i + 1, i + n)
  BY <1>5 DEF ResultsAfter
<1> DEFINE s == SubSeq(h, i + 1, i + n)
<1>7. s \in Seq(MessageRecord) /\ Len(s) = n /\ \A k \in 1 .. n : s[k] = h[i + k]
  <2>1. \A k \in 1 .. n : (i + 1) + k - 1 = i + k
    BY <1>2
  <2>2. i + 1 \in 1 .. (Len(h) + 1) /\ i + n \in i .. Len(h) /\ (i + n) - (i + 1) + 1 = n
    BY <1>2
  <2>3. \A j \in (i + 1) .. (i + n) : j \in 1 .. Len(h)
    BY <1>2
  <2> QED
    BY <1>2, <2>1, <2>2, <2>3, SubSeqProperties DEF History
<1> HIDE DEF s
<1> DEFINE a == [k \in DOMAIN s |-> s[k].calls[1]]
<1>8. DOMAIN s = 1 .. n
  BY <1>7
<1>9. CASE n = 0
  <2>1. a = << >>
    <3>1. DOMAIN s = {}
      BY <1>8, <1>9
    <3> QED
      BY <3>1
  <2> QED
    BY <1>6, <2>1 DEF s
<1>10. CASE n = Len(h[i].calls)
  <2>1. h[i].calls \in Seq(CallRecord)
    <3>1. h[i] \in MessageRecord
      BY DEF History
    <3> QED
      BY <3>1 DEF MessageRecord
  <2> DEFINE c == h[i].calls
  <2>2. \A k \in 1 .. n : s[k].calls[1] = c[k]
    BY <1>1, <1>7 DEF AnsweredBy
  <2>3. c = [k \in 1 .. n |-> c[k]]
    BY <1>10, <2>1
  <2> HIDE DEF c
  <2>4. a = c
    BY <1>8, <2>2, <2>3
  <2> QED
    BY <1>6, <2>4 DEF s, c
<1> QED
  BY <1>1, <1>9, <1>10 DEF AnsweredBy

\* In the session's history every tool call of an answer has one result, in the
\* order of the calls, or, for an answer that a cancellation overtook, none has
\* one: whatever is denied, deferred, cancelled, run together or inserted.
THEOREM Answering == Spec => []CallsAnswered
<1> USE AgentAssumption, RuntimeAssumption
<1>1. Init => TypesOK /\ AnswersOK
  BY InitTypes, AnswersInit
<1>2. TypesOK /\ AnswersOK /\ [Next]_vars => TypesOK' /\ AnswersOK'
  BY NextTypes, AnswersStep
<1>3. TypesOK /\ AnswersOK => CallsAnswered
  <2> SUFFICES ASSUME TypesOK, AnswersOK
               PROVE  CallsAnswered
    OBVIOUS
  <2>1. session.history \in History /\ Answered(session.history)
    BY SessionTypes DEF TypesOK, AnswersOK
  <2>2. DOMAIN session.history = 1 .. Len(session.history)
    BY <2>1 DEF History
  <2> QED
    BY <2>1, <2>2, AnsweredMeans, Zenon DEF CallsAnswered
<1> QED
  BY <1>1, <1>2, <1>3, PTL DEF Spec

-----------------------------------------------------------------------------
(* Counting.                                                               *)

\* How many of the first n are in P.
Count(P, n) == Cardinality({i \in 1 .. n : i \in P})

LEMMA CountStarts ==
  ASSUME NEW P
  PROVE  Count(P, 0) = 0
<1>1. {i \in 1 .. 0 : i \in P} = {}
  OBVIOUS
<1> QED
  BY <1>1, FS_EmptySet DEF Count

LEMMA CountType ==
  ASSUME NEW P, NEW n \in Nat
  PROVE  IsFiniteSet({i \in 1 .. n : i \in P}) /\ Count(P, n) \in Nat
<1>1. IsFiniteSet(1 .. n)
  BY FS_Interval
<1>2. {i \in 1 .. n : i \in P} \in SUBSET (1 .. n)
  OBVIOUS
<1> QED
  BY <1>1, <1>2, FS_Subset, FS_CardinalityType DEF Count

LEMMA CountStep ==
  ASSUME NEW P, NEW n \in Nat
  PROVE  Count(P, n + 1) = Count(P, n) + IF n + 1 \in P THEN 1 ELSE 0
<1> DEFINE S == {i \in 1 .. n : i \in P}
           T == {i \in 1 .. (n + 1) : i \in P}
<1>1. IsFiniteSet(S) /\ Cardinality(S) \in Nat
  BY CountType DEF Count
<1>2. CASE n + 1 \in P
  <2>1. T = S \cup {n + 1} /\ n + 1 \notin S
    BY <1>2
  <2> HIDE DEF S, T
  <2>2. Cardinality(T) = Cardinality(S) + 1
    BY <1>1, <2>1, FS_AddElement
  <2> QED
    BY <1>2, <2>2 DEF Count, S, T
<1>3. CASE n + 1 \notin P
  <2>1. T = S
    BY <1>3
  <2> QED
    BY <1>1, <1>3, <2>1 DEF Count
<1> QED
  BY <1>2, <1>3

\* The first a + n are the first a and the n after them.
LEMMA CountSplits ==
  ASSUME NEW P, NEW a \in Nat, NEW Q, NEW k \in Nat,
         \A i \in 1 .. k : a + i \in P <=> i \in Q
  PROVE  Count(P, a + k) = Count(P, a) + Count(Q, k)
<1> DEFINE T == {n \in Nat : n <= k => Count(P, a + n) = Count(P, a) + Count(Q, n)}
<1>1. 0 \in T
  <2>1. Count(P, a) \in Nat
    BY CountType
  <2>2. Count(Q, 0) = 0
    BY CountStarts
  <2>3. a + 0 = a /\ Count(P, a) = Count(P, a) + 0
    BY <2>1
  <2>4. Count(P, a + 0) = Count(P, a) + Count(Q, 0)
    BY <2>2, <2>3, Zenon
  <2> QED
    BY <2>4
<1>2. ASSUME NEW n \in T
      PROVE  n + 1 \in T
  <2>1. CASE n < k
    <3>1. n \in Nat /\ Count(P, a + n) = Count(P, a) + Count(Q, n) /\ n + 1 \in 1 .. k
      BY <2>1
    <3>2. a + n \in Nat /\ (a + n) + 1 = a + (n + 1)
      BY <3>1
    <3>3. a + (n + 1) \in P <=> n + 1 \in Q
      BY <3>1
    <3>4. Count(P, (a + n) + 1) = Count(P, a + n) + IF (a + n) + 1 \in P THEN 1 ELSE 0
      BY <3>2, CountStep
    <3>5. Count(Q, n + 1) = Count(Q, n) + IF n + 1 \in Q THEN 1 ELSE 0
      BY <3>1, CountStep
    <3>6. Count(P, a) \in Nat /\ Count(Q, n) \in Nat
      BY <3>1, CountType
    <3>7. Count(P, a + (n + 1)) = Count(P, a) + Count(Q, n + 1)
      BY <3>1, <3>2, <3>3, <3>4, <3>5, <3>6
    <3> QED
      BY <3>1, <3>7
  <2>2. CASE ~(n < k)
    BY <2>2
  <2> QED
    BY <2>1, <2>2
<1>3. T = Nat
  <2>1. T \in SUBSET Nat
    OBVIOUS
  <2> HIDE DEF T
  <2> QED
    BY <1>1, <1>2, <2>1, SetInduction
<1>4. k \in T
  BY <1>3
<1> QED
  BY <1>4

-----------------------------------------------------------------------------
(* Sums over a turn.  f lists the sums of the first n messages.            *)

Sums == {"text", "ran", "calls", "results"}

IsSum(f, h, of, k) ==
  f = [n \in 0 .. k |-> IF n = 0 THEN 0
                        ELSE IF h[n].role = "user" THEN 0
                        ELSE f[n - 1] + Weight(h[n], of)]

Adds(f, h, of, k) ==
  /\ f[0] = 0
  /\ \A n \in Nat : n < k =>
       f[n + 1] = IF h[n + 1].role = "user" THEN 0 ELSE f[n] + Weight(h[n + 1], of)

LEMMA SumExists ==
  ASSUME NEW h, NEW of, NEW k \in Nat
  PROVE  \E f : IsSum(f, h, of, k)
<1> DEFINE T == {j \in Nat : \E f : IsSum(f, h, of, j)}
<1>1. 0 \in T
  <2> DEFINE f == [n \in 0 .. 0 |-> 0]
  <2>1. IsSum(f, h, of, 0)
    BY DEF IsSum
  <2> QED
    BY <2>1
<1>2. ASSUME NEW j \in T
      PROVE  j + 1 \in T
  <2>1. PICK f : IsSum(f, h, of, j)
    OBVIOUS
  <2>2. j \in Nat
    OBVIOUS
  <2> DEFINE g == [n \in 0 .. (j + 1) |->
                     IF n <= j THEN f[n]
                     ELSE IF h[n].role = "user" THEN 0 ELSE f[n - 1] + Weight(h[n], of)]
             G == [n \in 0 .. (j + 1) |-> IF n = 0 THEN 0
                        ELSE IF h[n].role = "user" THEN 0
                        ELSE g[n - 1] + Weight(h[n], of)]
  <2>3. ASSUME NEW n \in 0 .. (j + 1)
        PROVE  g[n] = G[n]
    <3>1. CASE n = 0
      BY <2>1, <2>2, <3>1 DEF IsSum
    <3>2. CASE n \in 1 .. j
      <4>1. n - 1 \in 0 .. j /\ n - 1 \in 0 .. (j + 1) /\ n \in 0 .. j /\ n <= j /\ n # 0 /\ n - 1 <= j
        BY <2>2, <3>2
      <4>2. f[n] = IF h[n].role = "user" THEN 0 ELSE f[n - 1] + Weight(h[n], of)
        BY <2>1, <4>1 DEF IsSum
      <4>3. g[n] = f[n] /\ g[n - 1] = f[n - 1]
        BY <4>1
      <4> QED
        BY <4>1, <4>2, <4>3
    <3>3. CASE n = j + 1
      <4>1. n - 1 = j /\ ~(n <= j) /\ n # 0 /\ j <= j /\ j \in 0 .. (j + 1)
        BY <2>2, <3>3
      <4>2. g[j] = f[j] /\ g[n] = IF h[n].role = "user" THEN 0 ELSE f[j] + Weight(h[n], of)
        BY <4>1
      <4> QED
        BY <4>1, <4>2
    <3> QED
      BY <2>2, <3>1, <3>2, <3>3
  <2>4. g = G
    BY <2>3
  <2>5. IsSum(g, h, of, j + 1)
    BY <2>4 DEF IsSum
  <2> QED
    BY <2>2, <2>5
<1>3. T = Nat
  <2> HIDE DEF T
  <2>1. T \in SUBSET Nat
    BY DEF T
  <2> QED
    BY <1>1, <1>2, <2>1, SetInduction
<1> QED
  BY <1>3

\* SincePrompt goes through the messages one by one.
LEMMA SincePromptAdds ==
  ASSUME NEW h \in History, NEW of
  PROVE  \E f : Adds(f, h, of, Len(h)) /\ SincePrompt(h, of) = f[Len(h)]
<1> DEFINE f == CHOOSE g : IsSum(g, h, of, Len(h))
<1>1. Len(h) \in Nat
  BY DEF History
<1>2. IsSum(f, h, of, Len(h))
  BY <1>1, SumExists
<1>3. SincePrompt(h, of) = f[Len(h)]
  BY Zenon DEF SincePrompt, IsSum
<1> HIDE DEF f
<1>4. f[0] = 0
  BY <1>1, <1>2 DEF IsSum
<1>5. ASSUME NEW n \in Nat, n < Len(h)
      PROVE  f[n + 1] = IF h[n + 1].role = "user" THEN 0 ELSE f[n] + Weight(h[n + 1], of)
  <2>1. n + 1 \in 0 .. Len(h) /\ n + 1 # 0 /\ (n + 1) - 1 = n
    BY <1>1, <1>5
  <2>2. \A m \in 0 .. Len(h) : m # 0 =>
          f[m] = IF h[m].role = "user" THEN 0 ELSE f[m - 1] + Weight(h[m], of)
    BY <1>2 DEF IsSum
  <2>3. f[n + 1] = IF h[n + 1].role = "user" THEN 0 ELSE f[(n + 1) - 1] + Weight(h[n + 1], of)
    BY <2>1, <2>2, Zenon
  <2> QED
    BY <2>1, <2>3
<1> QED
  BY <1>3, <1>4, <1>5 DEF Adds

LEMMA WeightType ==
  ASSUME NEW m \in MessageRecord, NEW of \in Sums
  PROVE  Weight(m, of) \in Nat
<1>1. m.text \in Nat /\ m.calls \in Seq(CallRecord)
  BY DEF MessageRecord
<1>2. Len(m.calls) \in Nat
  BY <1>1
<1> QED
  BY <1>1, <1>2 DEF Weight, Sums

LEMMA AddsType ==
  ASSUME NEW h \in History, NEW of \in Sums, NEW f, Adds(f, h, of, Len(h))
  PROVE  \A n \in 0 .. Len(h) : f[n] \in Nat
<1> DEFINE T == {n \in Nat : n <= Len(h) => f[n] \in Nat}
<1>0. Len(h) \in Nat /\ \A i \in 1 .. Len(h) : h[i] \in MessageRecord
  BY DEF History
<1>1. 0 \in T
  BY DEF Adds
<1>2. ASSUME NEW n \in T
      PROVE  n + 1 \in T
  <2>1. CASE n < Len(h)
    <3>1. n \in Nat /\ f[n] \in Nat /\ n + 1 \in 1 .. Len(h)
      BY <1>0, <2>1
    <3>2. Weight(h[n + 1], of) \in Nat
      BY <1>0, <3>1, WeightType
    <3>3. f[n + 1] = 0 \/ f[n + 1] = f[n] + Weight(h[n + 1], of)
      BY <2>1, <3>1 DEF Adds
    <3> QED
      BY <3>1, <3>2, <3>3
  <2>2. CASE ~(n < Len(h))
    BY <1>0, <2>2
  <2> QED
    BY <2>1, <2>2
<1>3. T = Nat
  <2>1. T \in SUBSET Nat
    OBVIOUS
  <2> HIDE DEF T
  <2> QED
    BY <1>1, <1>2, <2>1, SetInduction
<1> QED
  BY <1>0, <1>3

LEMMA SincePromptType ==
  ASSUME NEW h \in History, NEW of \in Sums
  PROVE  SincePrompt(h, of) \in Nat
<1>1. Len(h) \in 0 .. Len(h)
  BY DEF History
<1> QED
  BY <1>1, SincePromptAdds, AddsType

\* f and g add up h and h2 and agree at a and b; the k messages after are the same.
SameSums(f, h, m, g, h2, m2, of, a, b, k) ==
  /\ m \in Nat /\ m2 \in Nat /\ a \in Nat /\ b \in Nat /\ k \in Nat
  /\ Adds(f, h, of, m) /\ Adds(g, h2, of, m2)
  /\ a + k <= m /\ b + k <= m2
  /\ f[a] = g[b]
  /\ \A i \in 1 .. k : h[a + i] = h2[b + i]

LEMMA AddsShift ==
  ASSUME NEW h, NEW f, NEW m, NEW h2, NEW g, NEW m2, NEW of, NEW a, NEW b, NEW k,
         SameSums(f, h, m, g, h2, m2, of, a, b, k)
  PROVE  f[a + k] = g[b + k]
<1>0. /\ m \in Nat /\ m2 \in Nat /\ a \in Nat /\ b \in Nat /\ k \in Nat
      /\ Adds(f, h, of, m) /\ Adds(g, h2, of, m2)
      /\ a + k <= m /\ b + k <= m2
      /\ f[a] = g[b]
      /\ \A i \in 1 .. k : h[a + i] = h2[b + i]
  BY DEF SameSums
<1> DEFINE T == {n \in Nat : n <= k => f[a + n] = g[b + n]}
<1>1. 0 \in T
  <2>1. a + 0 = a /\ b + 0 = b
    BY <1>0
  <2>2. f[a + 0] = g[b + 0]
    BY <1>0, <2>1, Zenon
  <2> QED
    BY <2>2
<1>2. ASSUME NEW n \in T
      PROVE  n + 1 \in T
  <2>1. CASE n < k
    <3>1. n \in Nat /\ f[a + n] = g[b + n] /\ n + 1 \in 1 .. k
      BY <1>0, <2>1
    <3>2. /\ a + n \in Nat /\ a + n < m /\ (a + n) + 1 = a + (n + 1)
          /\ b + n \in Nat /\ b + n < m2 /\ (b + n) + 1 = b + (n + 1)
      BY <1>0, <2>1, <3>1
    <3>3. f[a + (n + 1)] = IF h[a + (n + 1)].role = "user" THEN 0
                           ELSE f[a + n] + Weight(h[a + (n + 1)], of)
      <4>1. f[(a + n) + 1] = IF h[(a + n) + 1].role = "user" THEN 0
                             ELSE f[a + n] + Weight(h[(a + n) + 1], of)
        BY <1>0, <3>2, Zenon DEF Adds
      <4> QED
        BY <3>2, <4>1, Zenon
    <3>4. g[b + (n + 1)] = IF h2[b + (n + 1)].role = "user" THEN 0
                           ELSE g[b + n] + Weight(h2[b + (n + 1)], of)
      <4>1. g[(b + n) + 1] = IF h2[(b + n) + 1].role = "user" THEN 0
                             ELSE g[b + n] + Weight(h2[(b + n) + 1], of)
        BY <1>0, <3>2, Zenon DEF Adds
      <4> QED
        BY <3>2, <4>1, Zenon
    <3>5. h[a + (n + 1)] = h2[b + (n + 1)]
      BY <1>0, <3>1
    <3>6. f[a + (n + 1)] = g[b + (n + 1)]
      BY <3>1, <3>3, <3>4, <3>5, Zenon
    <3> QED
      BY <3>1, <3>6
  <2>2. CASE ~(n < k)
    BY <1>0, <2>2
  <2> QED
    BY <2>1, <2>2
<1>3. T = Nat
  <2>1. T \in SUBSET Nat
    OBVIOUS
  <2> HIDE DEF T
  <2> QED
    BY <1>1, <1>2, <2>1, SetInduction
<1>4. k \in T
  <2> HIDE DEF T
  <2> QED
    BY <1>0, <1>3
<1>5. k <= k => f[a + k] = g[b + k]
  BY <1>4
<1>6. k <= k
  BY <1>0
<1> QED
  BY <1>5, <1>6

-----------------------------------------------------------------------------
(* What the steps of a turn do to its sums.                                *)

\* f and g add up h and h2, which begin with the same k messages.
SameStart(f, h, m, g, h2, m2, of, k) ==
  /\ k \in Nat /\ m \in Nat /\ m2 \in Nat /\ k <= m /\ k <= m2
  /\ Adds(f, h, of, m) /\ Adds(g, h2, of, m2)
  /\ \A i \in 1 .. k : h[i] = h2[i]

LEMMA AddsPrefix ==
  ASSUME NEW h, NEW f, NEW m, NEW g, NEW h2, NEW m2, NEW of, NEW k,
         SameStart(f, h, m, g, h2, m2, of, k)
  PROVE  f[k] = g[k]
<1>1. f[0] = g[0]
  BY DEF Adds, SameStart
<1>2. 0 + k = k /\ \A i \in 1 .. k : 0 + i = i
  BY DEF SameStart
<1>3. SameSums(f, h, m, g, h2, m2, of, 0, 0, k)
  BY <1>1, <1>2 DEF SameSums, SameStart
<1>4. f[0 + k] = g[0 + k]
  BY <1>3, AddsShift
<1> QED
  BY <1>2, <1>4

LEMMA SumAppend ==
  ASSUME NEW h \in History, NEW e \in MessageRecord, NEW of
  PROVE  SincePrompt(Append(h, e), of) =
           IF e.role = "user" THEN 0 ELSE SincePrompt(h, of) + Weight(e, of)
<1> DEFINE h2 == Append(h, e)
<1>1. /\ h2 \in History /\ Len(h2) = Len(h) + 1 /\ Len(h) \in Nat /\ h2[Len(h) + 1] = e
      /\ \A i \in 1 .. Len(h) : h[i] = h2[i]
  BY AppendProperties DEF History
<1> HIDE DEF h2
<1>2. PICK f : Adds(f, h, of, Len(h)) /\ SincePrompt(h, of) = f[Len(h)]
  BY SincePromptAdds
<1>3. PICK g : Adds(g, h2, of, Len(h2)) /\ SincePrompt(h2, of) = g[Len(h2)]
  BY <1>1, SincePromptAdds
<1>4. Len(h2) \in Nat /\ Len(h) <= Len(h) /\ Len(h) <= Len(h2) /\ Len(h) < Len(h2)
  BY <1>1
<1>5. f[Len(h)] = g[Len(h)]
  <2>1. SameStart(f, h, Len(h), g, h2, Len(h2), of, Len(h))
    BY <1>1, <1>2, <1>3, <1>4 DEF SameStart
  <2> QED
    BY <2>1, AddsPrefix
<1>6. g[Len(h) + 1] = IF h2[Len(h) + 1].role = "user" THEN 0
                      ELSE g[Len(h)] + Weight(h2[Len(h) + 1], of)
  BY <1>1, <1>3, <1>4 DEF Adds
<1>7. SincePrompt(h2, of) = IF e.role = "user" THEN 0 ELSE SincePrompt(h, of) + Weight(e, of)
  BY <1>1, <1>2, <1>3, <1>5, <1>6, Zenon
<1> QED
  BY <1>7 DEF h2

\* insert_stable_system_context adds nothing to the turn.
LEMMA SumInsert ==
  ASSUME NEW h \in History, NEW of \in Sums
  PROVE  SincePrompt(InsertSystem(h), of) = SincePrompt(h, of)
<1>1. PICK p \in 0 .. Len(h) :
        /\ InsertSystem(h) \in History /\ Len(InsertSystem(h)) = Len(h) + 1
        /\ \A i \in 1 .. p : InsertSystem(h)[i] = h[i]
        /\ InsertSystem(h)[p + 1] = System
        /\ \A i \in (p + 1) .. Len(h) : InsertSystem(h)[i + 1] = h[i]
  BY Inserted
<1>2. PICK h2 \in History : h2 = InsertSystem(h)
  BY <1>1
<1>3. Len(h) \in Nat /\ p \in Nat /\ p <= Len(h) /\ p <= Len(h) + 1 /\ p < Len(h) + 1
      /\ Len(h) + 1 \in Nat /\ p + 1 \in Nat
  BY DEF History
<1>4. PICK f : Adds(f, h, of, Len(h)) /\ SincePrompt(h, of) = f[Len(h)]
  BY SincePromptAdds
<1>5. PICK g : Adds(g, h2, of, Len(h) + 1) /\ SincePrompt(h2, of) = g[Len(h) + 1]
  BY <1>1, <1>2, SincePromptAdds
<1>6. f[p] = g[p]
  <2>1. \A i \in 1 .. p : h[i] = h2[i]
    BY <1>1, <1>2
  <2>2. SameStart(f, h, Len(h), g, h2, Len(h) + 1, of, p)
    BY <1>3, <1>4, <1>5, <2>1 DEF SameStart
  <2> QED
    BY <2>2, AddsPrefix
<1>7. f[p] \in Nat
  BY <1>3, <1>4, AddsType
<1>8. Weight(System, of) = 0 /\ System.role # "user"
  BY DEF Weight, System, Message, Sums
<1>9. g[p + 1] = IF h2[p + 1].role = "user" THEN 0 ELSE g[p] + Weight(h2[p + 1], of)
  BY <1>3, <1>5 DEF Adds
<1>10. f[p] = g[p + 1]
  BY <1>1, <1>2, <1>6, <1>7, <1>8, <1>9
<1>11. f[p + (Len(h) - p)] = g[(p + 1) + (Len(h) - p)]
  <2> DEFINE k == Len(h) - p
  <2>1. k \in Nat /\ p + k <= Len(h) /\ (p + 1) + k <= Len(h) + 1
    BY <1>3
  <2>2. \A i \in 1 .. k : p + i \in (p + 1) .. Len(h) /\ (p + i) + 1 = (p + 1) + i
    BY <1>3
  <2>3. \A i \in 1 .. k : h[p + i] = h2[(p + 1) + i]
    BY <1>1, <1>2, <2>2
  <2> HIDE DEF k
  <2>4. SameSums(f, h, Len(h), g, h2, Len(h) + 1, of, p, p + 1, k)
    BY <1>3, <1>4, <1>5, <1>10, <2>1, <2>3 DEF SameSums
  <2>5. f[p + k] = g[(p + 1) + k]
    BY <2>4, AddsShift
  <2> QED
    BY <2>5 DEF k
<1>12. p + (Len(h) - p) = Len(h) /\ (p + 1) + (Len(h) - p) = Len(h) + 1
  BY <1>3
<1> QED
  BY <1>2, <1>4, <1>5, <1>11, <1>12

\* What n results of tools add: those of tools that ran, and themselves.
Share(r, of, n) ==
  CASE of = "text"    -> 0
    [] of = "ran"     -> Count({i \in Nat : r[i].result = "ran"}, n)
    [] of = "calls"   -> 0
    [] of = "results" -> n

LEMMA ShareStarts ==
  ASSUME NEW r, NEW of \in Sums
  PROVE  Share(r, of, 0) = 0
BY CountStarts DEF Share, Sums

LEMMA ShareStep ==
  ASSUME NEW r, NEW of \in Sums, NEW n \in Nat, r[n + 1] \in MessageRecord,
         r[n + 1].role = "tool"
  PROVE  Share(r, of, n) \in Nat /\ Share(r, of, n + 1) = Share(r, of, n) + Weight(r[n + 1], of)
<1> DEFINE P == {i \in Nat : r[i].result = "ran"}
<1>1. n + 1 \in P <=> r[n + 1].result = "ran"
  OBVIOUS
<1>2. r[n + 1].text = 0
  BY DEF MessageRecord
<1> HIDE DEF P
<1>3. Count(P, n) \in Nat
  BY CountType
<1>4. Count(P, n + 1) = Count(P, n) + IF n + 1 \in P THEN 1 ELSE 0
  BY CountStep
<1>5. \A k : Share(r, of, k) = CASE of = "text"    -> 0
                                 [] of = "ran"     -> Count(P, k)
                                 [] of = "calls"   -> 0
                                 [] of = "results" -> k
  BY DEF Share, P
<1>6. Weight(r[n + 1], of) = CASE of = "text"    -> 0
                               [] of = "ran"     -> IF n + 1 \in P THEN 1 ELSE 0
                               [] of = "calls"   -> 0
                               [] of = "results" -> 1
  BY <1>1, <1>2 DEF Weight, Sums
<1>7. CASE of = "text" \/ of = "calls"
  BY <1>5, <1>6, <1>7
<1>8. CASE of = "ran"
  BY <1>3, <1>4, <1>5, <1>6, <1>8
<1>9. CASE of = "results"
  BY <1>5, <1>6, <1>9
<1> QED
  BY <1>7, <1>8, <1>9 DEF Sums

LEMMA SumResults ==
  ASSUME NEW h \in History, NEW r \in History, NEW of \in Sums,
         \A i \in 1 .. Len(r) : r[i].role = "tool"
  PROVE  SincePrompt(h \o r, of) = SincePrompt(h, of) + Share(r, of, Len(r))
<1> DEFINE h2 == h \o r
<1>1. /\ h2 \in History /\ Len(h2) = Len(h) + Len(r) /\ Len(h) \in Nat /\ Len(r) \in Nat
      /\ \A i \in 1 .. Len(h) : h[i] = h2[i]
      /\ \A i \in 1 .. Len(r) : r[i] \in MessageRecord
  BY ConcatProperties DEF History
<1>2. \A i \in 1 .. Len(r) : h2[Len(h) + i] = r[i]
  <2>1. \A i \in 1 .. Len(r) :
          /\ Len(h) + i \in 1 .. (Len(h) + Len(r)) /\ ~(Len(h) + i <= Len(h))
          /\ (Len(h) + i) - Len(h) = i
    BY <1>1
  <2>2. h \in Seq(MessageRecord) /\ r \in Seq(MessageRecord)
    BY DEF History
  <2> QED
    BY <2>1, <2>2, ConcatProperties
<1> HIDE DEF h2
<1>3. PICK f : Adds(f, h, of, Len(h)) /\ SincePrompt(h, of) = f[Len(h)]
  BY SincePromptAdds
<1>4. PICK g : Adds(g, h2, of, Len(h2)) /\ SincePrompt(h2, of) = g[Len(h2)]
  BY <1>1, SincePromptAdds
<1>5. f[Len(h)] = g[Len(h)] /\ f[Len(h)] \in Nat
  <2>1. Len(h2) \in Nat /\ Len(h) <= Len(h) /\ Len(h) <= Len(h2)
    BY <1>1
  <2>2. f[Len(h)] = g[Len(h)]
    <3>1. SameStart(f, h, Len(h), g, h2, Len(h2), of, Len(h))
      BY <1>1, <1>3, <1>4, <2>1 DEF SameStart
    <3> QED
      BY <3>1, AddsPrefix
  <2>3. SincePrompt(h, of) \in Nat
    BY SincePromptType
  <2> QED
    BY <1>3, <2>2, <2>3
<1> DEFINE T == {n \in Nat : n <= Len(r) => g[Len(h) + n] = g[Len(h)] + Share(r, of, n)}
<1>6. 0 \in T
  <2>1. Len(h) + 0 = Len(h) /\ Share(r, of, 0) = 0
    BY <1>1, ShareStarts
  <2>2. g[Len(h)] = g[Len(h)] + 0
    BY <1>5
  <2>3. g[Len(h) + 0] = g[Len(h)] + Share(r, of, 0)
    BY <2>1, <2>2, Zenon
  <2> QED
    BY <2>3
<1>7. ASSUME NEW n \in T
      PROVE  n + 1 \in T
  <2>1. CASE n < Len(r)
    <3>1. n \in Nat /\ g[Len(h) + n] = g[Len(h)] + Share(r, of, n) /\ n + 1 \in 1 .. Len(r)
      BY <1>1, <2>1
    <3>2. Len(h) + n \in Nat /\ Len(h) + n < Len(h2) /\ (Len(h) + n) + 1 = Len(h) + (n + 1)
      BY <1>1, <2>1, <3>1
    <3>3. h2[Len(h) + (n + 1)] = r[n + 1] /\ r[n + 1].role = "tool" /\ r[n + 1] \in MessageRecord
      BY <1>1, <1>2, <3>1
    <3>4. g[Len(h) + (n + 1)] = g[Len(h) + n] + Weight(r[n + 1], of)
      <4>1. g[(Len(h) + n) + 1] = IF h2[(Len(h) + n) + 1].role = "user" THEN 0
                                  ELSE g[Len(h) + n] + Weight(h2[(Len(h) + n) + 1], of)
        BY <1>4, <3>2 DEF Adds
      <4> QED
        BY <3>2, <3>3, <4>1
    <3>5. Share(r, of, n) \in Nat /\ Share(r, of, n + 1) = Share(r, of, n) + Weight(r[n + 1], of)
      BY <3>1, <3>3, ShareStep
    <3>6. Weight(r[n + 1], of) \in Nat
      BY <3>3, WeightType
    <3>7. g[Len(h) + (n + 1)] = g[Len(h)] + Share(r, of, n + 1)
      BY <1>5, <3>1, <3>4, <3>5, <3>6
    <3> QED
      BY <3>1, <3>7
  <2>2. CASE ~(n < Len(r))
    BY <1>1, <2>2
  <2> QED
    BY <2>1, <2>2
<1>8. T = Nat
  <2>1. T \in SUBSET Nat
    OBVIOUS
  <2> HIDE DEF T
  <2> QED
    BY <1>6, <1>7, <2>1, SetInduction
<1>9. g[Len(h) + Len(r)] = g[Len(h)] + Share(r, of, Len(r))
  <2>1. Len(r) \in T /\ Len(r) <= Len(r)
    BY <1>1, <1>8
  <2> QED
    BY <2>1
<1> QED
  BY <1>1, <1>3, <1>4, <1>5, <1>9 DEF h2

LEMMA CountSame ==
  ASSUME NEW P, NEW Q, NEW n, \A i \in 1 .. n : i \in P <=> i \in Q
  PROVE  Count(P, n) = Count(Q, n)
<1>1. {i \in 1 .. n : i \in P} = {i \in 1 .. n : i \in Q}
  OBVIOUS
<1> QED
  BY <1>1 DEF Count

\* The outcomes of tools that ran.
RanIn(outcomes) == Count({i \in Nat : outcomes[i] = "ran"}, Len(outcomes))

LEMMA RanInType ==
  ASSUME NEW o \in Seq(Results)
  PROVE  RanIn(o) \in Nat
<1>1. Len(o) \in Nat
  OBVIOUS
<1> QED
  BY <1>1, CountType DEF RanIn

LEMMA RanInNone ==
  ASSUME NEW o, Len(o) = 0
  PROVE  RanIn(o) = 0
BY CountStarts DEF RanIn

LEMMA RanInConcat ==
  ASSUME NEW o \in Seq(Results), NEW s \in Seq(Results)
  PROVE  RanIn(o \o s) = RanIn(o) + RanIn(s)
<1> DEFINE u == o \o s
           P == {i \in Nat : u[i] = "ran"}
           O == {i \in Nat : o[i] = "ran"}
           Q == {i \in Nat : s[i] = "ran"}
<1>1. /\ Len(u) = Len(o) + Len(s) /\ Len(o) \in Nat /\ Len(s) \in Nat
      /\ \A i \in 1 .. Len(o) : u[i] = o[i]
  BY ConcatProperties
<1>2. \A i \in 1 .. Len(s) : u[Len(o) + i] = s[i]
  <2>1. \A i \in 1 .. Len(s) :
          /\ Len(o) + i \in 1 .. (Len(o) + Len(s)) /\ ~(Len(o) + i <= Len(o))
          /\ (Len(o) + i) - Len(o) = i
    BY <1>1
  <2> QED
    BY <2>1, ConcatProperties
<1> HIDE DEF u
<1>3. /\ \A i \in 1 .. Len(o) : i \in P <=> i \in O
      /\ \A i \in 1 .. Len(s) : Len(o) + i \in P <=> i \in Q
  BY <1>1, <1>2
<1>4. RanIn(u) = Count(P, Len(o) + Len(s)) /\ RanIn(o) = Count(O, Len(o)) /\ RanIn(s) = Count(Q, Len(s))
  BY <1>1 DEF RanIn
<1> HIDE DEF P, O, Q
<1>5. Count(P, Len(o)) = Count(O, Len(o))
  BY <1>3, CountSame
<1>6. Count(P, Len(o) + Len(s)) = Count(P, Len(o)) + Count(Q, Len(s))
  BY <1>1, <1>3, CountSplits
<1> QED
  BY <1>4, <1>5, <1>6 DEF u

LEMMA NoneRan ==
  ASSUME NEW o \in Seq(Results), \A i \in 1 .. Len(o) : o[i] # "ran"
  PROVE  RanIn(o) = 0
<1> DEFINE P == {i \in Nat : o[i] = "ran"}
<1>1. {i \in 1 .. Len(o) : i \in P} = {}
  OBVIOUS
<1> QED
  BY <1>1, FS_EmptySet DEF RanIn, Count

-----------------------------------------------------------------------------
(* What a turn keeps: the books of a run.                                  *)

Ends(r, why) == r.at = "stop" /\ r.stop = why

\* What runs, and what arrives, is not in the messages yet.
Started(r) ==
  IF r.at = "execute" THEN Cardinality({i \in DOMAIN r.admitted : r.admitted[i] = "go"}) ELSE 0
Streamed(r) == IF r.at = "model" THEN r.text ELSE 0

RanKept(r) == SincePrompt(r.messages, "ran") + RanIn(r.outcomes) + Started(r) = r.ran
TextKept(r) == SincePrompt(r.messages, "text") + Streamed(r) = r.visible
CallsKept(r) == SincePrompt(r.messages, "calls") = SincePrompt(r.messages, "results") + Len(r.calls)

Kept(r) ==
  /\ r.at \in {"gateway", "stage"} => r.ran = 0 /\ r.visible = 0
  /\ r.at \notin {"none", "gateway", "stage", "save"} /\ ~Ends(r, "error") =>
       /\ r.at = "stop" => r.calls = << >>
       /\ RanKept(r)
       /\ ~Ends(r, "cancelled") => TextKept(r) /\ CallsKept(r)

KeptOK == Kept(run)

\* In the middle of a turn nothing is missing.
Midst(at) == at \in {"loop", "model"} \cup Batch

LEMMA KeptMidst ==
  ASSUME KeptOK, Midst(run.at)
  PROVE  RanKept(run) /\ TextKept(run) /\ CallsKept(run)
BY DEF KeptOK, Kept, Midst, Ends, Batch, Admission

LEMMA MidstKept ==
  ASSUME Midst(run'.at), RanKept(run'), TextKept(run'), CallsKept(run')
  PROVE  KeptOK'
BY DEF KeptOK, Kept, Midst, Ends, Batch, Admission

\* The sums are numbers.
LEMMA RunSums ==
  ASSUME RunOK
  PROVE  /\ SincePrompt(run.messages, "text") \in Nat /\ SincePrompt(run.messages, "ran") \in Nat
         /\ SincePrompt(run.messages, "calls") \in Nat
         /\ SincePrompt(run.messages, "results") \in Nat
         /\ RanIn(run.outcomes) \in Nat /\ Started(run) \in Nat
<1>1. run.messages \in History /\ run.outcomes \in Seq(Results)
  BY RunTypes
<1>2. Started(run) \in Nat
  BY GoingCount DEF Started, Going
<1> QED
  BY <1>1, <1>2, SincePromptType, RanInType DEF Sums

\* A step that moves the turn on from one place to another that sums up the same.
LEMMA MovedKept ==
  ASSUME KeptOK, Midst(run.at), Midst(run'.at), Started(run') = Started(run),
         Streamed(run') = Streamed(run), run'.messages = run.messages,
         run'.outcomes = run.outcomes, run'.calls = run.calls, run'.ran = run.ran,
         run'.visible = run.visible
  PROVE  KeptOK'
<1>1. RanKept(run) /\ TextKept(run) /\ CallsKept(run)
  BY KeptMidst
<1>2. RanKept(run') /\ TextKept(run') /\ CallsKept(run')
  BY <1>1 DEF RanKept, TextKept, CallsKept
<1> QED
  BY <1>2, MidstKept

\* A run that ends without an error has no calls left.
LEMMA StoppedKept ==
  ASSUME RunOK, KeptOK, Midst(run.at), NEW why \in Stops, run' = Stopped(why),
         why = "error" \/ (run.at \in {"loop", "model"} /\ (why = "cancelled" \/ run.at = "loop"))
  PROVE  KeptOK'
<1>1. /\ run'.at = "stop" /\ run'.stop = why /\ run'.messages = run.messages
      /\ run'.outcomes = run.outcomes /\ run'.calls = run.calls /\ run'.ran = run.ran
      /\ run'.visible = run.visible
  BY DEF Stopped, RunOK, RunRecord
<1>2. RanKept(run) /\ TextKept(run) /\ CallsKept(run)
  BY KeptMidst
<1>3. CASE why = "error"
  BY <1>1, <1>3 DEF KeptOK, Kept, Ends
<1>4. CASE run.at \in {"loop", "model"} /\ (why = "cancelled" \/ run.at = "loop")
  <2>1. run'.calls = << >>
    BY <1>1, <1>4 DEF RunOK
  <2>2. Started(run) = 0 /\ Started(run') = 0 /\ Streamed(run') = 0
    BY <1>1, <1>4 DEF Started, Streamed
  <2>3. RanKept(run')
    BY <1>1, <1>2, <2>2 DEF RanKept
  <2>4. run.at = "loop" => TextKept(run') /\ CallsKept(run')
    BY <1>1, <1>2, <2>2 DEF TextKept, CallsKept, Streamed
  <2> QED
    BY <1>1, <1>4, <2>1, <2>3, <2>4 DEF KeptOK, Kept, Ends
<1> QED
  BY <1>3, <1>4

LEMMA KeptRequest ==
  ASSUME RunOK, KeptOK, AgentAssumption,
         LoopTop \/ Delta \/ Respond \/ GatewayCancelled \/ GatewayFails
  PROVE  KeptOK'
<1>0. run \in RunRecord /\ Midst(run.at) /\ run.at \in {"loop", "model"} /\ run.calls = << >>
  BY DEF RunOK, LoopTop, Delta, Respond, GatewayCancelled, GatewayFails, Midst
<1>1. RanKept(run) /\ TextKept(run) /\ CallsKept(run)
  BY <1>0, KeptMidst
<1>2. CASE LoopTop
  <2>1. CASE run.step = MaxSteps \/ flag
    <3>1. run.at = "loop" /\ \E why \in {"limit", "cancelled"} : run' = Stopped(why)
      BY <1>2, <2>1 DEF LoopTop
    <3> QED
      BY <1>0, <3>1, StoppedKept DEF Stops
  <2>2. CASE ~(run.step = MaxSteps \/ flag)
    <3>1. run' = [run EXCEPT !.at = "model", !.step = @ + 1, !.text = 0] /\ run.at = "loop"
      BY <1>2, <2>2, Zenon DEF LoopTop
    <3>2. /\ run'.at = "model" /\ run'.text = 0 /\ run'.messages = run.messages
          /\ run'.outcomes = run.outcomes /\ run'.calls = run.calls /\ run'.ran = run.ran
          /\ run'.visible = run.visible
      BY <1>0, <3>1 DEF RunRecord
    <3>3. Started(run) = Started(run') /\ Streamed(run) = Streamed(run') /\ Midst(run'.at)
      BY <3>1, <3>2 DEF Started, Streamed, Midst
    <3> QED
      BY <1>0, <3>2, <3>3, MovedKept
  <2> QED
    BY <2>1, <2>2
<1>3. CASE Delta
  <2>1. PICK t, p, v : /\ t = run.text + 1 /\ p = run.partial + 1 /\ v = run.visible + 1
                       /\ run' = [run EXCEPT !.text = t, !.partial = p, !.visible = v]
    BY <1>3, Zenon DEF Delta
  <2>2. /\ run'.at = "model" /\ run.at = "model" /\ run'.text = t /\ run'.messages = run.messages
        /\ run'.outcomes = run.outcomes /\ run'.calls = run.calls /\ run'.ran = run.ran
        /\ run'.visible = v
    BY <1>0, <1>3, <2>1 DEF RunRecord, Delta
  <2>3. RanKept(run')
    BY <1>1, <2>2 DEF RanKept, Started
  <2>4. CallsKept(run')
    BY <1>1, <2>2 DEF CallsKept
  <2>5. TextKept(run')
    <3>1. /\ SincePrompt(run.messages, "text") \in Nat /\ run.text \in Nat
          /\ SincePrompt(run.messages, "text") + run.text = run.visible
      BY <1>1, <2>2, RunSums, RunTypes DEF TextKept, Streamed
    <3>2. Streamed(run') = run.text + 1 /\ run'.visible = run.visible + 1
      BY <2>1, <2>2 DEF Streamed
    <3>3. SincePrompt(run.messages, "text") + Streamed(run') = run'.visible
      BY <3>1, <3>2
    <3> QED
      BY <2>2, <3>3 DEF TextKept
  <2> QED
    BY <2>2, <2>3, <2>4, <2>5, MidstKept DEF Midst
<1>4. CASE Respond
  <2>1. PICK calls \in Batches :
          LET answered == [run EXCEPT !.messages = Append(@, Assistant(run.text, calls))]
          IN  run' = IF flag THEN [answered EXCEPT !.at = "stop", !.stop = "cancelled"]
                     ELSE IF calls = << >> THEN [answered EXCEPT !.at = "stop", !.stop = "complete"]
                     ELSE [answered EXCEPT !.at = "select", !.calls = calls]
    BY <1>4 DEF Respond
  <2> DEFINE e == Assistant(run.text, calls)
  <2>2. calls \in Seq(CallRecord) /\ run.at = "model"
    BY <1>4, AgentAssumption DEF Respond
  <2>3. /\ e \in MessageRecord /\ e.role = "assistant" /\ e.text = run.text
        /\ e.calls = calls /\ e.result = "none"
    BY <2>2, RunTypes DEF Assistant, Message, MessageRecord
  <2> HIDE DEF e
  <2>4. PICK new : new = Append(run.messages, e)
    OBVIOUS
  <2>5. LET answered == [run EXCEPT !.messages = new]
        IN  \/ run' = [answered EXCEPT !.at = "stop", !.stop = "cancelled"]
            \/ /\ run' = [answered EXCEPT !.at = "stop", !.stop = "complete"]
               /\ calls = << >>
            \/ run' = [answered EXCEPT !.at = "select", !.calls = calls]
    BY <2>1, <2>4, Zenon DEF e
  <2>6. /\ run'.messages = new /\ run'.outcomes = run.outcomes /\ run'.ran = run.ran
        /\ run'.visible = run.visible /\ run'.at \in {"stop", "select"}
        /\ \/ run'.at = "stop" /\ run'.stop = "cancelled" /\ run'.calls = run.calls
           \/ run'.at = "stop" /\ run'.stop = "complete" /\ run'.calls = run.calls /\ calls = << >>
           \/ run'.at = "select" /\ run'.calls = calls
    BY <1>0, <2>5 DEF RunRecord
  <2>7. /\ Weight(e, "text") = run.text /\ Weight(e, "ran") = 0
        /\ Weight(e, "calls") = Len(calls) /\ Weight(e, "results") = 0
    BY <2>3 DEF Weight
  <2>8. /\ SincePrompt(new, "text") = SincePrompt(run.messages, "text") + run.text
        /\ SincePrompt(new, "ran") = SincePrompt(run.messages, "ran") + 0
        /\ SincePrompt(new, "calls") = SincePrompt(run.messages, "calls") + Len(calls)
        /\ SincePrompt(new, "results") = SincePrompt(run.messages, "results") + 0
    <3>1. run.messages \in History
      BY RunTypes
    <3>2. \A of : SincePrompt(new, of) = SincePrompt(run.messages, of) + Weight(e, of)
      BY <2>3, <2>4, <3>1, SumAppend
    <3> QED
      BY <2>7, <3>2
  <2>9. Started(run) = 0 /\ Started(run') = 0 /\ Streamed(run) = run.text /\ Streamed(run') = 0
    BY <2>2, <2>6 DEF Started, Streamed
  <2>10. Len(calls) \in Nat /\ Len(run.calls) = 0 /\ (calls = << >> => Len(calls) = 0)
    BY <1>0, <2>2
  <2>11. RanKept(run')
    BY <1>1, <2>6, <2>8, <2>9, RunSums DEF RanKept
  <2>12. TextKept(run')
    BY <1>1, <2>6, <2>8, <2>9, RunSums, RunTypes DEF TextKept
  <2>13. (run'.stop = "cancelled" /\ run'.at = "stop") \/ CallsKept(run')
    BY <1>0, <1>1, <2>6, <2>8, <2>10, RunSums DEF CallsKept
  <2> QED
    BY <1>0, <2>6, <2>11, <2>12, <2>13 DEF KeptOK, Kept, Ends
<1>5. CASE GatewayCancelled
  BY <1>0, <1>5, StoppedKept DEF GatewayCancelled, Stops
<1>6. CASE GatewayFails
  BY <1>0, <1>6, StoppedKept DEF GatewayFails, Stops
<1> QED
  BY <1>2, <1>3, <1>4, <1>5, <1>6

LEMMA KeptSelect ==
  ASSUME RunOK, KeptOK, SelectContext \/ SelectFails
  PROVE  KeptOK'
<1>0. run \in RunRecord /\ Midst(run.at) /\ run.at = "select"
  BY DEF RunOK, SelectContext, SelectFails, Midst, Batch
<1>1. RanKept(run) /\ TextKept(run) /\ CallsKept(run)
  BY <1>0, KeptMidst
<1>2. CASE SelectContext
  <2>1. PICK new \in {run.messages, InsertSystem(run.messages)} :
          \E d : \/ run' = [run EXCEPT !.at = "call", !.messages = new, !.delayed = d]
                 \/ /\ run' = [run EXCEPT !.at = "call", !.delayed = d]
                    /\ new = run.messages
    BY <1>2, Zenon DEF SelectContext
  <2>2. /\ run'.at = "call" /\ run'.messages = new
        /\ run'.outcomes = run.outcomes /\ run'.calls = run.calls /\ run'.ran = run.ran
        /\ run'.visible = run.visible
    BY <1>0, <2>1 DEF RunRecord
  <2>3. \A of \in Sums : SincePrompt(new, of) = SincePrompt(run.messages, of)
    BY <2>1, RunTypes, SumInsert
  <2>4. Started(run) = Started(run') /\ Streamed(run) = Streamed(run')
    BY <1>0, <2>2 DEF Started, Streamed
  <2>5. RanKept(run') /\ TextKept(run') /\ CallsKept(run')
    BY <1>1, <2>2, <2>3, <2>4 DEF RanKept, TextKept, CallsKept, Sums
  <2> QED
    BY <2>2, <2>5, MidstKept DEF Midst, Batch
<1>3. CASE SelectFails
  BY <1>0, <1>3, StoppedKept DEF SelectFails, Stops
<1> QED
  BY <1>2, <1>3

LEMMA KeptCollect ==
  ASSUME RunOK, KeptOK, CollectResults
  PROVE  KeptOK'
<1>0. run \in RunRecord /\ Midst(run.at) /\ run.at = "call"
  BY DEF RunOK, CollectResults, Midst, Batch
<1>1. RanKept(run) /\ TextKept(run) /\ CallsKept(run)
  BY <1>0, KeptMidst
<1>2. /\ Len(run.outcomes) = Len(run.calls) /\ Len(run.calls) \in Nat /\ run.messages \in History
      /\ run.calls \in Seq(CallRecord)
  BY RunTypes DEF CollectResults, RunOK, Index
<1>3. BatchResults \in History /\ Len(BatchResults) = Len(run.calls)
  BY <1>2, BatchResultsType
<1>4. ASSUME NEW i \in 1 .. Len(run.calls)
      PROVE  BatchResults[i].role = "tool" /\ BatchResults[i].result = run.outcomes[i]
  <2>1. BatchResults[i] = ToolResult(run.calls[i], run.outcomes[i])
    BY <1>2 DEF BatchResults
  <2> QED
    BY <2>1 DEF ToolResult, Message
<1> DEFINE r == BatchResults
           n == Len(run.calls)
<1>5. PICK new, none : /\ new = run.messages \o r /\ none = << >>
                       /\ run' = [run EXCEPT !.at = "loop", !.calls = none, !.outcomes = none,
                                             !.delayed = {}, !.messages = new]
  BY Zenon DEF CollectResults, BatchResults
<1>6. /\ run'.at = "loop" /\ run'.messages = new /\ run'.outcomes = none /\ run'.calls = none
      /\ run'.ran = run.ran /\ run'.visible = run.visible
  <2>1. PICK d : run' = [run EXCEPT !.at = "loop", !.calls = none, !.outcomes = none,
                                    !.delayed = d, !.messages = new]
    BY <1>5
  <2> QED
    BY <1>0, <2>1 DEF RunRecord
<1>7. \A of \in Sums : SincePrompt(new, of) = SincePrompt(run.messages, of) + Share(r, of, n)
  <2> HIDE DEF r
  <2>1. r \in History /\ Len(r) = n /\ \A i \in 1 .. Len(r) : r[i].role = "tool"
    BY <1>3, <1>4 DEF r
  <2> QED
    BY <1>2, <1>5, <2>1, SumResults
<1>8. Share(r, "ran", n) = RanIn(run.outcomes)
  <2> DEFINE P == {i \in Nat : r[i].result = "ran"}
             Q == {i \in Nat : run.outcomes[i] = "ran"}
  <2>1. \A i \in 1 .. n : i \in P <=> i \in Q
    BY <1>4
  <2>2. Share(r, "ran", n) = Count(P, n) /\ RanIn(run.outcomes) = Count(Q, n)
    BY <1>2 DEF Share, RanIn
  <2> HIDE DEF P, Q
  <2>3. Count(P, n) = Count(Q, n)
    BY <2>1, CountSame
  <2> QED
    BY <2>2, <2>3
<1>9. Share(r, "text", n) = 0 /\ Share(r, "calls", n) = 0 /\ Share(r, "results", n) = n
  BY DEF Share
<1>10. Len(none) = 0
  BY <1>5
<1>11. RanIn(none) = 0
  BY <1>10, RanInNone
<1>12. Started(run) = 0 /\ Started(run') = 0 /\ Streamed(run) = 0 /\ Streamed(run') = 0
  BY <1>0, <1>6 DEF Started, Streamed
<1> HIDE DEF r
<1>13. RanKept(run')
  <2>1. SincePrompt(new, "ran") = SincePrompt(run.messages, "ran") + RanIn(run.outcomes)
    BY <1>7, <1>8 DEF Sums
  <2> QED
    BY <1>1, <1>6, <1>11, <1>12, <2>1, RunSums DEF RanKept
<1>14. TextKept(run')
  <2>1. SincePrompt(new, "text") = SincePrompt(run.messages, "text") + 0
    BY <1>7, <1>9 DEF Sums
  <2> QED
    BY <1>1, <1>6, <1>12, <2>1, RunSums DEF TextKept
<1>15. CallsKept(run')
  <2>1. /\ SincePrompt(new, "calls") = SincePrompt(run.messages, "calls") + 0
        /\ SincePrompt(new, "results") = SincePrompt(run.messages, "results") + n
    BY <1>7, <1>9 DEF Sums
  <2> QED
    BY <1>1, <1>2, <1>6, <1>10, <2>1, RunSums DEF CallsKept
<1> QED
  BY <1>6, <1>13, <1>14, <1>15, MidstKept DEF Midst

\* Outcomes that are added to those of the batch, of tools that ran.
LEMMA OutcomesKept ==
  ASSUME RunOK, KeptOK, Midst(run.at), Midst(run'.at), Streamed(run) = 0, Streamed(run') = 0,
         run'.messages = run.messages, run'.calls = run.calls, run'.ran = run.ran,
         run'.visible = run.visible, NEW s \in Seq(Results), run'.outcomes = run.outcomes \o s,
         Started(run') = 0, RanIn(s) = Started(run)
  PROVE  KeptOK'
<1>1. RanKept(run) /\ TextKept(run) /\ CallsKept(run)
  BY KeptMidst
<1>2. RanIn(run.outcomes \o s) = RanIn(run.outcomes) + RanIn(s)
  BY RunTypes, RanInConcat
<1>3. RanKept(run')
  <2>1. /\ SincePrompt(run.messages, "ran") \in Nat /\ RanIn(run.outcomes) \in Nat
        /\ Started(run) \in Nat
    BY RunSums
  <2>2. SincePrompt(run.messages, "ran") + RanIn(run.outcomes) + Started(run) = run.ran
    BY <1>1 DEF RanKept
  <2>3. SincePrompt(run.messages, "ran") + (RanIn(run.outcomes) + Started(run)) + 0 = run.ran
    BY <2>1, <2>2
  <2> QED
    BY <1>2, <2>3, Zenon DEF RanKept
<1>4. TextKept(run') /\ CallsKept(run')
  BY <1>1 DEF TextKept, CallsKept
<1> QED
  BY <1>3, <1>4, MidstKept

LEMMA KeptWaiting ==
  ASSUME RunOK, KeptOK, CancelRest \/ Defer \/ BeginGroup
  PROVE  KeptOK'
<1>0. run \in RunRecord /\ Midst(run.at) /\ run.at = "call" /\ Streamed(run) = 0 /\ Started(run) = 0
  BY DEF RunOK, CancelRest, Defer, BeginGroup, Midst, Batch, Streamed, Started
<1>1. CASE CancelRest
  <2> DEFINE k == Len(run.calls) - Index + 1
             rest == [i \in 1 .. k |-> "cancelled"]
  <2>1. k \in Nat
    BY <1>1, RunTypes DEF CancelRest
  <2>2. rest \in Seq(Results) /\ \A i \in 1 .. Len(rest) : rest[i] # "ran"
    <3> HIDE DEF k
    <3>1. "cancelled" \in Results
      BY DEF Results
    <3>2. rest \in [1 .. k -> Results] /\ \A i \in 1 .. k : rest[i] # "ran"
      BY <3>1
    <3> HIDE DEF rest
    <3> QED
      BY <2>1, <3>2, FunctionIsSeq
  <2>3. PICK new : new = run.outcomes \o rest /\ run' = [run EXCEPT !.outcomes = new]
    BY <1>1, Zenon DEF CancelRest
  <2> HIDE DEF rest
  <2>4. /\ run'.at = run.at /\ run'.messages = run.messages /\ run'.calls = run.calls
        /\ run'.ran = run.ran /\ run'.visible = run.visible /\ run'.outcomes = run.outcomes \o rest
    BY <1>0, <2>3 DEF RunRecord
  <2>5. RanIn(rest) = 0
    BY <2>2, NoneRan
  <2>6. Streamed(run') = 0 /\ Started(run') = 0
    BY <1>0, <2>4 DEF Streamed, Started
  <2> QED
    BY <1>0, <2>2, <2>4, <2>5, <2>6, OutcomesKept
<1>2. CASE Defer
  <2>1. PICK new, p : /\ new = Append(run.outcomes, "deferred")
                      /\ run' = [run EXCEPT !.outcomes = new, !.partial = p]
    BY <1>2, Zenon DEF Defer
  <2>2. "deferred" \in Results
    BY DEF Results
  <2>3. new = run.outcomes \o <<"deferred">>
    BY <2>1, <2>2, RunTypes, AppendIsConcat
  <2>4. /\ run'.at = run.at /\ run'.messages = run.messages /\ run'.calls = run.calls
        /\ run'.ran = run.ran /\ run'.visible = run.visible /\ run'.outcomes = new
    BY <1>0, <2>1 DEF RunRecord
  <2>5. <<"deferred">> \in Seq(Results) /\ \A i \in 1 .. Len(<<"deferred">>) : <<"deferred">>[i] # "ran"
    BY <2>2
  <2>6. RanIn(<<"deferred">>) = 0
    BY <2>5, NoneRan
  <2>7. Streamed(run') = 0 /\ Started(run') = 0
    BY <1>0, <2>4 DEF Streamed, Started
  <2> QED
    BY <1>0, <2>3, <2>4, <2>5, <2>6, <2>7, OutcomesKept
<1>3. CASE BeginGroup
  <2>1. PICK n, a, p : run' = [run EXCEPT !.at = "admit", !.admitted = a, !.partial = p, !.group = n]
    BY <1>3, Zenon DEF BeginGroup
  <2>2. /\ run'.at = "admit" /\ run'.messages = run.messages /\ run'.calls = run.calls
        /\ run'.ran = run.ran /\ run'.visible = run.visible /\ run'.outcomes = run.outcomes
    BY <1>0, <2>1 DEF RunRecord
  <2>3. Streamed(run') = 0 /\ Started(run') = 0 /\ Midst(run'.at)
    BY <2>2 DEF Streamed, Started, Midst, Batch, Admission
  <2> QED
    BY <1>0, <2>2, <2>3, MovedKept
<1> QED
  BY <1>1, <1>2, <1>3

LEMMA KeptAdmitted ==
  ASSUME RunOK, KeptOK, run.at \in {"admit", "review"},
         \/ \E verdict : run' = Admitted(verdict)
         \/ \E reviewer : run' = [run EXCEPT !.at = "review", !.reviewer = reviewer]
  PROVE  KeptOK'
<1>1. PICK at \in {"start", "admit", "review"} :
        \/ \E a : run' = [run EXCEPT !.at = at, !.admitted = a]
        \/ \E r : run' = [run EXCEPT !.at = at, !.reviewer = r]
  <2>1. ASSUME NEW verdict, run' = Admitted(verdict)
        PROVE  \E at \in {"start", "admit"} : \E a : run' = [run EXCEPT !.at = at, !.admitted = a]
    <3>1. PICK at : at = IF Len(run.admitted) + 1 = run.group THEN "start" ELSE "admit"
      OBVIOUS
    <3>2. run' = [run EXCEPT !.at = at, !.admitted = Append(@, verdict)]
      BY <2>1, <3>1 DEF Admitted
    <3> QED
      BY <3>1, <3>2
  <2> QED
    BY <2>1
<1>2. run \in RunRecord
  BY DEF RunOK
<1>3. /\ run'.at = at /\ run'.messages = run.messages /\ run'.calls = run.calls
      /\ run'.ran = run.ran /\ run'.visible = run.visible /\ run'.outcomes = run.outcomes
  BY <1>1, <1>2 DEF RunRecord
<1>4. /\ Streamed(run) = 0 /\ Started(run) = 0 /\ Streamed(run') = 0 /\ Started(run') = 0
      /\ Midst(run.at) /\ Midst(run'.at)
  BY <1>3 DEF Streamed, Started, Midst, Batch, Admission
<1> QED
  BY <1>3, <1>4, MovedKept

LEMMA KeptAdmission ==
  ASSUME RunOK, KeptOK, perm.mode \in Modes, Admit \/ ReviewFails \/ \E answer : Reviewed(answer)
  PROVE  KeptOK'
<1>1. CASE Admit
  <2>1. run.at = "admit" /\ Decide(perm.mode, perm.grants, Candidate) \in {"allow", "ask", "deny", "review"}
    BY <1>1, CandidateType, DecideType DEF Admit
  <2>2. \/ \E verdict : run' = Admitted(verdict)
        \/ \E reviewer : run' = [run EXCEPT !.at = "review", !.reviewer = reviewer]
    BY <1>1, <2>1 DEF Admit
  <2> QED
    BY <2>1, <2>2, KeptAdmitted
<1>2. CASE \E answer : Reviewed(answer)
  BY <1>2, KeptAdmitted DEF Reviewed
<1>3. CASE ReviewFails
  <2>1. Midst(run.at) /\ run' = Stopped("error")
    BY <1>3 DEF ReviewFails, Midst, Batch, Admission
  <2> QED
    BY <2>1, StoppedKept DEF Stops
<1> QED
  BY <1>1, <1>2, <1>3

\* The outcomes of a group, when its calls that were let through come to go.
GroupOf(go) == [i \in DOMAIN run.admitted |->
                  IF run.admitted[i] = "go" THEN go ELSE run.admitted[i]]

LEMMA GroupType ==
  ASSUME RunOK, NEW go \in Results
  PROVE  /\ GroupOf(go) \in Seq(Results) /\ Len(GroupOf(go)) = Len(run.admitted)
         /\ \A i \in 1 .. Len(run.admitted) :
              GroupOf(go)[i] = "ran" <=> run.admitted[i] = "go" /\ go = "ran"
<1>1. DOMAIN run.admitted = 1 .. Len(run.admitted) /\ Len(run.admitted) \in Nat
  BY RunTypes
<1>2. \A i \in 1 .. Len(run.admitted) : run.admitted[i] \in Verdicts
  BY RunTypes
<1>3. \A v \in Verdicts : v # "ran" /\ (v = "go" \/ v \in Results)
  BY DEF Verdicts, Results
<1>4. GroupOf(go) \in [1 .. Len(run.admitted) -> Results]
  BY <1>1, <1>2, <1>3 DEF GroupOf
<1>5. \A i \in 1 .. Len(run.admitted) :
        GroupOf(go)[i] = "ran" <=> run.admitted[i] = "go" /\ go = "ran"
  BY <1>1, <1>2, <1>3 DEF GroupOf
<1> QED
  BY <1>1, <1>4, <1>5, FunctionIsSeq

LEMMA KeptTools ==
  ASSUME RunOK, KeptOK, StartTools \/ FinishTools
  PROVE  KeptOK'
<1>0. run \in RunRecord /\ Midst(run.at) /\ run.at \in {"start", "execute"} /\ Streamed(run) = 0
  BY DEF RunOK, StartTools, FinishTools, Midst, Batch, Admission, Streamed
<1>1. ASSUME NEW s \in Seq(Results), RanIn(s) = Started(run),
             run' = [run EXCEPT !.at = "call", !.outcomes = @ \o s]
      PROVE  KeptOK'
  <2>1. PICK new : new = run.outcomes \o s /\ run' = [run EXCEPT !.at = "call", !.outcomes = new]
    BY <1>1
  <2>2. /\ run'.at = "call" /\ run'.messages = run.messages /\ run'.calls = run.calls
        /\ run'.ran = run.ran /\ run'.visible = run.visible /\ run'.outcomes = new
    BY <1>0, <2>1 DEF RunRecord
  <2>3. Streamed(run') = 0 /\ Started(run') = 0 /\ Midst(run'.at)
    BY <2>2 DEF Streamed, Started, Midst, Batch
  <2> QED
    BY <1>0, <1>1, <2>1, <2>2, <2>3, OutcomesKept
<1>2. CASE FinishTools
  <2> DEFINE s == GroupOf("ran")
             P == {i \in Nat : s[i] = "ran"}
  <2>1. run.at = "execute" /\ run' = [run EXCEPT !.at = "call", !.outcomes = @ \o s]
    BY <1>2, Zenon DEF FinishTools, GroupOf
  <2>2. "ran" \in Results
    BY DEF Results
  <2>3. /\ s \in Seq(Results) /\ Len(s) = Len(run.admitted)
        /\ \A i \in 1 .. Len(run.admitted) : s[i] = "ran" <=> run.admitted[i] = "go"
    BY <2>2, GroupType
  <2>4. DOMAIN run.admitted = 1 .. Len(run.admitted)
    BY RunTypes
  <2>5. {i \in 1 .. Len(s) : i \in P} = {i \in DOMAIN run.admitted : run.admitted[i] = "go"}
    <3> HIDE DEF s
    <3> QED
      BY <2>3, <2>4
  <2>6. RanIn(s) = Started(run)
    BY <2>1, <2>5 DEF RanIn, Count, Started
  <2> HIDE DEF s
  <2> QED
    BY <1>1, <2>1, <2>3, <2>6
<1>3. CASE StartTools
  <2>1. run.at = "start" /\ Started(run) = 0
    BY <1>3 DEF StartTools, Started
  <2>2. CASE ~flag /\ Going # {}
    <3>1. PICK n : n = run.ran + Cardinality(Going) /\ run' = [run EXCEPT !.at = "execute", !.ran = n]
      BY <1>3, <2>2, Zenon DEF StartTools
    <3>2. /\ run'.at = "execute" /\ run'.messages = run.messages /\ run'.calls = run.calls
          /\ run'.ran = n /\ run'.visible = run.visible /\ run'.outcomes = run.outcomes
          /\ run'.admitted = run.admitted
      BY <1>0, <3>1 DEF RunRecord
    <3>3. Started(run') = Cardinality(Going) /\ Streamed(run') = 0 /\ Midst(run'.at)
      BY <3>2 DEF Started, Going, Streamed, Midst, Batch, Admission
    <3>4. RanKept(run) /\ TextKept(run) /\ CallsKept(run)
      BY <1>0, KeptMidst
    <3>5. TextKept(run') /\ CallsKept(run')
      BY <1>0, <3>2, <3>3, <3>4 DEF TextKept, CallsKept
    <3>6. RanKept(run')
      <4>1. /\ SincePrompt(run.messages, "ran") \in Nat /\ RanIn(run.outcomes) \in Nat
            /\ Cardinality(Going) \in Nat
        BY RunSums, GoingCount
      <4>2. SincePrompt(run.messages, "ran") + RanIn(run.outcomes) + 0 = run.ran
        BY <2>1, <3>4 DEF RanKept
      <4>3. SincePrompt(run.messages, "ran") + RanIn(run.outcomes) + Cardinality(Going) = n
        BY <3>1, <4>1, <4>2
      <4> QED
        BY <3>2, <3>3, <4>3 DEF RanKept
    <3> QED
      BY <3>3, <3>5, <3>6, MidstKept
  <2>3. CASE ~(~flag /\ Going # {})
    <3> DEFINE s == GroupOf("cancelled")
    <3>1. run' = [run EXCEPT !.at = "call", !.outcomes = @ \o s]
      BY <1>3, <2>3, Zenon DEF StartTools, GroupOf
    <3>2. "cancelled" \in Results /\ "cancelled" # "ran"
      BY DEF Results
    <3>3. s \in Seq(Results) /\ \A i \in 1 .. Len(s) : s[i] # "ran"
      BY <3>2, GroupType
    <3> HIDE DEF s
    <3>4. RanIn(s) = Started(run)
      BY <2>1, <3>3, NoneRan
    <3> QED
      BY <1>1, <3>1, <3>3, <3>4
  <2> QED
    BY <2>2, <2>3
<1> QED
  BY <1>2, <1>3

LEMMA KeptAgent ==
  ASSUME TypesOK, KeptOK, AgentAssumption, AgentAction
  PROVE  KeptOK'
<1>0. RunOK /\ perm.mode \in Modes
  BY DEF TypesOK, PermOK
<1>1. CASE LoopTop \/ Delta \/ Respond \/ GatewayCancelled \/ GatewayFails
  BY <1>0, <1>1, KeptRequest
<1>2. CASE SelectContext \/ SelectFails
  BY <1>0, <1>2, KeptSelect
<1>3. CASE CollectResults
  BY <1>0, <1>3, KeptCollect
<1>4. CASE CancelRest \/ Defer \/ BeginGroup
  BY <1>0, <1>4, KeptWaiting
<1>5. CASE StartTools \/ FinishTools
  BY <1>0, <1>5, KeptTools
<1>6. CASE Admit \/ ModelReviews \/ ReviewFails \/ \E answer : Reviewed(answer)
  BY <1>0, <1>6, KeptAdmission DEF ModelReviews
<1> QED
  BY <1>1, <1>2, <1>3, <1>4, <1>5, <1>6 DEF AgentAction, Progress, Provided

LEMMA KeptStep ==
  ASSUME TypesOK, KeptOK, AgentAssumption, RuntimeAssumption, [Next]_vars
  PROVE  KeptOK'
<1>0. RunOK /\ run \in RunRecord
  BY DEF TypesOK, RunOK
<1>1. UNCHANGED run => KeptOK'
  BY DEF KeptOK
<1>2. CASE UNCHANGED vars \/ Client
  BY <1>1, <1>2 DEF Client, SendPrompt, SendRequest, SendAnswer, Send, vars, agent
<1>3. CASE Handlers
  <2>1. CASE HandleAnswer
    BY <2>1, KeptAgent DEF HandleAnswer, AgentAction
  <2>2. CASE ~HandleAnswer
    BY <1>1, <1>3, <2>2 DEF Handlers, HandlePrompt, HandleCancel, HandleSetMode, HandleConfig,
       HandleClose, HandleLoad, LoadBuilt, LoadFails, HandlerLocks, ConfigModelLocks,
       ConfigModelSaved, ConfigModelFails, agent
  <2> QED
    BY <2>1, <2>2
<1>4. ASSUME NEW place \in {"none", "gateway"}, run' = [NoRun EXCEPT !.at = place]
      PROVE  KeptOK'
  <2>1. run'.at = place /\ run'.ran = 0 /\ run'.visible = 0
    BY <1>4 DEF NoRun
  <2> QED
    BY <2>1 DEF KeptOK, Kept
<1>5. Release => KeptOK'
  <2>1. Release => run' = [NoRun EXCEPT !.at = "none"]
    BY DEF Release, NoRun
  <2> QED
    BY <1>4, <2>1
<1>6. CASE StartPrompt
  BY <1>1, <1>4, <1>6 DEF StartPrompt
<1>7. CASE GatewayRefused \/ StageFails \/ TurnSaved \/ TurnNotSaved
  BY <1>5, <1>7 DEF GatewayRefused, StageFails, TurnSaved, TurnNotSaved
<1>8. CASE GatewayReady
  <2>1. run.at = "gateway" /\ run' = [run EXCEPT !.at = "stage"]
    BY <1>8 DEF GatewayReady
  <2>2. run'.at = "stage" /\ run'.ran = run.ran /\ run'.visible = run.visible
    BY <1>0, <2>1 DEF RunRecord
  <2> QED
    BY <2>1, <2>2 DEF KeptOK, Kept
<1>9. CASE StageSaved
  <2> DEFINE prompts == {i \in DOMAIN session.history : session.history[i].role = "user"}
             prompt == User(Cardinality(prompts) + 1)
  <2>1. /\ session' = [session EXCEPT !.history = Append(@, prompt)] /\ run.at = "stage"
        /\ run' = [run EXCEPT !.at = "loop", !.messages = session'.history]
    BY <1>9 DEF StageSaved
  <2>2. session.history \in History
    BY SessionTypes DEF TypesOK
  <2>3. prompt \in MessageRecord /\ prompt.role = "user"
    BY <2>2, PromptType DEF User, Message
  <2> HIDE DEF prompt
  <2>4. session'.history = Append(session.history, prompt)
    BY <2>1 DEF TypesOK, DataOK, SessionRecord
  <2>5. \A of : SincePrompt(session'.history, of) = 0
    BY <2>2, <2>3, <2>4, SumAppend
  <2>6. /\ run'.at = "loop" /\ run'.messages = session'.history /\ run'.calls = run.calls
        /\ run'.outcomes = run.outcomes /\ run'.ran = run.ran /\ run'.visible = run.visible
    BY <1>0, <2>1 DEF RunRecord
  <2>7. run.ran = 0 /\ run.visible = 0 /\ run.calls = << >> /\ Len(run.calls) = 0
        /\ Len(run.outcomes) = 0
    <3>1. run.calls = << >> /\ Len(run.outcomes) <= Len(run.calls) /\ Len(run.outcomes) \in Nat
      BY <1>0, <2>1, RunTypes DEF RunOK
    <3> QED
      BY <2>1, <3>1 DEF KeptOK, Kept
  <2>8. RanIn(run.outcomes) = 0
    BY <2>7, RanInNone
  <2>9. Started(run') = 0 /\ Streamed(run') = 0
    BY <2>6 DEF Started, Streamed
  <2>10. RanKept(run') /\ TextKept(run') /\ CallsKept(run')
    BY <2>5, <2>6, <2>7, <2>8, <2>9 DEF RanKept, TextKept, CallsKept
  <2> QED
    BY <2>6, <2>10, MidstKept DEF Midst
<1>10. CASE TurnEnds
  <2>1. CASE Release
    BY <1>5, <2>1
  <2>2. CASE run' = [run EXCEPT !.at = "save"]
    <3>1. run'.at = "save"
      BY <1>0, <2>2 DEF RunRecord
    <3> QED
      BY <3>1 DEF KeptOK, Kept
  <2> QED
    BY <1>10, <2>1, <2>2 DEF TurnEnds
<1>11. CASE Agent \/ QuestionCloses
  BY <1>11, LoopTypes, KeptAgent
<1> QED
  BY <1>2, <1>3, <1>6, <1>7, <1>8, <1>9, <1>10, <1>11 DEF Next, Turn

\* Of a turn that came to an end without an error nothing is lost, wherever a
\* cancellation found it: each tool that ran has its result in the history; and
\* unless it was cancelled, all the text is there and no call is unanswered.
THEOREM Keeping == Spec => []TurnKept
<1> USE AgentAssumption, RuntimeAssumption
<1>1. Init => TypesOK /\ KeptOK
  <2> SUFFICES ASSUME Init
               PROVE  KeptOK
    BY InitTypes
  <2>1. run.at = "none"
    BY DEF Init, NoRun
  <2> QED
    BY <2>1 DEF KeptOK, Kept
<1>2. TypesOK /\ KeptOK /\ [Next]_vars => TypesOK' /\ KeptOK'
  BY NextTypes, KeptStep
<1>3. TypesOK /\ KeptOK => TurnKept
  <2> SUFFICES ASSUME TypesOK, KeptOK, run.at = "stop", run.stop # "error"
               PROVE  /\ SincePrompt(run.messages, "ran") = run.ran
                      /\ run.stop # "cancelled" =>
                           /\ SincePrompt(run.messages, "text") = run.visible
                           /\ SincePrompt(run.messages, "calls") = SincePrompt(run.messages, "results")
    BY DEF TurnKept
  <2>0. RunOK
    BY DEF TypesOK
  <2>1. /\ run.calls = << >> /\ RanKept(run)
        /\ run.stop # "cancelled" => TextKept(run) /\ CallsKept(run)
    BY DEF KeptOK, Kept, Ends
  <2>2. Started(run) = 0 /\ Streamed(run) = 0
    BY DEF Started, Streamed
  <2>3. Len(run.calls) = 0 /\ Len(run.outcomes) = 0
    BY <2>0, <2>1, RunTypes DEF RunOK
  <2>4. RanIn(run.outcomes) = 0
    BY <2>3, RanInNone
  <2>5. SincePrompt(run.messages, "ran") = run.ran
    BY <2>0, <2>1, <2>2, <2>4, RunSums DEF RanKept
  <2>6. run.stop # "cancelled" => SincePrompt(run.messages, "text") = run.visible
    BY <2>0, <2>1, <2>2, RunSums DEF TextKept
  <2>7. run.stop # "cancelled" =>
          SincePrompt(run.messages, "calls") = SincePrompt(run.messages, "results")
    BY <2>0, <2>1, <2>3, RunSums DEF CallsKept
  <2> QED
    BY <2>5, <2>6, <2>7
<1> QED
  BY <1>1, <1>2, <1>3, PTL DEF Spec
=============================================================================
