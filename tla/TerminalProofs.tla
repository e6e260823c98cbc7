--------------------------- MODULE TerminalProofs ---------------------------
(***************************************************************************)
(* Proofs about TerminalHost and the monitor set it stores, for any        *)
(* clients, definitions and bounds: the event log says what it lost, a     *)
(* monitor that has ended stays so, one past its lifetime is silent, a     *)
(* match reported is in the output and a quiet time reported was quiet.    *)
(***************************************************************************)
EXTENDS TerminalHost, SequenceTheorems, NaturalLemmas, TLAPS

-----------------------------------------------------------------------------
(* The inductive invariant: what a stored set is.  The events are those    *)
(* after the last one acknowledged or dropped, without a hole, and the     *)
(* monitors are in the order of their ids.                                 *)

Reasons == {"matched", "state_changed", "check", "interval", "expired", "session_exit",
            "updated", "paused", "resumed", "removed"}
Final == {"removed", "expired", "session_exit"}

Event == [id : Nat, monitor : Nat, reason : Reasons, lifecycle : Lives \cup {"lost"},
          cursor : Nat, at : Nat]

Members(q) == {q[i] : i \in 1 .. Len(q)}
Ids(q) == {q[i].id : i \in 1 .. Len(q)}
Dates(q) == {<<q[i].id, q[i].deadline>> : i \in 1 .. Len(q)}

MonitorOK(m) ==
  /\ m = [id |-> m.id, definition |-> m.definition, state |-> m.state,
          deadline |-> m.deadline, nextCheck |-> m.nextCheck, nextNotice |-> m.nextNotice,
          checks |-> m.checks, lastReason |-> m.lastReason, matched |-> m.matched,
          reached |-> m.reached]
  /\ m.id \in Nat
  /\ m.state \in {"active", "paused", "matched", "degraded"}
  /\ m.matched => m.state # "active"

\* A sequence of monitors: their ids grow, below next.
MonitorsOK(q, next) ==
  /\ q \in Seq(Members(q)) /\ Len(q) <= MaxMonitors
  /\ \A i \in 1 .. Len(q) : MonitorOK(q[i]) /\ q[i].id < next
  /\ \A i, j \in 1 .. Len(q) : i < j => q[i].id < q[j].id

\* The events are the newest that were recorded, next - Len(log) .. next - 1.
LogOK(log, next, acked, gap) ==
  /\ log \in Seq(Event) /\ Len(log) <= MaxEvents
  /\ \A i \in 1 .. Len(log) : log[i].id = next - 1 - Len(log) + i
  /\ acked <= next - 1 - Len(log) /\ gap <= next - 1 - Len(log)
  /\ next - 1 - Len(log) \in {acked, gap}

\* After its last event a monitor is no longer stored, but for the one that is going.
EndsOK(log, q, next, going) ==
  /\ \A e \in Members(log) : e.monitor < next
  /\ \A e \in Members(log) : e.reason \in Final =>
       /\ \A f \in Members(log) : f.monitor = e.monitor => f.id <= e.id
       /\ e.monitor \in Ids(q) => e.monitor \in going

SetRecord(s) ==
  /\ s = [nextMonitor |-> s.nextMonitor, nextEvent |-> s.nextEvent, gap |-> s.gap,
          acked |-> s.acked, cursor |-> s.cursor, last |-> s.last, monitors |-> s.monitors,
          events |-> s.events]
  /\ s.nextMonitor \in Nat \ {0} /\ s.nextEvent \in Nat \ {0}
  /\ s.gap \in Nat /\ s.acked \in Nat /\ s.cursor \in Nat

Keeps(s, going) ==
  /\ SetRecord(s)
  /\ MonitorsOK(s.monitors, s.nextMonitor)
  /\ LogOK(s.events, s.nextEvent, s.acked, s.gap)
  /\ EndsOK(s.events, s.monitors, s.nextMonitor, going)

SetOK(s) == Keeps(s, {})

ViewOK(view) == view.lifecycle \in Lives \cup {"lost"} /\ view.cursor \in Nat /\ view.now \in Nat

ObservationOK(obs) ==
  obs # None => obs.lifecycle \in Lives /\ obs.end \in Nat

ClientOK(k) ==
  /\ k.at \in {"idle", "started", "install", "operate", "remove", "end", "count", "flag"}
  /\ k.at \in {"started", "install"} => k.definitions \in Initial
  /\ k.at = "started" => k.installedAt \in Nat
  /\ k.at = "install" => ViewOK(k.view)
  /\ k.at = "operate" => k.op \in Operations /\ k.lifecycle \in Lives /\ k.cursor \in Nat
  /\ k.at = "flag" => k.found \in BOOLEAN

WorkerOK(w) ==
  /\ w.at \in {"wait", "observe", "evaluate", "count", "flag"}
  /\ w.at = "evaluate" => ObservationOK(w.obs)
  /\ w.at = "flag" => w.found \in BOOLEAN

HostOK ==
  /\ now \in 0 .. MaxTime
  /\ session \in [life : Lives, outcome : Outcomes \cup {None},
                  output : Seq([byte : Bytes, at : Nat])]
  /\ Total <= MaxOutput
  /\ present \in BOOLEAN
  /\ WorkerOK(worker)
  /\ client = [c \in Clients |-> client[c]]
  /\ \A c \in Clients : ClientOK(client[c])
  /\ host \in {"up", "down"}
  /\ crashes \in 0 .. MaxCrashes

IInv == HostOK /\ (set # None => SetOK(set))

-----------------------------------------------------------------------------
(* Sequences that lose, change or get an element.                          *)

\* Index i of q without its k-th element, in q.
Past(i, k) == IF i < k THEN i ELSE i + 1

LEMMA Removed ==
  ASSUME NEW S, NEW q \in Seq(S), NEW k \in 1 .. Len(q)
  PROVE  /\ RemoveAt(q, k) \in Seq(S) /\ Len(RemoveAt(q, k)) = Len(q) - 1
         /\ \A i \in 1 .. (Len(q) - 1) :
              RemoveAt(q, k)[i] = q[Past(i, k)] /\ Past(i, k) \in 1 .. Len(q) /\ Past(i, k) # k
<1> DEFINE a == SubSeq(q, 1, k - 1)
           b == SubSeq(q, k + 1, Len(q))
<1>1. Len(q) \in Nat /\ \A i \in 1 .. Len(q) : q[i] \in S
  BY LenProperties, ElementOfSeq
<1>2. /\ a \in Seq(S) /\ Len(a) = k - 1 /\ \A i \in 1 .. (k - 1) : a[i] = q[i]
  BY <1>1, SubSeqProperties
<1>3. /\ b \in Seq(S) /\ Len(b) = Len(q) - k /\ \A i \in 1 .. (Len(q) - k) : b[i] = q[k + i]
  BY <1>1, SubSeqProperties
<1>4. RemoveAt(q, k) = a \o b
  BY DEF RemoveAt
<1> HIDE DEF a, b
<1>5. /\ a \o b \in Seq(S) /\ Len(a \o b) = Len(q) - 1
      /\ \A i \in 1 .. (Len(q) - 1) : (a \o b)[i] = IF i <= k - 1 THEN a[i] ELSE b[i - (k - 1)]
  BY <1>1, <1>2, <1>3, ConcatProperties
<1>6. ASSUME NEW i \in 1 .. (Len(q) - 1)
      PROVE  (a \o b)[i] = q[Past(i, k)] /\ Past(i, k) \in 1 .. Len(q) /\ Past(i, k) # k
  <2>1. CASE i < k
    BY <1>1, <1>2, <1>5, <2>1 DEF Past
  <2>2. CASE ~(i < k)
    <3>1. i - (k - 1) \in 1 .. (Len(q) - k) /\ k + (i - (k - 1)) = i + 1 /\ ~(i <= k - 1)
      BY <1>1, <2>2
    <3>2. (a \o b)[i] = b[i - (k - 1)]
      BY <1>5, <3>1
    <3>3. b[i - (k - 1)] = q[i + 1]
      BY <1>3, <3>1
    <3> QED
      BY <1>1, <2>2, <3>2, <3>3 DEF Past
  <2> QED
    BY <2>1, <2>2
<1> QED
  BY <1>4, <1>5, <1>6

\* Every other element is still there.
LEMMA RemovedKeeps ==
  ASSUME NEW S, NEW q \in Seq(S), NEW k \in 1 .. Len(q), NEW j \in 1 .. Len(q), j # k
  PROVE  \E i \in 1 .. (Len(q) - 1) : RemoveAt(q, k)[i] = q[j]
<1>1. Len(q) \in Nat
  BY LenProperties
<1>2. \A i \in 1 .. (Len(q) - 1) : RemoveAt(q, k)[i] = q[Past(i, k)]
  BY Removed
<1>3. CASE j < k
  <2>1. j \in 1 .. (Len(q) - 1) /\ Past(j, k) = j
    BY <1>1, <1>3 DEF Past
  <2>2. RemoveAt(q, k)[j] = q[j]
    BY <1>2, <2>1, Zenon
  <2> QED
    BY <2>1, <2>2
<1>4. CASE ~(j < k)
  <2>1. j - 1 \in 1 .. (Len(q) - 1) /\ Past(j - 1, k) = j
    BY <1>1, <1>4 DEF Past
  <2>2. RemoveAt(q, k)[j - 1] = q[j]
    BY <1>2, <2>1, Zenon
  <2> QED
    BY <2>1, <2>2
<1> QED
  BY <1>3, <1>4

LEMMA MembersSeq ==
  ASSUME NEW S, NEW q \in Seq(S)
  PROVE  q \in Seq(Members(q)) /\ Len(q) \in Nat /\ DOMAIN q = 1 .. Len(q)
<1>1. Len(q) \in Nat /\ DOMAIN q = 1 .. Len(q) /\ q \in [1 .. Len(q) -> S]
  BY LenProperties
<1>2. q \in [1 .. Len(q) -> Members(q)]
  BY <1>1 DEF Members
<1> QED
  BY <1>1, <1>2, IsASeq, SeqDef

-----------------------------------------------------------------------------
(* The monitors of a set.                                                  *)

LEMMA MonitorsChange ==
  ASSUME NEW next \in Nat, NEW q, MonitorsOK(q, next), NEW k \in 1 .. Len(q),
         NEW new, MonitorOK(new), new.id = q[k].id
  PROVE  LET r == [q EXCEPT ![k] = new]
         IN  /\ MonitorsOK(r, next) /\ Len(r) = Len(q) /\ r[k] = new
             /\ \A i \in 1 .. Len(q) : i # k => r[i] = q[i]
             /\ Ids(r) = Ids(q)
             /\ new.deadline = q[k].deadline => Dates(r) = Dates(q)
<1> DEFINE r == [q EXCEPT ![k] = new]
<1>1. Len(q) \in Nat /\ DOMAIN q = 1 .. Len(q) /\ q \in [1 .. Len(q) -> Members(q)]
  BY LenProperties DEF MonitorsOK
<1>2. r[k] = new /\ \A i \in 1 .. Len(q) : i # k => r[i] = q[i]
  BY <1>1
<1>3. r \in [1 .. Len(q) -> Members(q) \cup {new}]
  BY <1>1
<1>4. r \in Seq(Members(q) \cup {new}) /\ Len(r) = Len(q)
  BY <1>1, <1>3, IsASeq, LenProperties
<1> HIDE DEF r
<1>5. r \in Seq(Members(r))
  BY <1>4, MembersSeq
<1>6. \A i \in 1 .. Len(r) : MonitorOK(r[i]) /\ r[i].id = q[i].id
  BY <1>2, <1>4 DEF MonitorsOK
<1>7. MonitorsOK(r, next)
  BY <1>4, <1>5, <1>6 DEF MonitorsOK
<1>8. \A i \in 1 .. Len(q) : r[i].id = q[i].id
  BY <1>4, <1>6
<1>9. Ids(r) = Ids(q)
  BY <1>4, <1>8 DEF Ids
<1>10. ASSUME new.deadline = q[k].deadline
       PROVE  Dates(r) = Dates(q)
  <2>1. \A i \in 1 .. Len(q) : <<r[i].id, r[i].deadline>> = <<q[i].id, q[i].deadline>>
    BY <1>2, <1>8, <1>10
  <2> QED
    BY <1>4, <2>1 DEF Dates
<1> QED
  BY <1>2, <1>4, <1>7, <1>9, <1>10 DEF r

\* r has monitors of q only, and none of them with this id.
Without(r, q, id) == \A m \in Members(r) : m \in Members(q) /\ m.id # id

LEMMA MonitorsRemove ==
  ASSUME NEW next \in Nat, NEW q, MonitorsOK(q, next), NEW k \in 1 .. Len(q)
  PROVE  LET r == RemoveAt(q, k)
         IN  /\ MonitorsOK(r, next) /\ Len(r) = Len(q) - 1
             /\ Ids(r) = Ids(q) \ {q[k].id} /\ Dates(r) \subseteq Dates(q)
             /\ Without(r, q, q[k].id)
<1> DEFINE r == RemoveAt(q, k)
<1>1. q \in Seq(Members(q)) /\ Len(q) \in Nat /\ Len(q) <= MaxMonitors
  BY LenProperties DEF MonitorsOK
<1>2. /\ r \in Seq(Members(q)) /\ Len(r) = Len(q) - 1
      /\ \A i \in 1 .. (Len(q) - 1) :
           r[i] = q[Past(i, k)] /\ Past(i, k) \in 1 .. Len(q) /\ Past(i, k) # k
  BY <1>1, Removed
<1>3. \A j \in 1 .. Len(q) : j # k => \E i \in 1 .. (Len(q) - 1) : r[i] = q[j]
  BY <1>1, RemovedKeeps
<1> HIDE DEF r
<1>4. r \in Seq(Members(r))
  BY <1>2, MembersSeq
<1>5. \A i, j \in 1 .. Len(q) : i < j => q[i].id < q[j].id
  BY DEF MonitorsOK
<1>6. \A i \in 1 .. Len(q) : q[i].id \in Nat /\ MonitorOK(q[i]) /\ q[i].id < next
  BY DEF MonitorsOK, MonitorOK
<1>7. \A i \in 1 .. Len(r) : MonitorOK(r[i]) /\ r[i].id < next
  BY <1>2, <1>6
<1>8. \A i, j \in 1 .. Len(r) : i < j => r[i].id < r[j].id
  <2>1. ASSUME NEW i \in 1 .. Len(r), NEW j \in 1 .. Len(r), i < j
        PROVE  r[i].id < r[j].id
    <3>1. Past(i, k) < Past(j, k)
      BY <1>1, <1>2, <2>1 DEF Past
    <3>2. q[Past(i, k)].id < q[Past(j, k)].id
      BY <1>2, <1>5, <3>1
    <3>3. r[i] = q[Past(i, k)] /\ r[j] = q[Past(j, k)]
      BY <1>2
    <3> QED
      BY <3>2, <3>3
  <2> QED
    BY <2>1
<1>9. MonitorsOK(r, next)
  <2>1. Len(r) <= MaxMonitors
    BY <1>1, <1>2, StoreAssumption
  <2> QED
    BY <1>4, <1>7, <1>8, <2>1 DEF MonitorsOK
<1>10. \A i \in 1 .. Len(q) : i # k => q[i].id # q[k].id
  BY <1>1, <1>5, <1>6
<1>11. \A i \in 1 .. Len(r) : r[i].id \in Ids(q) \ {q[k].id}
  BY <1>2, <1>10 DEF Ids
<1>12. \A j \in 1 .. Len(q) : q[j].id # q[k].id => q[j].id \in Ids(r)
  <2>1. ASSUME NEW j \in 1 .. Len(q), q[j].id # q[k].id
        PROVE  q[j].id \in Ids(r)
    <3>1. PICK i \in 1 .. (Len(q) - 1) : r[i] = q[j]
      BY <1>3, <2>1
    <3> QED
      BY <1>2, <3>1 DEF Ids
  <2> QED
    BY <2>1
<1>13. Ids(r) = Ids(q) \ {q[k].id}
  BY <1>11, <1>12 DEF Ids
<1>14. Dates(r) \subseteq Dates(q)
  BY <1>2 DEF Dates
<1>15. Without(r, q, q[k].id)
  <2>1. ASSUME NEW i \in 1 .. Len(r)
        PROVE  r[i] \in Members(q) /\ r[i].id # q[k].id
    <3>1. r[i] = q[Past(i, k)] /\ Past(i, k) \in 1 .. Len(q) /\ Past(i, k) # k
      BY <1>2
    <3> QED
      BY <1>10, <3>1 DEF Members
  <2> QED
    BY <2>1 DEF Members, Without
<1> QED
  BY <1>2, <1>9, <1>13, <1>14, <1>15 DEF r

LEMMA MonitorsAdd ==
  ASSUME NEW next \in Nat, NEW q, MonitorsOK(q, next), Len(q) < MaxMonitors,
         NEW new, MonitorOK(new), new.id = next
  PROVE  LET r == Append(q, new)
         IN  /\ MonitorsOK(r, next + 1)
             /\ Ids(r) = Ids(q) \cup {next}
<1> DEFINE r == Append(q, new)
           S == Members(q) \cup {new}
<1>1. Len(q) \in Nat /\ q \in Seq(S)
  <2>1. Members(q) \subseteq S
    OBVIOUS
  <2>2. q \in Seq(Members(q))
    BY DEF MonitorsOK
  <2> QED
    BY <2>1, <2>2, SeqMonotonic, LenProperties
<1>2. /\ r \in Seq(S) /\ Len(r) = Len(q) + 1 /\ r[Len(q) + 1] = new
      /\ \A i \in 1 .. Len(q) : r[i] = q[i]
  BY <1>1, AppendProperties
<1> HIDE DEF r, S
<1>3. r \in Seq(Members(r))
  BY <1>2, MembersSeq
<1>4. \A i \in 1 .. Len(q) : q[i].id \in Nat /\ MonitorOK(q[i]) /\ q[i].id < next
  BY DEF MonitorsOK, MonitorOK
<1>5. \A i \in 1 .. Len(r) : (i \in 1 .. Len(q) /\ r[i] = q[i]) \/ (i = Len(q) + 1 /\ r[i] = new)
  BY <1>1, <1>2
<1>6. \A i \in 1 .. Len(r) : MonitorOK(r[i]) /\ r[i].id < next + 1
  BY <1>4, <1>5
<1>7. \A i, j \in 1 .. Len(q) : i < j => q[i].id < q[j].id
  BY DEF MonitorsOK
<1>8. \A i, j \in 1 .. Len(r) : i < j => r[i].id < r[j].id
  <2>1. ASSUME NEW i \in 1 .. Len(r), NEW j \in 1 .. Len(r), i < j
        PROVE  r[i].id < r[j].id
    <3>1. i \in 1 .. Len(q) /\ r[i] = q[i]
      BY <1>1, <1>2, <2>1
    <3>2. CASE j \in 1 .. Len(q)
      BY <1>2, <1>7, <2>1, <3>1, <3>2
    <3>3. CASE j = Len(q) + 1
      BY <1>2, <1>4, <3>1, <3>3
    <3> QED
      BY <1>5, <3>2, <3>3
  <2> QED
    BY <2>1
<1>9. MonitorsOK(r, next + 1)
  <2>1. Len(r) <= MaxMonitors
    BY <1>1, <1>2, StoreAssumption
  <2> QED
    BY <1>3, <1>6, <1>8, <2>1 DEF MonitorsOK
<1>10. \A i \in 1 .. Len(q) : r[i].id = q[i].id /\ i \in 1 .. Len(r)
  BY <1>1, <1>2
<1>11. Len(q) + 1 \in 1 .. Len(r) /\ r[Len(q) + 1].id = next
  BY <1>1, <1>2
<1>12. Ids(r) = Ids(q) \cup {next}
  BY <1>5, <1>10, <1>11 DEF Ids
<1> QED
  BY <1>9, <1>12 DEF r

-----------------------------------------------------------------------------
(* The event log.                                                          *)

LEMMA LogPush ==
  ASSUME NEW s, SetRecord(s), LogOK(s.events, s.nextEvent, s.acked, s.gap),
         NEW e \in Event, e.id = s.nextEvent
  PROVE  LET long == Append(s.events, e)
             full == Len(long) > MaxEvents
             new == IF full THEN Tail(long) ELSE long
             gap2 == IF full /\ Head(long).id > s.gap THEN Head(long).id ELSE s.gap
         IN  /\ LogOK(new, s.nextEvent + 1, s.acked, gap2) /\ gap2 \in Nat
             /\ \A f \in Members(new) : f \in Members(s.events) \/ f = e
             /\ \A f \in Members(s.events) : f.id < s.nextEvent
<1> DEFINE log == s.events
           next == s.nextEvent
           acked == s.acked
           gap == s.gap
<1>0. /\ next \in Nat \ {0} /\ acked \in Nat /\ gap \in Nat
      /\ LogOK(log, next, acked, gap) /\ e.id = next
  BY DEF SetRecord
<1> HIDE DEF log, next, acked, gap
<1> DEFINE long == Append(log, e)
           full == Len(long) > MaxEvents
           new == IF full THEN Tail(long) ELSE long
           gap2 == IF full /\ Head(long).id > gap THEN Head(long).id ELSE gap
           n == Len(log)
<1>1. n \in Nat /\ log \in Seq(Event) /\ n <= MaxEvents /\ MaxEvents \in Nat
  BY <1>0, LenProperties, StoreAssumption DEF LogOK
<1>2. /\ long \in Seq(Event) /\ Len(long) = n + 1 /\ long # << >> /\ long[n + 1] = e
      /\ \A i \in 1 .. n : long[i] = log[i]
  BY <1>0, <1>1, AppendProperties
<1>3. Head(long) = long[1] /\ 1 \in 1 .. (n + 1)
  BY <1>0, <1>1, <1>2
<1>4. /\ Tail(long) \in Seq(Event) /\ Len(Tail(long)) = n
      /\ \A i \in 1 .. n : Tail(long)[i] = long[i + 1]
  BY <1>0, <1>1, <1>2, HeadTailProperties
<1>5. \A i \in 1 .. (n + 1) : long[i].id = next - 1 - n + i
  <2>1. \A i \in 1 .. n : log[i].id = next - 1 - n + i
    BY <1>0 DEF LogOK
  <2>2. \A i \in 1 .. (n + 1) : i \in 1 .. n \/ i = n + 1
    BY <1>0, <1>1
  <2>3. next - 1 - n + (n + 1) = next
    BY <1>0, <1>1
  <2> QED
    BY <1>0, <1>2, <2>1, <2>2, <2>3
<1>6. acked <= next - 1 - n /\ gap <= next - 1 - n /\ next - 1 - n \in {acked, gap}
  BY <1>0 DEF LogOK
<1>7. Head(long).id = next - n
  BY <1>0, <1>1, <1>3, <1>5
<1> HIDE DEF long
<1> DEFINE Goal == /\ LogOK(new, next + 1, acked, gap2) /\ gap2 \in Nat
                   /\ \A f \in Members(new) : f \in Members(log) \/ f = e
<1>8. ASSUME full
      PROVE  Goal
  <2>1. new = Tail(long) /\ gap2 = next - n /\ gap2 \in Nat /\ n = MaxEvents
    BY <1>0, <1>1, <1>2, <1>6, <1>7, <1>8
  <2>2. \A i \in 1 .. n : new[i].id = (next + 1) - 1 - n + i
    BY <1>0, <1>1, <1>4, <1>5, <2>1
  <2>3. LogOK(new, next + 1, acked, gap2)
    <3>1. /\ acked <= (next + 1) - 1 - n /\ gap2 <= (next + 1) - 1 - n
          /\ (next + 1) - 1 - n = gap2
      BY <1>0, <1>1, <1>6, <2>1
    <3>2. new \in Seq(Event) /\ Len(new) = n
      BY <1>0, <1>4, <2>1
    <3> HIDE DEF new, gap2
    <3> QED
      BY <1>0, <1>1, <2>2, <3>1, <3>2 DEF LogOK
  <2>4. \A i \in 1 .. n : new[i] = long[i + 1] /\ i + 1 \in 1 .. (n + 1)
    <3>1. \A i \in 1 .. n : i + 1 \in 1 .. (n + 1)
      BY <1>0, <1>1
    <3> QED
      BY <1>0, <1>4, <2>1, <3>1
  <2>5. \A f \in Members(new) : f \in Members(log) \/ f = e
    BY <1>0, <1>1, <1>2, <1>4, <2>1, <2>4 DEF Members
  <2> QED
    BY <1>0, <2>1, <2>3, <2>5
<1>9. ASSUME ~full
      PROVE  Goal
  <2>1. new = long /\ gap2 = gap /\ n + 1 <= MaxEvents
    BY <1>0, <1>1, <1>2, <1>9
  <2>2. \A i \in 1 .. (n + 1) : new[i].id = (next + 1) - 1 - (n + 1) + i
    BY <1>0, <1>1, <1>5, <2>1
  <2>3. LogOK(new, next + 1, acked, gap2)
    <3>1. (next + 1) - 1 - (n + 1) = next - 1 - n
      BY <1>0, <1>1
    <3> QED
      BY <1>0, <1>1, <1>2, <1>6, <2>1, <2>2, <3>1 DEF LogOK
  <2>4. \A f \in Members(new) : f \in Members(log) \/ f = e
    BY <1>0, <1>1, <1>2, <2>1 DEF Members
  <2> QED
    BY <1>0, <2>1, <2>3, <2>4
<1>10. \A f \in Members(log) : f.id < next
  <2>1. \A i \in 1 .. n : log[i].id = next - 1 - n + i
    BY <1>0 DEF LogOK
  <2> QED
    BY <1>0, <1>1, <2>1 DEF Members
<1> QED
  BY <1>0, <1>8, <1>9, <1>10 DEF long, log, next, acked, gap

\* inspect with acknowledge_event_id: the events after id, one by one.
IsKept(f, log, id, n) ==
  f = [k \in 0 .. n |->
         IF k = 0 THEN << >>
         ELSE IF log[k].id > id THEN Append(f[k - 1], log[k]) ELSE f[k - 1]]

LEMMA KeptExists ==
  ASSUME NEW log, NEW id, NEW n \in Nat
  PROVE  \E f : IsKept(f, log, id, n)
<1> DEFINE T == {j \in Nat : \E f : IsKept(f, log, id, j)}
<1>1. 0 \in T
  <2> DEFINE f == [k \in 0 .. 0 |-> << >>]
  <2>1. IsKept(f, log, id, 0)
    BY DEF IsKept
  <2> QED
    BY <2>1
<1>2. ASSUME NEW j \in T
      PROVE  j + 1 \in T
  <2>1. PICK f : IsKept(f, log, id, j)
    OBVIOUS
  <2>2. j \in Nat
    OBVIOUS
  <2> DEFINE next(k, s) == IF log[k].id > id THEN Append(s, log[k]) ELSE s
             g == [k \in 0 .. (j + 1) |-> IF k <= j THEN f[k] ELSE next(k, f[k - 1])]
             G == [k \in 0 .. (j + 1) |-> IF k = 0 THEN << >> ELSE next(k, g[k - 1])]
  <2>3. \A k \in 0 .. j : f[k] = IF k = 0 THEN << >> ELSE next(k, f[k - 1])
    BY <2>1 DEF IsKept
  <2>4. G = [k \in 0 .. (j + 1) |->
               IF k = 0 THEN << >>
               ELSE IF log[k].id > id THEN Append(g[k - 1], log[k]) ELSE g[k - 1]]
    OBVIOUS
  <2> HIDE DEF next
  <2>5. ASSUME NEW k \in 0 .. (j + 1)
        PROVE  g[k] = G[k]
    <3>1. CASE k = 0
      BY <2>2, <2>3, <3>1
    <3>2. CASE k \in 1 .. j
      <4>1. k - 1 \in 0 .. (j + 1) /\ k \in 0 .. j /\ k <= j /\ k # 0 /\ k - 1 <= j
        BY <2>2, <3>2
      <4> QED
        BY <4>1, <2>3
    <3>3. CASE k = j + 1
      <4>1. k - 1 = j /\ ~(k <= j) /\ k # 0 /\ j <= j /\ j \in 0 .. (j + 1)
        BY <2>2, <3>3
      <4> QED
        BY <4>1
    <3> QED
      BY <2>2, <3>1, <3>2, <3>3
  <2>6. g = G
    BY <2>5
  <2>7. IsKept(g, log, id, j + 1)
    BY <2>4, <2>6 DEF IsKept
  <2> QED
    BY <2>2, <2>7
<1>3. T = Nat
  <2> HIDE DEF T
  <2>1. T \in SUBSET Nat
    BY DEF T
  <2> QED
    BY <1>1, <1>2, <2>1, SetInduction
<1> QED
  BY <1>3

\* It drops as many as are not after id.
LEMMA KeptFrom ==
  ASSUME NEW log \in Seq(Event), NEW id, NEW f, IsKept(f, log, id, Len(log)),
         NEW d \in 0 .. Len(log), \A k \in 1 .. Len(log) : log[k].id > id <=> k > d
  PROVE  /\ f[Len(log)] \in Seq(Event) /\ Len(f[Len(log)]) = Len(log) - d
         /\ \A j \in 1 .. (Len(log) - d) : f[Len(log)][j] = log[d + j]
<1> DEFINE n == Len(log)
           Right(k) == /\ f[k] \in Seq(Event) /\ Len(f[k]) = IF k <= d THEN 0 ELSE k - d
                       /\ \A j \in 1 .. (k - d) : f[k][j] = log[d + j]
           T == {k \in Nat : k <= n => Right(k)}
<1>0. n \in Nat /\ d \in Nat
  BY LenProperties
<1>1. 0 \in T
  <2>1. f[0] = << >>
    BY <1>0 DEF IsKept
  <2>2. f[0] \in Seq(Event) /\ Len(f[0]) = 0
    BY <2>1, EmptySeq
  <2>3. 0 <= d /\ \A j \in 1 .. (0 - d) : FALSE
    BY <1>0
  <2>4. Right(0)
    BY <2>2, <2>3
  <2> QED
    BY <2>4
<1>2. ASSUME NEW k \in T
      PROVE  k + 1 \in T
  <2>1. CASE k < n
    <3>1. k \in Nat /\ k <= n /\ k + 1 \in 1 .. n /\ k + 1 \in 0 .. n /\ k + 1 # 0 /\ (k + 1) - 1 = k
      BY <1>0, <2>1
    <3>2. Right(k)
      BY <3>1
    <3>3. f[k + 1] = IF log[k + 1].id > id THEN Append(f[k], log[k + 1]) ELSE f[k]
      <4>1. \A i \in 0 .. n : i # 0 =>
              f[i] = IF log[i].id > id THEN Append(f[i - 1], log[i]) ELSE f[i - 1]
        BY DEF IsKept
      <4>2. f[k + 1] = IF log[k + 1].id > id THEN Append(f[(k + 1) - 1], log[k + 1])
                       ELSE f[(k + 1) - 1]
        BY <3>1, <4>1, Zenon
      <4> QED
        BY <3>1, <4>2
    <3>4. CASE k + 1 <= d
      <4>1. f[k + 1] = f[k] /\ k <= d
        BY <1>0, <3>1, <3>3, <3>4
      <4> QED
        BY <1>0, <3>1, <3>2, <3>4, <4>1
    <3>5. CASE ~(k + 1 <= d)
      <4>1. log[k + 1] \in Event /\ f[k + 1] = Append(f[k], log[k + 1]) /\ Len(f[k]) = k - d
        BY <1>0, <3>1, <3>2, <3>3, <3>5, ElementOfSeq
      <4>2. /\ Append(f[k], log[k + 1]) \in Seq(Event)
            /\ Len(Append(f[k], log[k + 1])) = (k - d) + 1
            /\ \A j \in 1 .. (k - d) : Append(f[k], log[k + 1])[j] = f[k][j]
            /\ Append(f[k], log[k + 1])[(k - d) + 1] = log[k + 1]
        BY <3>2, <4>1, AppendProperties
      <4>3. \A j \in 1 .. (k - d) : f[k + 1][j] = log[d + j]
        BY <3>2, <4>1, <4>2
      <4>4. f[k + 1][(k - d) + 1] = log[d + ((k - d) + 1)]
        <5>1. d + ((k - d) + 1) = k + 1
          BY <1>0, <3>1
        <5> QED
          BY <4>1, <4>2, <5>1
      <4>5. \A j \in 1 .. ((k + 1) - d) : j \in 1 .. (k - d) \/ j = (k - d) + 1
        BY <1>0, <3>1, <3>5
      <4>6. \A j \in 1 .. ((k + 1) - d) : f[k + 1][j] = log[d + j]
        BY <4>3, <4>4, <4>5
      <4>7. Len(f[k + 1]) = (k + 1) - d /\ f[k + 1] \in Seq(Event)
        BY <1>0, <3>1, <4>1, <4>2
      <4> QED
        BY <3>1, <3>5, <4>6, <4>7
    <3> QED
      BY <3>4, <3>5
  <2>2. CASE ~(k < n)
    <3>1. k \in Nat /\ ~(k + 1 <= n)
      BY <1>0, <2>2
    <3> QED
      BY <3>1
  <2> QED
    BY <2>1, <2>2
<1>3. T = Nat
  <2>1. T \in SUBSET Nat
    OBVIOUS
  <2> HIDE DEF T
  <2> QED
    BY <1>1, <1>2, <2>1, SetInduction
<1>4. Right(n)
  <2>1. n \in T /\ n <= n
    BY <1>0, <1>3
  <2> QED
    BY <2>1
<1> QED
  BY <1>0, <1>4

LEMMA LogAcknowledged ==
  ASSUME NEW next \in Nat \ {0}, NEW acked \in Nat, NEW gap \in Nat, NEW log,
         LogOK(log, next, acked, gap), NEW id \in 1 .. (next - 1),
         NEW f, IsKept(f, log, id, Len(log))
  PROVE  /\ LogOK(f[Len(log)], next, IF id > acked THEN id ELSE acked, gap)
         /\ \A e \in Members(f[Len(log)]) : e \in Members(log)
<1> DEFINE n == Len(log)
           base == next - 1 - n
           d == IF id <= base THEN 0 ELSE id - base
           new == f[n]
           acked2 == IF id > acked THEN id ELSE acked
<1>1. n \in Nat /\ log \in Seq(Event) /\ n <= MaxEvents
  BY LenProperties DEF LogOK
<1>2. base \in Nat /\ acked <= base /\ gap <= base /\ base \in {acked, gap} /\ next - 1 = base + n
  BY <1>1 DEF LogOK
<1>3. \A k \in 1 .. n : log[k].id = base + k
  BY DEF LogOK
<1> HIDE DEF base
<1>4. d \in 0 .. n /\ d \in Nat /\ \A k \in 1 .. n : log[k].id > id <=> k > d
  BY <1>1, <1>2, <1>3
<1>5. /\ new \in Seq(Event) /\ Len(new) = n - d
      /\ \A j \in 1 .. (n - d) : new[j] = log[d + j]
  <2> HIDE DEF d
  <2> QED
    BY <1>1, <1>4, KeptFrom
<1>6. \A j \in 1 .. (n - d) : d + j \in 1 .. n
  BY <1>1, <1>4
<1>7. /\ next - 1 - (n - d) = base + d
      /\ acked2 <= base + d /\ gap <= base + d /\ base + d \in {acked2, gap}
  BY <1>1, <1>2, <1>4
<1>8. n - d <= MaxEvents
  BY <1>1, <1>4, StoreAssumption
<1>9. \A j \in 1 .. (n - d) : new[j].id = (base + d) + j
  <2>1. ASSUME NEW j \in 1 .. (n - d)
        PROVE  new[j].id = (base + d) + j
    <3>1. new[j].id = base + (d + j)
      BY <1>3, <1>5, <1>6
    <3> QED
      BY <1>2, <1>4, <3>1
  <2> QED
    BY <2>1
<1> HIDE DEF d, new, acked2
<1>10. LogOK(new, next, acked2, gap)
  BY <1>5, <1>7, <1>8, <1>9 DEF LogOK
<1>11. \A e \in Members(new) : e \in Members(log)
  BY <1>5, <1>6 DEF Members
<1> QED
  BY <1>10, <1>11 DEF new, acked2

-----------------------------------------------------------------------------
(* What is done to a set.                                                  *)

\* A set with other monitors, events, counters or lifecycle.
LEMMA SetChanges ==
  ASSUME NEW s, SetRecord(s), NEW x
  PROVE  /\ [s EXCEPT !.monitors = x] =
              [nextMonitor |-> s.nextMonitor, nextEvent |-> s.nextEvent, gap |-> s.gap,
               acked |-> s.acked, cursor |-> s.cursor, last |-> s.last, monitors |-> x,
               events |-> s.events]
         /\ [s EXCEPT !.last = x] =
              [nextMonitor |-> s.nextMonitor, nextEvent |-> s.nextEvent, gap |-> s.gap,
               acked |-> s.acked, cursor |-> s.cursor, last |-> x, monitors |-> s.monitors,
               events |-> s.events]
         /\ [s EXCEPT !.cursor = x] =
              [nextMonitor |-> s.nextMonitor, nextEvent |-> s.nextEvent, gap |-> s.gap,
               acked |-> s.acked, cursor |-> x, last |-> s.last, monitors |-> s.monitors,
               events |-> s.events]
BY DEF SetRecord

\* Monitors that differ in what they were last told, at most.
Alike(n, m) ==
  /\ n.id = m.id /\ n.definition = m.definition /\ n.state = m.state
  /\ n.nextCheck = m.nextCheck /\ n.matched = m.matched /\ n.reached = m.reached

\* r has the monitors of s, but for the i-th.
Others(s, i, r) == \A j \in 1 .. Len(s.monitors) : j # i => r.monitors[j] = s.monitors[j]

LEMMA MonitorTold ==
  ASSUME NEW m, MonitorOK(m), NEW reason
  PROVE  LET n == [m EXCEPT !.lastReason = reason]
         IN  MonitorOK(n) /\ n.id = m.id /\ n.deadline = m.deadline /\ Alike(n, m)
BY DEF MonitorOK, Alike

\* What PushEvent makes of a set.
LEMMA Pushing ==
  ASSUME NEW s, SetRecord(s), NEW i, NEW reason, NEW view
  PROVE  LET event == [id |-> s.nextEvent, monitor |-> s.monitors[i].id, reason |-> reason,
                       lifecycle |-> view.lifecycle, cursor |-> view.cursor, at |-> view.now]
             long == Append(s.events, event)
             full == Len(long) > MaxEvents
         IN  PushEvent(s, i, reason, view) =
               [nextMonitor |-> s.nextMonitor, nextEvent |-> s.nextEvent + 1,
                gap |-> IF full /\ Head(long).id > s.gap THEN Head(long).id ELSE s.gap,
                acked |-> s.acked, cursor |-> s.cursor, last |-> s.last,
                monitors |-> [s.monitors EXCEPT ![i] = [s.monitors[i] EXCEPT !.lastReason = reason]],
                events |-> IF full THEN Tail(long) ELSE long]
<1> DEFINE event == [id |-> s.nextEvent, monitor |-> s.monitors[i].id, reason |-> reason,
                     lifecycle |-> view.lifecycle, cursor |-> view.cursor, at |-> view.now]
           long == Append(s.events, event)
           full == Len(long) > MaxEvents
           log == IF full THEN Tail(long) ELSE long
           gap == IF full /\ Head(long).id > s.gap THEN Head(long).id ELSE s.gap
           n == s.nextEvent + 1
           q == [s.monitors EXCEPT ![i] = [s.monitors[i] EXCEPT !.lastReason = reason]]
<1>1. PushEvent(s, i, reason, view) =
        [s EXCEPT !.nextEvent = n, !.monitors = q, !.events = log, !.gap = gap]
  BY DEF PushEvent
<1> HIDE DEF n, q, log, gap
<1>2. [s EXCEPT !.nextEvent = n, !.monitors = q, !.events = log, !.gap = gap] =
        [nextMonitor |-> s.nextMonitor, nextEvent |-> n, gap |-> gap, acked |-> s.acked,
         cursor |-> s.cursor, last |-> s.last, monitors |-> q, events |-> log]
  <2> DEFINE names == {"nextMonitor", "nextEvent", "gap", "acked", "cursor", "last",
                       "monitors", "events"}
             r == [s EXCEPT !.nextEvent = n, !.monitors = q, !.events = log, !.gap = gap]
  <2>1. DOMAIN s = names
    BY DEF SetRecord
  <2>2. r = [x \in names |-> r[x]]
    BY <2>1
  <2>3. /\ r.nextMonitor = s.nextMonitor /\ r.nextEvent = n /\ r.gap = gap
        /\ r.acked = s.acked /\ r.cursor = s.cursor /\ r.last = s.last
        /\ r.monitors = q /\ r.events = log
    BY <2>1
  <2> HIDE DEF r
  <2>4. r = [nextMonitor |-> s.nextMonitor, nextEvent |-> n, gap |-> gap, acked |-> s.acked,
             cursor |-> s.cursor, last |-> s.last, monitors |-> q, events |-> log]
    BY <2>2, <2>3
  <2> QED
    BY <2>4 DEF r
<1>3. PushEvent(s, i, reason, view) =
        [nextMonitor |-> s.nextMonitor, nextEvent |-> n, gap |-> gap, acked |-> s.acked,
         cursor |-> s.cursor, last |-> s.last, monitors |-> q, events |-> log]
  BY <1>1, <1>2
<1> QED
  BY <1>3, Zenon DEF n, q, log, gap

\* An event of monitor i of s has been recorded in r.
Records(s, i, reason, view, r) ==
  /\ r.nextMonitor = s.nextMonitor /\ r.nextEvent = s.nextEvent + 1
  /\ r.last = s.last /\ r.cursor = s.cursor
  /\ Len(r.monitors) = Len(s.monitors) /\ r.monitors[i].id = s.monitors[i].id
  /\ Others(s, i, r) /\ Alike(r.monitors[i], s.monitors[i])
  /\ Ids(r.monitors) = Ids(s.monitors) /\ Dates(r.monitors) = Dates(s.monitors)
  /\ \A e \in Members(r.events) :
       \/ e \in Members(s.events)
       \/ /\ e.id = s.nextEvent /\ e.monitor = s.monitors[i].id
          /\ e.reason = reason /\ e.cursor = view.cursor /\ e.at = view.now

LEMMA Pushed ==
  ASSUME NEW s, SetOK(s), NEW i \in 1 .. Len(s.monitors), NEW reason \in Reasons,
         NEW view, ViewOK(view), NEW going, reason \in Final => s.monitors[i].id \in going
  PROVE  /\ Keeps(PushEvent(s, i, reason, view), going)
         /\ Records(s, i, reason, view, PushEvent(s, i, reason, view))
<1> DEFINE m == s.monitors[i]
           event == [id |-> s.nextEvent, monitor |-> m.id, reason |-> reason,
                     lifecycle |-> view.lifecycle, cursor |-> view.cursor, at |-> view.now]
           long == Append(s.events, event)
           full == Len(long) > MaxEvents
           log == IF full THEN Tail(long) ELSE long
           gap == IF full /\ Head(long).id > s.gap THEN Head(long).id ELSE s.gap
           told == [m EXCEPT !.lastReason = reason]
           q == [s.monitors EXCEPT ![i] = told]
           r == PushEvent(s, i, reason, view)
           next == s.nextEvent + 1
<1>1. /\ SetRecord(s) /\ MonitorsOK(s.monitors, s.nextMonitor)
      /\ LogOK(s.events, s.nextEvent, s.acked, s.gap)
      /\ EndsOK(s.events, s.monitors, s.nextMonitor, {})
  BY DEF SetOK, Keeps
<1>2. /\ s.nextMonitor \in Nat \ {0} /\ s.nextEvent \in Nat \ {0}
      /\ s.gap \in Nat /\ s.acked \in Nat /\ s.cursor \in Nat
  BY <1>1 DEF SetRecord
<1>3. MonitorOK(m) /\ m.id \in Nat /\ m.id < s.nextMonitor /\ m.id \in Ids(s.monitors)
  BY <1>1 DEF MonitorsOK, MonitorOK, Ids
<1>4. event \in Event /\ event.id = s.nextEvent /\ event.monitor = m.id
      /\ event.reason = reason /\ event.cursor = view.cursor /\ event.at = view.now
  BY <1>2, <1>3 DEF Event, ViewOK
<1>5. r = [nextMonitor |-> s.nextMonitor, nextEvent |-> next, gap |-> gap, acked |-> s.acked,
           cursor |-> s.cursor, last |-> s.last, monitors |-> q, events |-> log]
  BY <1>1, Pushing
<1>6. MonitorOK(told) /\ told.id = m.id /\ told.deadline = m.deadline /\ Alike(told, m)
  BY <1>3, MonitorTold
<1> HIDE DEF event
<1>7. /\ LogOK(log, next, s.acked, gap) /\ gap \in Nat
      /\ \A f \in Members(log) : f \in Members(s.events) \/ f = event
      /\ \A f \in Members(s.events) : f.id < s.nextEvent
  BY <1>1, <1>2, <1>4, LogPush
<1> HIDE DEF told
<1>8. /\ MonitorsOK(q, s.nextMonitor) /\ Len(q) = Len(s.monitors) /\ q[i] = told
      /\ Ids(q) = Ids(s.monitors) /\ Dates(q) = Dates(s.monitors)
      /\ \A j \in 1 .. Len(s.monitors) : j # i => q[j] = s.monitors[j]
  BY <1>1, <1>2, <1>6, MonitorsChange
<1> HIDE DEF log, gap, q, next, m, r
<1>9. EndsOK(log, q, s.nextMonitor, going)
  <2>1. \A e \in Members(log) : e.monitor < s.nextMonitor
    BY <1>1, <1>3, <1>4, <1>7 DEF EndsOK
  <2>2. ASSUME NEW e \in Members(log), e.reason \in Final
        PROVE  /\ \A f \in Members(log) : f.monitor = e.monitor => f.id <= e.id
               /\ e.monitor \in Ids(q) => e.monitor \in going
    <3>1. CASE e \in Members(s.events)
      <4>1. e.monitor \notin Ids(s.monitors)
        BY <1>1, <2>2, <3>1 DEF EndsOK
      <4>2. \A f \in Members(s.events) : f.monitor = e.monitor => f.id <= e.id
        BY <1>1, <2>2, <3>1 DEF EndsOK
      <4> QED
        BY <1>3, <1>4, <1>7, <1>8, <4>1, <4>2
    <3>2. CASE e = event
      <4>1. m.id \in going
        BY <1>4, <2>2, <3>2 DEF m
      <4>2. s.nextEvent \in Nat /\ \A f \in Members(s.events) : f.id \in Nat
        <5>1. s.events \in Seq(Event)
          BY <1>1 DEF LogOK
        <5>2. \A f \in Members(s.events) : f \in Event
          BY <5>1, ElementOfSeq DEF Members
        <5> QED
          BY <1>2, <5>2 DEF Event
      <4>3. \A f \in Members(log) : f.id <= s.nextEvent
        BY <1>4, <1>7, <4>2
      <4> QED
        BY <1>4, <3>2, <4>1, <4>3
    <3> QED
      BY <1>7, <2>2, <3>1, <3>2
  <2> QED
    BY <2>1, <2>2 DEF EndsOK
<1>10. next \in Nat \ {0} /\ next = s.nextEvent + 1
  BY <1>2 DEF next
<1>11. /\ SetRecord(r)
       /\ r.nextMonitor = s.nextMonitor /\ r.nextEvent = next /\ r.gap = gap
       /\ r.acked = s.acked /\ r.cursor = s.cursor /\ r.last = s.last
       /\ r.monitors = q /\ r.events = log
  <2>1. /\ r.nextMonitor = s.nextMonitor /\ r.nextEvent = next /\ r.gap = gap
        /\ r.acked = s.acked /\ r.cursor = s.cursor /\ r.last = s.last
        /\ r.monitors = q /\ r.events = log
    BY <1>5
  <2> QED
    BY <1>2, <1>5, <1>7, <1>10, <2>1 DEF SetRecord
<1>12. Keeps(r, going)
  BY <1>7, <1>8, <1>9, <1>11 DEF Keeps
<1>13. r.monitors[i].id = m.id /\ Others(s, i, r) /\ Alike(r.monitors[i], m)
  BY <1>6, <1>8, <1>11 DEF Others
<1>14. \A e \in Members(r.events) :
         \/ e \in Members(s.events)
         \/ /\ e.id = s.nextEvent /\ e.monitor = m.id /\ e.reason = reason
            /\ e.cursor = view.cursor /\ e.at = view.now
  BY <1>4, <1>7, <1>11
<1> QED
  BY <1>8, <1>10, <1>11, <1>12, <1>13, <1>14 DEF r, m, Records

\* A monitor is replaced by one of its id.
Replaces(s, i, new, r) ==
  /\ r.nextMonitor = s.nextMonitor /\ r.nextEvent = s.nextEvent
  /\ r.last = s.last /\ r.cursor = s.cursor /\ r.events = s.events
  /\ Len(r.monitors) = Len(s.monitors) /\ r.monitors[i] = new
  /\ Others(s, i, r) /\ Ids(r.monitors) = Ids(s.monitors)
  /\ new.deadline = s.monitors[i].deadline => Dates(r.monitors) = Dates(s.monitors)

LEMMA Replaced ==
  ASSUME NEW s, SetOK(s), NEW i \in 1 .. Len(s.monitors), NEW new, MonitorOK(new),
         new.id = s.monitors[i].id
  PROVE  LET r == [s EXCEPT !.monitors = [s.monitors EXCEPT ![i] = new]]
         IN  SetOK(r) /\ Replaces(s, i, new, r)
<1> DEFINE q == [s.monitors EXCEPT ![i] = new]
           r == [s EXCEPT !.monitors = q]
<1>1. /\ SetRecord(s) /\ MonitorsOK(s.monitors, s.nextMonitor)
      /\ LogOK(s.events, s.nextEvent, s.acked, s.gap)
      /\ EndsOK(s.events, s.monitors, s.nextMonitor, {})
  BY DEF SetOK, Keeps
<1>2. /\ s.nextMonitor \in Nat \ {0} /\ s.nextEvent \in Nat \ {0}
      /\ s.gap \in Nat /\ s.acked \in Nat /\ s.cursor \in Nat
  BY <1>1 DEF SetRecord
<1>3. /\ MonitorsOK(q, s.nextMonitor) /\ Len(q) = Len(s.monitors) /\ q[i] = new
      /\ Ids(q) = Ids(s.monitors)
      /\ new.deadline = s.monitors[i].deadline => Dates(q) = Dates(s.monitors)
      /\ \A j \in 1 .. Len(s.monitors) : j # i => q[j] = s.monitors[j]
  BY <1>1, <1>2, MonitorsChange
<1> HIDE DEF q
<1>4. r = [nextMonitor |-> s.nextMonitor, nextEvent |-> s.nextEvent, gap |-> s.gap,
           acked |-> s.acked, cursor |-> s.cursor, last |-> s.last, monitors |-> q,
           events |-> s.events]
  BY <1>1, SetChanges
<1> HIDE DEF r
<1>5. /\ SetRecord(r)
      /\ r.nextMonitor = s.nextMonitor /\ r.nextEvent = s.nextEvent /\ r.gap = s.gap
      /\ r.acked = s.acked /\ r.cursor = s.cursor /\ r.last = s.last
      /\ r.monitors = q /\ r.events = s.events
  <2>1. /\ r.nextMonitor = s.nextMonitor /\ r.nextEvent = s.nextEvent /\ r.gap = s.gap
        /\ r.acked = s.acked /\ r.cursor = s.cursor /\ r.last = s.last
        /\ r.monitors = q /\ r.events = s.events
    BY <1>4
  <2> QED
    BY <1>2, <1>4, <2>1 DEF SetRecord
<1>6. EndsOK(r.events, r.monitors, r.nextMonitor, {})
  BY <1>1, <1>3, <1>5 DEF EndsOK
<1>7. SetOK(r)
  BY <1>1, <1>3, <1>5, <1>6 DEF SetOK, Keeps
<1> QED
  BY <1>3, <1>5, <1>7 DEF r, q, Replaces, Others

\* The monitor that is going is removed.
LEMMA Gone ==
  ASSUME NEW s, NEW i \in 1 .. Len(s.monitors), Keeps(s, {s.monitors[i].id})
  PROVE  LET r == [s EXCEPT !.monitors = RemoveAt(s.monitors, i)]
         IN  /\ SetOK(r)
             /\ r.nextMonitor = s.nextMonitor /\ r.nextEvent = s.nextEvent
             /\ r.last = s.last /\ r.cursor = s.cursor /\ r.events = s.events
             /\ Len(r.monitors) = Len(s.monitors) - 1
             /\ Ids(r.monitors) = Ids(s.monitors) \ {s.monitors[i].id}
             /\ Dates(r.monitors) \subseteq Dates(s.monitors)
             /\ Without(r.monitors, s.monitors, s.monitors[i].id)
<1> DEFINE q == RemoveAt(s.monitors, i)
           r == [s EXCEPT !.monitors = q]
<1>1. /\ SetRecord(s) /\ MonitorsOK(s.monitors, s.nextMonitor)
      /\ LogOK(s.events, s.nextEvent, s.acked, s.gap)
      /\ EndsOK(s.events, s.monitors, s.nextMonitor, {s.monitors[i].id})
  BY DEF Keeps
<1>2. /\ s.nextMonitor \in Nat \ {0} /\ s.nextEvent \in Nat \ {0}
      /\ s.gap \in Nat /\ s.acked \in Nat /\ s.cursor \in Nat
  BY <1>1 DEF SetRecord
<1>3. /\ MonitorsOK(q, s.nextMonitor) /\ Len(q) = Len(s.monitors) - 1
      /\ Ids(q) = Ids(s.monitors) \ {s.monitors[i].id}
      /\ Dates(q) \subseteq Dates(s.monitors)
      /\ Without(q, s.monitors, s.monitors[i].id)
  BY <1>1, <1>2, MonitorsRemove
<1> HIDE DEF q
<1>4. r = [nextMonitor |-> s.nextMonitor, nextEvent |-> s.nextEvent, gap |-> s.gap,
           acked |-> s.acked, cursor |-> s.cursor, last |-> s.last, monitors |-> q,
           events |-> s.events]
  BY <1>1, SetChanges
<1> HIDE DEF r
<1>5. /\ SetRecord(r)
      /\ r.nextMonitor = s.nextMonitor /\ r.nextEvent = s.nextEvent /\ r.gap = s.gap
      /\ r.acked = s.acked /\ r.cursor = s.cursor /\ r.last = s.last
      /\ r.monitors = q /\ r.events = s.events
  <2>1. /\ r.nextMonitor = s.nextMonitor /\ r.nextEvent = s.nextEvent /\ r.gap = s.gap
        /\ r.acked = s.acked /\ r.cursor = s.cursor /\ r.last = s.last
        /\ r.monitors = q /\ r.events = s.events
    BY <1>4
  <2> QED
    BY <1>2, <1>4, <2>1 DEF SetRecord
<1>6. EndsOK(r.events, r.monitors, r.nextMonitor, {})
  BY <1>1, <1>3, <1>5 DEF EndsOK
<1>7. SetOK(r)
  BY <1>1, <1>3, <1>5, <1>6 DEF SetOK, Keeps
<1> QED
  BY <1>3, <1>5, <1>7 DEF r, q

-----------------------------------------------------------------------------
(* Decisions.  They keep id and lifetime of their monitor, whoever is told *)
(* that it ends goes, and past its lifetime only that is told.             *)

DecisionOK(m, d, t) ==
  /\ d = [monitor |-> d.monitor, notify |-> d.notify, remove |-> d.remove, changed |-> d.changed]
  /\ MonitorOK(d.monitor) /\ d.monitor.id = m.id /\ d.monitor.deadline = m.deadline
  /\ d.notify # None =>
       /\ d.notify \in Reasons
       /\ d.notify \in Final => d.remove
       /\ Expired(m, t) => d.notify = "expired"

LEMMA IgnoreOK ==
  ASSUME NEW m, MonitorOK(m), NEW t
  PROVE  DecisionOK(m, Ignore(m), t)
BY DEF DecisionOK, Ignore

LEMMA RetireOK ==
  ASSUME NEW m, MonitorOK(m), NEW t, NEW notice,
         notice # None => notice \in Reasons /\ (Expired(m, t) => notice = "expired")
  PROVE  DecisionOK(m, Retire(m, notice), t)
BY DEF DecisionOK, Retire

\* The judgement of a monitor within its lifetime.
LEMMA JudgeOK ==
  ASSUME NEW m, MonitorOK(m), NEW t, ~Expired(m, t), NEW what, NEW holds
  PROVE  DecisionOK(m, Judge(m, what, holds, t), t)
<1> DEFINE d == Judge(m, what, holds, t)
           fresh == holds /\ ~m.matched
           checks == m.checks + 1
           check == Rescheduled(m, what, t)
           matched == m.matched \/ holds
           state == IF fresh THEN "matched" ELSE m.state
           n == [m EXCEPT !.checks = checks, !.nextCheck = check, !.matched = matched,
                          !.state = state]
           names == {"id", "definition", "state", "deadline", "nextCheck", "nextNotice", "checks",
                     "lastReason", "matched", "reached"}
<1>1. state \in {"active", "paused", "matched", "degraded"} /\ (matched => state # "active")
  BY DEF MonitorOK
<1>2. DOMAIN m = names /\ m.id \in Nat
  BY DEF MonitorOK
<1>3. /\ d.monitor = n
      /\ d = [monitor |-> d.monitor, notify |-> d.notify, remove |-> d.remove,
              changed |-> d.changed]
      /\ d.notify # None => d.notify \in {"matched", "state_changed", "check"}
  <2> HIDE DEF checks, check, matched, state
  <2> QED
    BY DEF Judge, checks, check, matched, state
<1> HIDE DEF checks, check, matched, state, d
<1>4. /\ n.id = m.id /\ n.deadline = m.deadline /\ n.state = state /\ n.matched = matched
      /\ n = [x \in names |-> n[x]]
  BY <1>2
<1> HIDE DEF n
<1>5. MonitorOK(n)
  BY <1>1, <1>2, <1>4 DEF MonitorOK
<1> QED
  BY <1>3, <1>4, <1>5 DEF DecisionOK, Reasons, Final, d

LEMMA StateNotices ==
  ASSUME NEW m, NEW reason
  PROVE  StateNotice(m, reason) \in {reason, None}
BY DEF StateNotice

\* Monitor::observe.
LEMMA ObserveOK ==
  ASSUME NEW m, MonitorOK(m), NEW t, NEW what, NEW holds
  PROVE  DecisionOK(m, Observe(m, what, holds, t), t)
<1>1. "expired" \in Reasons
  BY DEF Reasons
<1> QED
  BY <1>1, IgnoreOK, RetireOK, JudgeOK, StateNotices DEF Observe

LEMMA SessionExitOK ==
  ASSUME NEW m, MonitorOK(m), NEW t
  PROVE  DecisionOK(m, ObserveSessionExit(m, t), t)
<1>1. "expired" \in Reasons /\ "session_exit" \in Reasons
  BY DEF Reasons
<1> QED
  BY <1>1, IgnoreOK, RetireOK, StateNotices DEF ObserveSessionExit

LEMMA TimerOK ==
  ASSUME NEW m, MonitorOK(m), NEW t
  PROVE  DecisionOK(m, TimerDecision(m, t), t)
<1>1. CASE Expired(m, t)
  <2>1. "expired" \in Reasons
    BY DEF Reasons
  <2> QED
    BY <1>1, <2>1, RetireOK, StateNotices DEF TimerDecision
<1>2. CASE ~Expired(m, t) /\ (Deaf(m) \/ m.definition.notify.kind # "interval" \/ t < m.nextNotice)
  BY <1>2, IgnoreOK DEF TimerDecision
<1>3. CASE ~Expired(m, t) /\ ~(Deaf(m) \/ m.definition.notify.kind # "interval" \/ t < m.nextNotice)
  <2> DEFINE next == AdvanceDeadline(m.nextNotice, m.definition.notify.every, t)
             n == [m EXCEPT !.nextNotice = next]
             d == TimerDecision(m, t)
  <2>1. d = [monitor |-> n, notify |-> "interval", remove |-> FALSE, changed |-> TRUE]
    <3> HIDE DEF next
    <3> QED
      BY <1>3 DEF TimerDecision, Ignore, next
  <2>2. MonitorOK(n) /\ n.id = m.id /\ n.deadline = m.deadline
    <3> HIDE DEF next
    <3> QED
      BY DEF MonitorOK
  <2> HIDE DEF d, n
  <2> QED
    BY <1>3, <2>1, <2>2 DEF DecisionOK, Reasons, Final, d
<1> QED
  BY <1>1, <1>2, <1>3

\* A decision about a monitor that has only seen output.
LEMMA OutputOK ==
  ASSUME NEW m, MonitorOK(m), NEW obs, NEW answers, NEW t
  PROVE  DecisionOK(m, OutputDecision(m, obs, answers, t), t)
<1> DEFINE reached == Fed(m, obs.output).reached
           hit == Fed(m, obs.output).hit
           fed == [m EXCEPT !.reached = reached]
           span == t + m.definition.condition.span
           noted == [m EXCEPT !.nextCheck = span]
           d == OutputDecision(m, obs, answers, t)
<1>1. \/ d = Observe(fed, "output", hit, t) \/ d = Observe(m, "screen", answers.screen, t)
      \/ d = Ignore(noted) \/ d = Ignore(m)
  BY DEF OutputDecision, NoteOutput
<1> HIDE DEF reached, hit, span, d
<1>2. MonitorOK(fed) /\ fed.id = m.id /\ fed.deadline = m.deadline
  BY DEF MonitorOK
<1>3. MonitorOK(noted) /\ noted.id = m.id /\ noted.deadline = m.deadline
  BY DEF MonitorOK
<1> HIDE DEF fed, noted
<1>4. CASE d = Observe(fed, "output", hit, t)
  <2>1. DecisionOK(fed, d, t)
    BY <1>2, <1>4, ObserveOK
  <2> QED
    BY <1>2, <2>1 DEF DecisionOK, Expired, d
<1>5. CASE d = Ignore(noted)
  <2>1. DecisionOK(noted, d, t)
    BY <1>3, <1>5, IgnoreOK
  <2> QED
    BY <1>3, <2>1 DEF DecisionOK, Expired, d
<1>6. CASE d = Observe(m, "screen", answers.screen, t)
  BY <1>6, ObserveOK DEF d
<1>7. CASE d = Ignore(m)
  BY <1>7, IgnoreOK DEF d
<1> QED
  BY <1>1, <1>4, <1>5, <1>6, <1>7

\* The last decision about a monitor: it goes.
LEMMA FinalOK ==
  ASSUME NEW m, MonitorOK(m), NEW lifecycle, NEW outcome, NEW t
  PROVE  LET d == FinalDecision(m, lifecycle, outcome, t) IN DecisionOK(m, d, t) /\ d.remove
<1> DEFINE c == m.definition.condition
           exited == c.kind = "exit" /\ lifecycle = "exited"
           first == IF exited THEN Observe(m, "exit", outcome \in c.when, t) ELSE Ignore(m)
           silent == /\ first.notify = None
                     /\ m.definition.notify.kind = "on_exit"
                     /\ m.lastReason # "session_exit"
           second == IF silent THEN ObserveSessionExit(first.monitor, t) ELSE first
           d == FinalDecision(m, lifecycle, outcome, t)
<1>1. d = [second EXCEPT !.remove = TRUE]
  BY DEF FinalDecision
<1>2. DecisionOK(m, first, t)
  <2> DEFINE hit == outcome \in c.when
  <2>1. DecisionOK(m, Observe(m, "exit", hit, t), t)
    <3> HIDE DEF hit
    <3> QED
      BY ObserveOK
  <2>2. DecisionOK(m, Ignore(m), t)
    BY IgnoreOK
  <2> HIDE DEF exited
  <2> QED
    BY <2>1, <2>2
<1> HIDE DEF d, first, silent
<1>3. DecisionOK(m, second, t)
  <2>1. CASE silent
    <3>1. /\ MonitorOK(first.monitor) /\ first.monitor.id = m.id
          /\ first.monitor.deadline = m.deadline
      BY <1>2 DEF DecisionOK
    <3>2. DecisionOK(first.monitor, second, t)
      BY <2>1, <3>1, SessionExitOK
    <3> HIDE DEF second
    <3> QED
      BY <3>1, <3>2 DEF DecisionOK, Expired
  <2>2. CASE ~silent
    BY <1>2, <2>2
  <2> QED
    BY <2>1, <2>2
<1> HIDE DEF second
<1>4. d = [monitor |-> second.monitor, notify |-> second.notify, remove |-> TRUE,
           changed |-> second.changed]
  BY <1>1, <1>3 DEF DecisionOK
<1>5. d.monitor = second.monitor /\ d.notify = second.notify /\ d.remove /\ d.changed = second.changed
      /\ d = [monitor |-> d.monitor, notify |-> d.notify, remove |-> d.remove,
              changed |-> d.changed]
  BY <1>4
<1> QED
  BY <1>3, <1>5 DEF DecisionOK, d

-----------------------------------------------------------------------------
(* An evaluation: what a set has become of the set it began with.          *)

OnlyExpires(s0, e) ==
  \A m \in Members(s0.monitors) : m.id = e.monitor /\ Expired(m, e.at) => e.reason = "expired"

Carries(s0, s) ==
  /\ SetOK(s) /\ s0.nextEvent <= s.nextEvent
  /\ Dates(s.monitors) \subseteq Dates(s0.monitors)
  /\ \A e \in Members(s.events) : e.id >= s0.nextEvent => OnlyExpires(s0, e)

LEMMA SetParts ==
  ASSUME NEW s, SetOK(s)
  PROVE  /\ SetRecord(s) /\ s.nextEvent \in Nat \ {0} /\ s.nextMonitor \in Nat \ {0}
         /\ MonitorsOK(s.monitors, s.nextMonitor) /\ Len(s.monitors) \in Nat
         /\ LogOK(s.events, s.nextEvent, s.acked, s.gap)
         /\ EndsOK(s.events, s.monitors, s.nextMonitor, {})
         /\ \A i \in 1 .. Len(s.monitors) : MonitorOK(s.monitors[i]) /\ s.monitors[i].id \in Nat
         /\ \A i, j \in 1 .. Len(s.monitors) : s.monitors[i].id = s.monitors[j].id => i = j
         /\ \A e \in Members(s.events) : e \in Event /\ e.id \in Nat /\ e.id < s.nextEvent
<1>1. /\ SetRecord(s) /\ s.nextEvent \in Nat \ {0} /\ s.nextMonitor \in Nat \ {0}
      /\ MonitorsOK(s.monitors, s.nextMonitor)
      /\ LogOK(s.events, s.nextEvent, s.acked, s.gap)
      /\ EndsOK(s.events, s.monitors, s.nextMonitor, {})
  BY DEF SetOK, Keeps, SetRecord
<1>2. Len(s.monitors) \in Nat
  BY <1>1, LenProperties DEF MonitorsOK
<1>3. \A i \in 1 .. Len(s.monitors) : MonitorOK(s.monitors[i]) /\ s.monitors[i].id \in Nat
  BY <1>1 DEF MonitorsOK, MonitorOK
<1>4. \A i, j \in 1 .. Len(s.monitors) : i < j => s.monitors[i].id < s.monitors[j].id
  BY <1>1 DEF MonitorsOK
<1>5. \A i, j \in 1 .. Len(s.monitors) : s.monitors[i].id = s.monitors[j].id => i = j
  BY <1>2, <1>3, <1>4
<1>6. Len(s.events) \in Nat /\ \A i \in 1 .. Len(s.events) : s.events[i] \in Event
  <2>1. s.events \in Seq(Event)
    BY <1>1 DEF LogOK
  <2> QED
    BY <2>1, LenProperties, ElementOfSeq
<1>7. \A i \in 1 .. Len(s.events) : s.events[i].id = s.nextEvent - 1 - Len(s.events) + i
  BY <1>1 DEF LogOK
<1>8. \A i \in 1 .. Len(s.events) : s.events[i].id < s.nextEvent
  BY <1>1, <1>6, <1>7
<1>9. \A e \in Members(s.events) : e \in Event /\ e.id \in Nat /\ e.id < s.nextEvent
  BY <1>6, <1>8 DEF Members, Event
<1> QED
  BY <1>1, <1>2, <1>3, <1>5, <1>9

LEMMA CarriesItself ==
  ASSUME NEW s, SetOK(s)
  PROVE  Carries(s, s)
<1>1. /\ s.nextEvent \in Nat
      /\ \A e \in Members(s.events) : e.id \in Nat /\ e.id < s.nextEvent
  BY SetParts
<1>2. s.nextEvent <= s.nextEvent /\ \A e \in Members(s.events) : ~(e.id >= s.nextEvent)
  BY <1>1
<1> QED
  BY <1>2 DEF Carries

LEMMA IdsKept ==
  ASSUME NEW s0, NEW s, Carries(s0, s)
  PROVE  Ids(s.monitors) \subseteq Ids(s0.monitors)
<1>1. ASSUME NEW i \in 1 .. Len(s.monitors)
      PROVE  s.monitors[i].id \in Ids(s0.monitors)
  <2>1. <<s.monitors[i].id, s.monitors[i].deadline>> \in Dates(s0.monitors)
    BY DEF Carries, Dates
  <2> QED
    BY <2>1 DEF Dates, Ids
<1> QED
  BY <1>1 DEF Ids

\* The monitor that was decided about is the only one that may be missing.
Follows(s, i, d, r) ==
  /\ Len(r.monitors) = IF d.remove THEN Len(s.monitors) - 1 ELSE Len(s.monitors)
  /\ Ids(s.monitors) \ {s.monitors[i].id} \subseteq Ids(r.monitors)

\* What else it has become: the other monitors, the one decided about as the
\* decision leaves it, and the events there were and the one of the decision.
Touches(s, i, d, view, r) ==
  /\ r.cursor = s.cursor
  /\ \A m \in Members(r.monitors) :
       \/ m \in Members(s.monitors) /\ m.id # s.monitors[i].id
       \/ ~d.remove /\ Alike(m, d.monitor)
  /\ \A e \in Members(r.events) :
       \/ e \in Members(s.events)
       \/ /\ d.notify # None /\ e.monitor = s.monitors[i].id /\ e.reason = d.notify
          /\ e.cursor = view.cursor /\ e.at = view.now

\* apply_decision.
LEMMA Decided ==
  ASSUME NEW s0, SetOK(s0), NEW s, Carries(s0, s), NEW i \in 1 .. Len(s.monitors),
         NEW view, ViewOK(view), NEW d, DecisionOK(s.monitors[i], d, view.now)
  PROVE  /\ Carries(s0, ApplyDecision(s, i, d, view))
         /\ Follows(s, i, d, ApplyDecision(s, i, d, view))
         /\ Touches(s, i, d, view, ApplyDecision(s, i, d, view))
<1> DEFINE m == s.monitors[i]
           left == [s EXCEPT !.monitors = [s.monitors EXCEPT ![i] = d.monitor]]
           told == IF d.notify = None THEN left ELSE PushEvent(left, i, d.notify, view)
           going == IF d.remove THEN {m.id} ELSE {}
           gone == [told EXCEPT !.monitors = RemoveAt(told.monitors, i)]
           r == ApplyDecision(s, i, d, view)
<1>1. r = IF d.remove THEN gone ELSE told
  <2>1. [told EXCEPT !.monitors = RemoveAt(@, i)] = gone
    OBVIOUS
  <2> HIDE DEF told, gone
  <2>2. [s EXCEPT !.monitors[i] = d.monitor] = left
    OBVIOUS
  <2> QED
    BY <2>1, <2>2, Zenon DEF ApplyDecision, told, gone
<1>2. SetOK(s) /\ s0.nextEvent <= s.nextEvent /\ Dates(s.monitors) \subseteq Dates(s0.monitors)
  BY DEF Carries
<1>3. /\ MonitorOK(d.monitor) /\ d.monitor.id = m.id /\ d.monitor.deadline = m.deadline
      /\ d.notify # None =>
           /\ d.notify \in Reasons
           /\ d.notify \in Final => d.remove
           /\ Expired(m, view.now) => d.notify = "expired"
  BY DEF DecisionOK
<1>4. /\ SetOK(left) /\ left.nextEvent = s.nextEvent /\ left.events = s.events
      /\ Len(left.monitors) = Len(s.monitors) /\ left.monitors[i] = d.monitor
      /\ Ids(left.monitors) = Ids(s.monitors) /\ Dates(left.monitors) = Dates(s.monitors)
      /\ left.cursor = s.cursor /\ Others(s, i, left)
  <2> DEFINE new == d.monitor
  <2> HIDE DEF new
  <2>1. MonitorOK(new) /\ new.id = s.monitors[i].id
    BY <1>3 DEF new
  <2>2. SetOK([s EXCEPT !.monitors = [s.monitors EXCEPT ![i] = new]])
        /\ Replaces(s, i, new, [s EXCEPT !.monitors = [s.monitors EXCEPT ![i] = new]])
    BY <1>2, <2>1, Replaced, Zenon
  <2> QED
    BY <1>3, <2>2 DEF Replaces, new
<1>5. s.nextEvent \in Nat /\ s0.nextEvent \in Nat /\ Len(s.monitors) \in Nat
  BY <1>2, SetParts
<1> HIDE DEF left
<1>6. /\ Keeps(told, going)
      /\ told.nextEvent >= s.nextEvent /\ told.nextEvent \in Nat
      /\ Len(told.monitors) = Len(s.monitors) /\ told.monitors[i].id = m.id
      /\ Ids(told.monitors) = Ids(s.monitors) /\ Dates(told.monitors) = Dates(s.monitors)
      /\ told.cursor = s.cursor /\ Others(s, i, told) /\ Alike(told.monitors[i], d.monitor)
      /\ \A e \in Members(told.events) :
           \/ e \in Members(s.events)
           \/ /\ d.notify # None /\ e.monitor = m.id /\ e.reason = d.notify
              /\ e.cursor = view.cursor /\ e.at = view.now
  <2>1. CASE d.notify = None
    <3>1. told = left
      BY <2>1
    <3>2. Keeps(left, {})
      BY <1>4 DEF SetOK
    <3>3. Keeps(left, going)
      BY <3>2 DEF Keeps, EndsOK
    <3> HIDE DEF told, going
    <3>4. /\ told.nextEvent >= s.nextEvent /\ told.nextEvent \in Nat
          /\ Len(told.monitors) = Len(s.monitors) /\ told.monitors[i].id = m.id
      BY <1>3, <1>4, <1>5, <3>1
    <3>5. told.cursor = s.cursor /\ Others(s, i, told) /\ Alike(told.monitors[i], d.monitor)
      BY <1>4, <3>1 DEF Alike
    <3> QED
      BY <1>4, <3>1, <3>3, <3>4, <3>5, Zenon
  <2>2. CASE d.notify # None
    <3> DEFINE pushed == PushEvent(left, i, d.notify, view)
    <3>1. told = pushed
      BY <2>2
    <3>2. d.notify \in Reasons /\ i \in 1 .. Len(left.monitors)
          /\ (d.notify \in Final => left.monitors[i].id \in going)
      BY <1>3, <1>4, <2>2
    <3> HIDE DEF told, going
    <3>3. Keeps(pushed, going) /\ Records(left, i, d.notify, view, pushed)
      <4>1. SetOK(left) /\ ViewOK(view)
        BY <1>4
      <4> QED
        BY <3>2, <4>1, Pushed, Zenon
    <3> HIDE DEF pushed
    <3>4. /\ told.nextEvent >= s.nextEvent /\ told.nextEvent \in Nat
          /\ Len(told.monitors) = Len(s.monitors) /\ told.monitors[i].id = m.id
      BY <1>3, <1>4, <1>5, <3>1, <3>3 DEF Records
    <3>5. \A e \in Members(told.events) :
           \/ e \in Members(s.events)
           \/ /\ d.notify # None /\ e.monitor = m.id /\ e.reason = d.notify
              /\ e.cursor = view.cursor /\ e.at = view.now
      BY <1>3, <1>4, <2>2, <3>1, <3>3 DEF Records
    <3>6. told.cursor = s.cursor /\ Others(s, i, told) /\ Alike(told.monitors[i], d.monitor)
      BY <1>4, <3>1, <3>3 DEF Records, Others
    <3> QED
      BY <1>4, <3>1, <3>3, <3>4, <3>5, <3>6 DEF Records
  <2> QED
    BY <2>1, <2>2
<1> HIDE DEF told
<1>7. \A e \in Members(told.events) : e.id >= s0.nextEvent => OnlyExpires(s0, e)
  <2>1. ASSUME NEW e \in Members(told.events), e.id >= s0.nextEvent,
               NEW m0 \in Members(s0.monitors), m0.id = e.monitor, Expired(m0, e.at)
        PROVE  e.reason = "expired"
    <3>1. CASE e \in Members(s.events)
      BY <2>1, <3>1 DEF Carries, OnlyExpires
    <3>2. CASE /\ d.notify # None /\ e.monitor = m.id /\ e.reason = d.notify
               /\ e.cursor = view.cursor /\ e.at = view.now
      <4>1. <<m.id, m.deadline>> \in Dates(s0.monitors)
        BY <1>2 DEF Dates
      <4>2. PICK j \in 1 .. Len(s0.monitors) :
              s0.monitors[j].id = m.id /\ s0.monitors[j].deadline = m.deadline
        BY <4>1 DEF Dates
      <4>3. PICK k \in 1 .. Len(s0.monitors) : m0 = s0.monitors[k]
        BY DEF Members
      <4>4. k = j
        <5>1. s0.monitors[k].id = s0.monitors[j].id
          BY <2>1, <3>2, <4>2, <4>3
        <5> QED
          BY <5>1, SetParts
      <4>5. Expired(m, view.now)
        BY <2>1, <3>2, <4>2, <4>3, <4>4 DEF Expired
      <4> QED
        BY <1>3, <3>2, <4>5
    <3> QED
      BY <1>6, <3>1, <3>2
  <2> QED
    BY <2>1 DEF OnlyExpires
<1>8. CASE d.remove
  <2>1. r = gone /\ going = {told.monitors[i].id} /\ i \in 1 .. Len(told.monitors)
    BY <1>1, <1>6, <1>8
  <2>2. Keeps(told, {told.monitors[i].id})
    BY <1>6, <2>1
  <2>3. /\ SetOK(gone) /\ gone.nextEvent = told.nextEvent /\ gone.events = told.events
        /\ Len(gone.monitors) = Len(told.monitors) - 1
        /\ Ids(gone.monitors) = Ids(told.monitors) \ {told.monitors[i].id}
        /\ Dates(gone.monitors) \subseteq Dates(told.monitors)
        /\ gone.cursor = told.cursor
        /\ Without(gone.monitors, told.monitors, told.monitors[i].id)
    BY <2>1, <2>2, Gone
  <2> HIDE DEF gone, r, m
  <2>4. Carries(s0, r)
    BY <1>2, <1>5, <1>6, <1>7, <2>1, <2>3 DEF Carries
  <2>5. Len(r.monitors) = Len(s.monitors) - 1 /\ Ids(r.monitors) = Ids(s.monitors) \ {m.id}
    BY <1>6, <2>1, <2>3
  <2>6. \A n \in Members(r.monitors) : n \in Members(s.monitors) /\ n.id # m.id
    <3>1. ASSUME NEW n \in Members(r.monitors)
          PROVE  n \in Members(s.monitors) /\ n.id # m.id
      <4>1. n \in Members(told.monitors) /\ n.id # m.id
        BY <1>6, <2>1, <2>3 DEF Without
      <4>2. PICK j \in 1 .. Len(told.monitors) : n = told.monitors[j]
        BY <4>1 DEF Members
      <4>3. j \in 1 .. Len(s.monitors) /\ j # i
        BY <1>6, <4>1, <4>2
      <4> QED
        BY <1>6, <4>1, <4>2, <4>3 DEF Others, Members
    <3> QED
      BY <3>1
  <2>7. Touches(s, i, d, view, r)
    BY <1>6, <2>1, <2>3, <2>6 DEF Touches, m
  <2> QED
    BY <1>8, <2>4, <2>5, <2>7 DEF r, m, Follows
<1>9. CASE ~d.remove
  <2>1. r = told /\ SetOK(told)
    BY <1>1, <1>6, <1>9 DEF SetOK
  <2> HIDE DEF r, m
  <2>2. Carries(s0, r)
    BY <1>2, <1>5, <1>6, <1>7, <2>1 DEF Carries
  <2>3. Len(r.monitors) = Len(s.monitors) /\ Ids(r.monitors) = Ids(s.monitors)
    BY <1>6, <2>1
  <2>4. \A n \in Members(r.monitors) :
          (n \in Members(s.monitors) /\ n.id # m.id) \/ Alike(n, d.monitor)
    <3>1. ASSUME NEW j \in 1 .. Len(r.monitors)
          PROVE  \/ r.monitors[j] \in Members(s.monitors) /\ r.monitors[j].id # m.id
                 \/ Alike(r.monitors[j], d.monitor)
      <4>1. CASE j = i
        BY <1>6, <2>1, <4>1
      <4>2. CASE j # i
        <5>1. j \in 1 .. Len(s.monitors) /\ r.monitors[j] = s.monitors[j]
          BY <1>6, <2>1, <4>2 DEF Others
        <5>2. s.monitors[j].id # m.id
          BY <1>2, <4>2, <5>1, SetParts DEF m
        <5> QED
          BY <5>1, <5>2 DEF Members
      <4> QED
        BY <4>1, <4>2
    <3> QED
      BY <3>1 DEF Members
  <2>5. Touches(s, i, d, view, r)
    BY <1>6, <1>9, <2>1, <2>4 DEF Touches, m
  <2> QED
    BY <1>9, <2>2, <2>3, <2>5 DEF r, m, Follows
<1> QED
  BY <1>8, <1>9

-----------------------------------------------------------------------------
(* Literal patterns.  A monitor on output that has not matched remembers   *)
(* prefixes of its pattern with which the output it has read ends.         *)

\* The output contains p.
Holds(p, out) ==
  \E i \in 0 .. (Len(out) - Len(p)) : \A k \in 1 .. Len(p) : out[i + k].byte = p[k]

\* The prefixes of p with which the first c bytes end, by their length.
Ends(p, out, c) ==
  {j \in 0 .. Len(p) : j <= c /\ \A k \in 1 .. j : out[(c - j) + k].byte = p[k]}

LEMMA WholeEnds ==
  ASSUME NEW p, Len(p) \in Nat, NEW out, Len(out) \in Nat, NEW c \in Nat, c <= Len(out),
         Len(p) \in Ends(p, out, c)
  PROVE  Holds(p, out)
<1>1. Len(p) <= c /\ \A k \in 1 .. Len(p) : out[(c - Len(p)) + k].byte = p[k]
  BY DEF Ends
<1>2. c - Len(p) \in 0 .. (Len(out) - Len(p))
  BY <1>1
<1> QED
  BY <1>1, <1>2 DEF Holds

\* One byte: a prefix grows by it or is given up.
LEMMA EndsAdvance ==
  ASSUME NEW p, Len(p) \in Nat, NEW wildcard, ~wildcard, NEW out, NEW c \in Nat,
         NEW reached, reached \subseteq Ends(p, out, c)
  PROVE  Advance(p, wildcard, reached, out[c + 1].byte) \subseteq Ends(p, out, c + 1)
<1> DEFINE byte == out[c + 1].byte
           next == Advance(p, wildcard, reached, byte)
<1>1. \A j \in next : j = 0 \/ \E k \in reached : k < Len(p) /\ p[k + 1] = byte /\ j = k + 1
  BY DEF Advance, Closure
<1>2. 0 \in Ends(p, out, c + 1)
  BY DEF Ends
<1>3. ASSUME NEW k \in reached, k < Len(p), p[k + 1] = byte
      PROVE  k + 1 \in Ends(p, out, c + 1)
  <2>1. k \in 0 .. Len(p) /\ k <= c /\ \A i \in 1 .. k : out[(c - k) + i].byte = p[i]
    BY DEF Ends
  <2>2. \A i \in 1 .. (k + 1) : out[((c + 1) - (k + 1)) + i].byte = p[i]
    <3>1. ASSUME NEW i \in 1 .. (k + 1)
          PROVE  out[((c + 1) - (k + 1)) + i].byte = p[i]
      <4>1. ((c + 1) - (k + 1)) + i = (c - k) + i
        BY <2>1
      <4>2. CASE i = k + 1
        <5>1. (c - k) + i = c + 1
          BY <2>1, <4>2
        <5> QED
          BY <1>3, <4>1, <4>2, <5>1
      <4>3. CASE i # k + 1
        <5>1. i \in 1 .. k
          BY <2>1, <4>3
        <5> QED
          BY <2>1, <4>1, <5>1
      <4> QED
        BY <4>2, <4>3
    <3> QED
      BY <3>1
  <2>3. k + 1 \in 0 .. Len(p) /\ k + 1 <= c + 1
    BY <1>3, <2>1
  <2> QED
    BY <2>2, <2>3 DEF Ends
<1> QED
  BY <1>1, <1>2, <1>3

IsFed(f, p, wildcard, start, chunk, n) ==
  f = [k \in 0 .. n |-> IF k = 0 THEN start ELSE FeedByte(p, wildcard, f[k - 1], chunk[k])]

LEMMA FedExists ==
  ASSUME NEW p, NEW wildcard, NEW start, NEW chunk, NEW n \in Nat
  PROVE  \E f : IsFed(f, p, wildcard, start, chunk, n)
<1> DEFINE T == {j \in Nat : \E f : IsFed(f, p, wildcard, start, chunk, j)}
<1>1. 0 \in T
  <2> DEFINE f == [k \in 0 .. 0 |-> start]
  <2>1. IsFed(f, p, wildcard, start, chunk, 0)
    BY DEF IsFed
  <2> QED
    BY <2>1
<1>2. ASSUME NEW j \in T
      PROVE  j + 1 \in T
  <2>1. PICK f : IsFed(f, p, wildcard, start, chunk, j)
    OBVIOUS
  <2>2. j \in Nat
    OBVIOUS
  <2> DEFINE g == [k \in 0 .. (j + 1) |->
                     IF k <= j THEN f[k] ELSE FeedByte(p, wildcard, f[k - 1], chunk[k])]
             G == [k \in 0 .. (j + 1) |->
                     IF k = 0 THEN start ELSE FeedByte(p, wildcard, g[k - 1], chunk[k])]
  <2>3. \A k \in 0 .. j : f[k] = IF k = 0 THEN start ELSE FeedByte(p, wildcard, f[k - 1], chunk[k])
    BY <2>1 DEF IsFed
  <2>4. ASSUME NEW k \in 0 .. (j + 1)
        PROVE  g[k] = G[k]
    <3>1. CASE k = 0
      BY <2>2, <2>3, <3>1
    <3>2. CASE k \in 1 .. j
      <4>1. k - 1 \in 0 .. (j + 1) /\ k \in 0 .. j /\ k <= j /\ k # 0 /\ k - 1 <= j
        BY <2>2, <3>2
      <4> QED
        BY <4>1, <2>3
    <3>3. CASE k = j + 1
      <4>1. k - 1 = j /\ ~(k <= j) /\ k # 0 /\ j <= j /\ j \in 0 .. (j + 1)
        BY <2>2, <3>3
      <4> QED
        BY <4>1
    <3> QED
      BY <2>2, <3>1, <3>2, <3>3
  <2>5. g = G
    BY <2>4
  <2>6. IsFed(g, p, wildcard, start, chunk, j + 1)
    BY <2>5 DEF IsFed
  <2> QED
    BY <2>2, <2>6
<1>3. T = Nat
  <2> HIDE DEF T
  <2>1. T \in SUBSET Nat
    BY DEF T
  <2> QED
    BY <1>1, <1>2, <2>1, SetInduction
<1> QED
  BY <1>3

\* The chunk of the output after the first c bytes, up to byte e.
Chunk(chunk, out, c, e) ==
  /\ c \in Nat /\ e \in Nat /\ c <= e /\ e <= Len(out) /\ Len(chunk) = e - c
  /\ \A i \in 1 .. (e - c) : chunk[i] = out[c + i].byte

\* pattern_feed of a literal: what it finds the output contains, and if it
\* finds nothing it goes on with prefixes the output ends with.
LEMMA LiteralFed ==
  ASSUME NEW p, Len(p) \in Nat, NEW wildcard, ~wildcard, NEW out, Len(out) \in Nat,
         NEW chunk, NEW c, NEW e, Chunk(chunk, out, c, e),
         NEW reached, reached \subseteq Ends(p, out, c)
  PROVE  /\ PatternFed(p, wildcard, reached, chunk).hit => Holds(p, out)
         /\ ~PatternFed(p, wildcard, reached, chunk).hit =>
              PatternFed(p, wildcard, reached, chunk).reached \subseteq Ends(p, out, e)
<1> DEFINE n == Len(chunk)
           begin == Closure(p, wildcard, reached \cup {0})
           start == [reached |-> begin, hit |-> FALSE]
           after[k \in 0 .. n] ==
             IF k = 0 THEN start ELSE FeedByte(p, wildcard, after[k - 1], chunk[k])
           end == after[n]
           r == PatternFed(p, wildcard, reached, chunk)
<1>1. n \in Nat /\ c \in Nat /\ e = c + n /\ e <= Len(out)
      /\ \A i \in 1 .. n : chunk[i] = out[c + i].byte
  BY DEF Chunk
<1>2. begin \subseteq Ends(p, out, c)
  <2>1. 0 \in Ends(p, out, c)
    BY <1>1 DEF Ends
  <2> QED
    BY <2>1 DEF Closure
<1>3. r.reached = end.reached /\ (r.hit <=> Len(p) \in end.reached)
  <2> DEFINE found == Len(p) \in end.reached
             states == end.reached
  <2>1. r = [reached |-> states, hit |-> found]
    BY Zenon DEF PatternFed
  <2> HIDE DEF r, found, states
  <2>2. r.reached = states /\ r.hit = found
    BY <2>1
  <2> QED
    BY <2>2 DEF found, states
<1>4. IsFed(after, p, wildcard, start, chunk, n)
  <2>1. \E f : IsFed(f, p, wildcard, start, chunk, n)
    <3> HIDE DEF n, start
    <3> QED
      BY <1>1, FedExists
  <2> QED
    BY <2>1 DEF IsFed
<1> HIDE DEF after, n, begin, r
<1>5. after[0] = start /\ \A k \in 0 .. n : k # 0 =>
        after[k] = FeedByte(p, wildcard, after[k - 1], chunk[k])
  <2>1. 0 \in 0 .. n
    BY <1>1
  <2>2. \A k \in 0 .. n : after[k] = IF k = 0 THEN start
                                     ELSE FeedByte(p, wildcard, after[k - 1], chunk[k])
    BY <1>4, Zenon DEF IsFed
  <2> QED
    BY <2>1, <2>2, Zenon
<1> DEFINE Right(k) == /\ after[k].hit => Len(p) \in after[k].reached /\ Holds(p, out)
                       /\ ~after[k].hit => after[k].reached \subseteq Ends(p, out, c + k)
           T == {k \in Nat : k <= n => Right(k)}
<1>6. 0 \in T
  <2>1. ~after[0].hit /\ after[0].reached = begin
    BY <1>5
  <2>2. c + 0 = c
    BY <1>1
  <2> QED
    BY <1>2, <2>1, <2>2
<1>7. ASSUME NEW k \in T
      PROVE  k + 1 \in T
  <2>1. CASE k < n
    <3>1. /\ k \in Nat /\ k <= n /\ k + 1 \in 0 .. n /\ k + 1 # 0 /\ (k + 1) - 1 = k
          /\ k + 1 \in 1 .. n /\ c + (k + 1) = (c + k) + 1 /\ c + k \in Nat
          /\ (c + k) + 1 <= Len(out)
      BY <1>1, <2>1
    <3>2. Right(k)
      BY <3>1
    <3> DEFINE so == after[k]
               byte == chunk[k + 1]
               next == Advance(p, wildcard, so.reached, byte)
               found == Len(p) \in next
               fed == FeedByte(p, wildcard, so, byte)
    <3>3. after[k + 1] = fed
      BY <1>5, <3>1, Zenon
    <3>4. byte = out[(c + k) + 1].byte
      BY <1>1, <3>1
    <3>5. CASE so.hit
      <4>1. fed = so
        BY <3>5 DEF FeedByte
      <4> QED
        BY <3>1, <3>2, <3>3, <3>5, <4>1
    <3>6. CASE ~so.hit
      <4>1. next \subseteq Ends(p, out, c + (k + 1))
        <5>1. so.reached \subseteq Ends(p, out, c + k)
          BY <3>2, <3>6
        <5> HIDE DEF so
        <5> QED
          BY <3>1, <3>4, <5>1, EndsAdvance
      <4>2. fed = [reached |-> next, hit |-> found]
        BY <3>6, Zenon DEF FeedByte
      <4> HIDE DEF next, found, fed
      <4>3. fed.reached = next /\ fed.hit = found
        BY <4>2
      <4>4. found => Holds(p, out)
        <5>1. found => Len(p) \in Ends(p, out, c + (k + 1))
          BY <4>1 DEF found
        <5>2. c + (k + 1) \in Nat /\ c + (k + 1) <= Len(out)
          BY <3>1
        <5> QED
          BY <5>1, <5>2, WholeEnds
      <4>5. Right(k + 1)
        BY <3>3, <4>1, <4>3, <4>4 DEF found
      <4> QED
        BY <3>1, <4>5
    <3> QED
      BY <3>5, <3>6
  <2>2. CASE ~(k < n)
    <3>1. k \in Nat /\ ~(k + 1 <= n)
      BY <1>1, <2>2
    <3> QED
      BY <3>1
  <2> QED
    BY <2>1, <2>2
<1>8. T = Nat
  <2>1. T \in SUBSET Nat
    OBVIOUS
  <2> HIDE DEF T
  <2> QED
    BY <1>6, <1>7, <2>1, SetInduction
<1>9. Right(n)
  <2>1. n \in T /\ n <= n
    BY <1>1, <1>8
  <2> QED
    BY <2>1
<1>10. ~end.hit => end.reached \subseteq Ends(p, out, e)
  BY <1>1, <1>9
<1>11. Len(p) \in end.reached => Holds(p, out)
  <2>1. CASE end.hit
    BY <1>9, <2>1
  <2>2. CASE ~end.hit
    <3>1. Len(p) \in end.reached => Len(p) \in Ends(p, out, e)
      BY <1>10, <2>2
    <3>2. e \in Nat
      BY <1>1
    <3> QED
      BY <1>1, <3>1, <3>2, WholeEnds
  <2> QED
    BY <2>1, <2>2
<1>12. end.hit => Len(p) \in end.reached
  BY <1>9
<1> QED
  BY <1>3, <1>10, <1>11, <1>12 DEF r

-----------------------------------------------------------------------------
(* What a monitor remembers of the output up to byte c.                    *)

NoPause == "pause" \notin Kinds
NoUpdate == "update" \notin Kinds

Condition(m) == m.definition.condition
Quiet(m) == Condition(m).kind = "quiet"

\* A matched literal is in the output; any other goes on with what it ends with.
Listens(m, out, c) ==
  Literal(m) => IF m.matched THEN Holds(Pattern(m), out)
                ELSE m.reached \subseteq Ends(Pattern(m), out, c)

\* The next check of a quiet monitor is a span after the output.
Waits(m, out, c) ==
  Quiet(m) /\ m.state # "paused" =>
    \/ m.nextCheck = None
    \/ m.nextCheck \in Nat /\ (c > 0 => out[c].at + Condition(m).span <= m.nextCheck)

Fits(m, out, c) ==
  /\ ConditionOK(Condition(m))
  /\ m.state = "degraded" => m.reached = {} /\ m.nextCheck = None
  /\ NoPause => m.state # "paused" /\ Listens(m, out, c)
  /\ Waits(m, out, c)

\* One that hears nothing has not to read on, nor one that does not look at output.
LEMMA DeafFits ==
  ASSUME NEW m, NEW out, NEW c, NEW e, Fits(m, out, c),
         Deaf(m) \/ Condition(m).kind \notin {"output", "quiet"}
  PROVE  Fits(m, out, e)
<1>1. CASE Deaf(m)
  BY <1>1 DEF Fits, Deaf, Listens, Waits
<1>2. CASE Condition(m).kind \notin {"output", "quiet"}
  BY <1>2 DEF Fits, Listens, Waits, Literal, Quiet, Condition
<1> QED
  BY <1>1, <1>2

LEMMA AlikeFits ==
  ASSUME NEW m, NEW n, NEW out, NEW c, Fits(m, out, c), Alike(n, m)
  PROVE  Fits(n, out, c)
BY DEF Fits, Listens, Waits, Literal, Pattern, Quiet, Condition, Alike

LEMMA Judged ==
  ASSUME NEW m, MonitorOK(m), NEW what, NEW holds, NEW t
  PROVE  LET n == Judge(m, what, holds, t).monitor
         IN  /\ n.definition = m.definition /\ n.reached = m.reached
             /\ n.nextCheck = Rescheduled(m, what, t) /\ n.matched = (m.matched \/ holds)
             /\ n.state = IF holds /\ ~m.matched THEN "matched" ELSE m.state
<1> DEFINE fresh == holds /\ ~m.matched
           checks == m.checks + 1
           check == Rescheduled(m, what, t)
           matched == m.matched \/ holds
           state == IF fresh THEN "matched" ELSE m.state
           n == [m EXCEPT !.checks = checks, !.nextCheck = check, !.matched = matched,
                          !.state = state]
           names == {"id", "definition", "state", "deadline", "nextCheck", "nextNotice", "checks",
                     "lastReason", "matched", "reached"}
<1>1. DOMAIN m = names
  BY DEF MonitorOK
<1>2. Judge(m, what, holds, t).monitor = n
  <2> HIDE DEF checks, check, matched, state
  <2> QED
    BY DEF Judge, checks, check, matched, state
<1> HIDE DEF checks, check, matched, state
<1>3. /\ n.definition = m.definition /\ n.reached = m.reached
      /\ n.nextCheck = check /\ n.matched = matched /\ n.state = state
  BY <1>1
<1> HIDE DEF n
<1> QED
  BY <1>2, <1>3, Zenon DEF check, matched, state

\* Monitor::observe, when the judgement is sound for what the monitor waits for.
LEMMA JudgedFits ==
  ASSUME NEW m, MonitorOK(m), NEW out, NEW c, NEW e, Fits(m, out, c), ~Deaf(m),
         NEW what, NEW holds, NEW t,
         NoPause /\ Literal(m) /\ (m.matched \/ holds) => Holds(Pattern(m), out),
         NoPause /\ Literal(m) /\ ~(m.matched \/ holds) =>
           m.reached \subseteq Ends(Pattern(m), out, e),
         Quiet(m) => /\ Rescheduled(m, what, t) \in Nat
                     /\ e > 0 => out[e].at + Condition(m).span <= Rescheduled(m, what, t)
  PROVE  Fits(Judge(m, what, holds, t).monitor, out, e)
<1> DEFINE n == Judge(m, what, holds, t).monitor
           matched == m.matched \/ holds
           check == Rescheduled(m, what, t)
<1>1. /\ n.definition = m.definition /\ n.reached = m.reached
      /\ n.nextCheck = check /\ n.matched = matched
      /\ n.state \in {"matched", m.state}
  BY Judged
<1> HIDE DEF n, matched, check
<1>2. m.state \notin {"paused", "degraded"} /\ n.state \notin {"paused", "degraded"}
  BY <1>1 DEF Deaf
<1>3. Literal(n) = Literal(m) /\ Pattern(n) = Pattern(m) /\ Quiet(n) = Quiet(m)
      /\ Condition(n) = Condition(m)
  BY <1>1 DEF Literal, Pattern, Quiet, Condition
<1>4. NoPause => Listens(n, out, e)
  <2>1. CASE matched
    BY <1>1, <1>3, <2>1 DEF Listens, matched
  <2>2. CASE ~matched
    BY <1>1, <1>3, <2>2 DEF Listens, matched
  <2> QED
    BY <2>1, <2>2
<1>5. Waits(n, out, e)
  BY <1>1, <1>3 DEF Waits, check
<1> QED
  BY <1>2, <1>3, <1>4, <1>5 DEF Fits, n

\* observe does nothing, lets the monitor go, or judges.
LEMMA Observed ==
  ASSUME NEW m, MonitorOK(m), NEW what, NEW holds, NEW t
  PROVE  LET d == Observe(m, what, holds, t)
         IN  /\ d.monitor.definition = m.definition
             /\ \/ d.remove
                \/ Deaf(m) /\ d.monitor = m
                \/ ~Deaf(m) /\ d.monitor = Judge(m, what, holds, t).monitor
<1>1. Judge(m, what, holds, t).monitor.definition = m.definition
  BY Judged
<1> DEFINE j == Judge(m, what, holds, t)
<1> HIDE DEF j
<1>2. /\ Ignore(m).monitor = m /\ \A x : Retire(m, x).monitor = m /\ Retire(m, x).remove
  BY DEF Ignore, Retire
<1>3. Observe(m, what, holds, t) =
        IF Deaf(m) THEN Ignore(m)
        ELSE IF Expired(m, t) THEN Retire(m, StateNotice(m, "expired")) ELSE j
  BY Zenon DEF Observe, j
<1> QED
  BY <1>1, <1>2, <1>3 DEF j

-----------------------------------------------------------------------------
(* Sound decisions: the monitor that stays fits the output up to byte c,   *)
(* and one on quiet reports when there was no output for its span.         *)

Three == {"matched", "state_changed", "check"}

Sound(m, d, out, c, view) ==
  /\ d.monitor.definition = m.definition
  /\ ~d.remove => Fits(d.monitor, out, c)
  /\ d.notify # None /\ Quiet(m) /\ d.notify \in Three /\ view.cursor > 0 =>
       /\ view.cursor <= Len(out)
       /\ out[view.cursor].at + Condition(m).span <= view.now

\* The output, each byte with the time it was written at, up to t.
Dated(out, t) == Len(out) \in Nat /\ \A i \in 1 .. Len(out) : out[i].at \in Nat /\ out[i].at <= t

\* The decision about new output.
LEMMA OutputSound ==
  ASSUME NEW m, MonitorOK(m), NEW out, NEW obs, NEW c, NEW e, Chunk(obs.output, out, c, e),
         Fits(m, out, c), ~Deaf(m), NEW answers, NEW view, view.now \in Nat, Dated(out, view.now)
  PROVE  Sound(m, OutputDecision(m, obs, answers, view.now), out, e, view)
<1> DEFINE t == view.now
           d == OutputDecision(m, obs, answers, t)
<1>0. /\ t \in Nat /\ Dated(out, t) /\ Len(out) \in Nat
      /\ c \in Nat /\ e \in Nat /\ c <= e /\ e <= Len(out) /\ ConditionOK(Condition(m))
  BY DEF Chunk, Dated, Fits
<1>1. CASE Condition(m).kind = "output"
  <2> DEFINE r == PatternFed(Pattern(m), Condition(m).wildcard, m.reached, obs.output)
             reached == r.reached
             hit == r.hit
             fed == [m EXCEPT !.reached = reached]
  <2>1. d = Observe(fed, "output", hit, t)
    <3> HIDE DEF t
    <3> QED
      BY <1>1, Zenon DEF OutputDecision, Fed, Pattern, Condition
  <2>2. NoPause /\ Literal(m) /\ ~m.matched =>
          (hit => Holds(Pattern(m), out)) /\ (~hit => reached \subseteq Ends(Pattern(m), out, e))
    <3>1. ASSUME NoPause, Literal(m), ~m.matched
          PROVE  /\ hit => Holds(Pattern(m), out)
                 /\ ~hit => reached \subseteq Ends(Pattern(m), out, e)
      <4> DEFINE p == Pattern(m)
                 w == Condition(m).wildcard
                 old == m.reached
                 chunk == obs.output
      <4>1. old \subseteq Ends(p, out, c)
        BY <3>1 DEF Fits, Listens
      <4>2. ~w
        BY <3>1 DEF Literal, Condition
      <4>3. Len(p) \in Nat
        <5>1. p \in Seq(Range(p))
          BY <1>0, <1>1 DEF ConditionOK, Pattern, Condition
        <5> HIDE DEF p
        <5> QED
          BY <5>1, LenProperties
      <4>4. Chunk(chunk, out, c, e)
        OBVIOUS
      <4> HIDE DEF p, w, old, chunk, hit, reached
      <4> QED
        BY <1>0, <4>1, <4>2, <4>3, <4>4, LiteralFed DEF p, w, old, chunk, hit, reached
    <3> QED
      BY <3>1
  <2> HIDE DEF reached, hit, d, t
  <2>3. /\ MonitorOK(fed) /\ fed.definition = m.definition /\ fed.state = m.state
        /\ fed.matched = m.matched /\ fed.reached = reached
    BY DEF MonitorOK
  <2> HIDE DEF fed
  <2>4. ~Deaf(fed) /\ (Literal(fed) <=> Literal(m)) /\ Pattern(fed) = Pattern(m) /\ ~Quiet(fed)
        /\ Condition(fed) = Condition(m) /\ ~Quiet(m)
    BY <1>1, <2>3 DEF Deaf, Literal, Pattern, Quiet, Condition
  <2>5. Fits(Judge(fed, "output", hit, t).monitor, out, e)
    <3> DEFINE n == Judge(fed, "output", hit, t).monitor
    <3>1. /\ n.definition = fed.definition /\ n.reached = fed.reached
          /\ n.matched = (fed.matched \/ hit)
          /\ n.state \in {"matched", fed.state}
      BY <2>3, Judged
    <3> HIDE DEF n
    <3>2. n.state \notin {"paused", "degraded"}
      BY <2>4, <3>1 DEF Deaf
    <3>3. (Literal(n) <=> Literal(m)) /\ Pattern(n) = Pattern(m) /\ ~Quiet(n)
          /\ Condition(n) = Condition(m)
      BY <2>3, <2>4, <3>1 DEF Literal, Pattern, Quiet, Condition
    <3>4. NoPause => Listens(n, out, e)
      <4>1. SUFFICES ASSUME NoPause, Literal(m)
                     PROVE  IF n.matched THEN Holds(Pattern(m), out)
                            ELSE n.reached \subseteq Ends(Pattern(m), out, e)
        BY <3>3 DEF Listens
      <4>2. CASE m.matched
        <5>1. Holds(Pattern(m), out)
          BY <4>1, <4>2 DEF Fits, Listens
        <5>2. n.matched
          BY <2>3, <3>1, <4>2
        <5> QED
          BY <5>1, <5>2
      <4>3. CASE ~m.matched /\ hit
        BY <2>2, <2>3, <3>1, <4>1, <4>3
      <4>4. CASE ~m.matched /\ ~hit
        BY <2>2, <2>3, <3>1, <4>1, <4>4
      <4> QED
        BY <4>2, <4>3, <4>4
    <3> QED
      BY <1>0, <3>2, <3>3, <3>4 DEF Fits, Waits, n
  <2>6. d.monitor.definition = fed.definition
        /\ (d.remove \/ d.monitor = Judge(fed, "output", hit, t).monitor)
    BY <2>1, <2>3, <2>4, Observed
  <2>7. Sound(m, d, out, e, view)
    BY <2>3, <2>4, <2>5, <2>6 DEF Sound
  <2> QED
    BY <2>7 DEF d, t
<1>2. CASE Quiet(m)
  <2> DEFINE noted == NoteOutput(m, t)
             span == t + m.definition.condition.span
  <2>1. d = Ignore(noted)
    <3> HIDE DEF noted
    <3> QED
      BY <1>2 DEF OutputDecision, Quiet, Condition, noted
  <2>2. noted = [m EXCEPT !.nextCheck = span]
    BY DEF NoteOutput
  <2>3. Condition(m).span \in Nat /\ span = t + Condition(m).span
    BY <1>0, <1>2 DEF ConditionOK, Quiet, Condition
  <2>4. span \in Nat /\ (e > 0 => out[e].at + Condition(m).span <= span)
    <3>1. e > 0 => out[e].at \in Nat /\ out[e].at <= t
      BY <1>0 DEF Dated
    <3> HIDE DEF span, t
    <3> QED
      BY <1>0, <2>3, <3>1
  <2> HIDE DEF span, noted, d, t
  <2>5. noted.definition = m.definition /\ noted.state = m.state /\ noted.nextCheck = span
    BY <2>2 DEF MonitorOK
  <2>6. Fits(noted, out, e)
    <3>1. m.state \notin {"paused", "degraded"}
      BY DEF Deaf
    <3>2. Condition(noted) = Condition(m) /\ ~Literal(noted) /\ Quiet(noted)
      BY <1>2, <2>5 DEF Condition, Literal, Quiet
    <3> QED
      BY <1>0, <2>4, <2>5, <3>1, <3>2 DEF Fits, Listens, Waits
  <2>7. d.monitor = noted /\ d.notify = None
    BY <2>1 DEF Ignore
  <2>8. Sound(m, d, out, e, view)
    BY <2>5, <2>6, <2>7 DEF Sound
  <2> QED
    BY <2>8 DEF d, t
<1>3. CASE Condition(m).kind \notin {"output", "quiet"}
  <2> DEFINE screen == answers.screen
  <2>1. d = Observe(m, "screen", screen, t) \/ d = Ignore(m)
    BY <1>3 DEF OutputDecision, Condition
  <2>2. Fits(m, out, e)
    BY <1>3, DeafFits
  <2> HIDE DEF d, t, screen
  <2>3. Fits(Judge(m, "screen", screen, t).monitor, out, e)
    <3>1. ~Literal(m) /\ ~Quiet(m)
      BY <1>3 DEF Literal, Quiet, Condition
    <3> QED
      BY <3>1, JudgedFits
  <2>4. d.monitor.definition = m.definition
        /\ (d.remove \/ d.monitor = m \/ d.monitor = Judge(m, "screen", screen, t).monitor)
    <3>1. Ignore(m).monitor = m
      BY DEF Ignore
    <3> QED
      BY <2>1, <3>1, Observed
  <2>5. ~Quiet(m)
    BY <1>3 DEF Quiet
  <2>6. Sound(m, d, out, e, view)
    BY <2>2, <2>3, <2>4, <2>5 DEF Sound
  <2> QED
    BY <2>6 DEF d, t
<1> QED
  BY <1>1, <1>2, <1>3 DEF Quiet

\* The decision about the time.
Timed(m, t) == IF QuietDue(m, t) THEN Observe(m, "quiet", TRUE, t) ELSE TimerDecision(m, t)

LEMMA TimedSound ==
  ASSUME NEW m, MonitorOK(m), NEW out, NEW c \in Nat, c <= Len(out), Fits(m, out, c),
         NEW view, view.now \in Nat, view.cursor = c, Dated(out, view.now)
  PROVE  Sound(m, Timed(m, view.now), out, c, view)
<1> DEFINE t == view.now
           d == Timed(m, t)
<1>0. /\ t \in Nat /\ Dated(out, t) /\ Len(out) \in Nat /\ ConditionOK(Condition(m))
      /\ c > 0 => out[c].at \in Nat /\ out[c].at <= t
  BY DEF Dated, Fits
<1>1. CASE QuietDue(m, t)
  <2>1. d = Observe(m, "quiet", TRUE, t)
    BY <1>1 DEF Timed
  <2>2. m.state # "paused" /\ Quiet(m) /\ m.nextCheck # None /\ t >= m.nextCheck
    BY <1>1 DEF QuietDue, Due, Quiet, Condition
  <2>3. m.nextCheck \in Nat /\ (c > 0 => out[c].at + Condition(m).span <= m.nextCheck)
    BY <2>2 DEF Fits, Waits
  <2>4. Condition(m).span \in Nat
    BY <1>0, <2>2 DEF ConditionOK, Quiet
  <2>5. c > 0 => out[c].at + Condition(m).span <= t
    BY <1>0, <2>2, <2>3, <2>4
  <2>6. Rescheduled(m, "quiet", t) = t + Condition(m).span
    BY DEF Rescheduled, Condition
  <2>7. ~Deaf(m)
    BY <2>2 DEF Fits, Deaf
  <2> HIDE DEF d, t
  <2>8. Fits(Judge(m, "quiet", TRUE, t).monitor, out, c)
    <3>1. ~Literal(m)
      BY <2>2 DEF Literal, Quiet, Condition
    <3>2. /\ Rescheduled(m, "quiet", t) \in Nat
          /\ c > 0 => out[c].at + Condition(m).span <= Rescheduled(m, "quiet", t)
      BY <1>0, <2>4, <2>6
    <3> QED
      BY <2>7, <3>1, <3>2, JudgedFits
  <2>9. d.monitor.definition = m.definition
        /\ (d.remove \/ d.monitor = Judge(m, "quiet", TRUE, t).monitor)
    <3> DEFINE yes == TRUE
    <3>1. d = Observe(m, "quiet", yes, t)
      BY <2>1
    <3> HIDE DEF yes
    <3>2. d.monitor.definition = m.definition
          /\ (d.remove \/ d.monitor = Judge(m, "quiet", yes, t).monitor)
      BY <2>7, <3>1, Observed
    <3> QED
      BY <3>2 DEF yes
  <2>10. Sound(m, d, out, c, view)
    BY <2>5, <2>8, <2>9 DEF Sound, t
  <2> QED
    BY <2>10 DEF d, t
<1>2. CASE ~QuietDue(m, t)
  <2> DEFINE next == AdvanceDeadline(m.nextNotice, m.definition.notify.every, t)
             n == [m EXCEPT !.nextNotice = next]
  <2>1. d = TimerDecision(m, t)
    BY <1>2 DEF Timed
  <2>2. \/ d = Retire(m, StateNotice(m, "expired")) \/ d = Ignore(m)
        \/ d = [Ignore(m) EXCEPT !.monitor.nextNotice = next, !.notify = "interval",
                                 !.changed = TRUE]
    <3> HIDE DEF next
    <3> QED
      BY <2>1 DEF TimerDecision, next
  <2>3. Alike(n, m)
    <3> HIDE DEF next
    <3> QED
      BY DEF MonitorOK, Alike
  <2>4. Alike(m, m)
    BY DEF Alike
  <2>5. Alike(d.monitor, m) /\ d.notify \in {None, "expired", "interval"}
    <3>1. CASE d = Retire(m, StateNotice(m, "expired"))
      BY <2>4, <3>1, StateNotices DEF Retire
    <3>2. CASE d = Ignore(m)
      BY <2>4, <3>2 DEF Ignore
    <3>3. CASE d = [Ignore(m) EXCEPT !.monitor.nextNotice = next, !.notify = "interval",
                                     !.changed = TRUE]
      <4>1. d.monitor = n /\ d.notify = "interval"
        <5> HIDE DEF d, next
        <5> QED
          BY <3>3 DEF Ignore
      <4> QED
        BY <2>3, <4>1
    <3> QED
      BY <2>2, <3>1, <3>2, <3>3
  <2> HIDE DEF d, t
  <2>6. Fits(d.monitor, out, c)
    BY <2>5, AlikeFits
  <2>7. Sound(m, d, out, c, view)
    BY <2>5, <2>6 DEF Sound, Three, Alike
  <2> QED
    BY <2>7 DEF d, t
<1> QED
  BY <1>1, <1>2

\* The decision about a probe.
LEMMA PolledSound ==
  ASSUME NEW m, MonitorOK(m), NEW out, NEW c, Fits(m, out, c), NEW holds, NEW view,
         PollingDue(m, view.now)
  PROVE  Sound(m, Observe(m, "check", holds, view.now), out, c, view)
<1> DEFINE t == view.now
           d == Observe(m, "check", holds, t)
<1>1. ~Deaf(m) /\ Condition(m).kind = "poll"
  BY DEF PollingDue, Condition
<1>2. ~Literal(m) /\ ~Quiet(m)
  BY <1>1 DEF Literal, Quiet, Condition
<1> HIDE DEF t
<1>3. Fits(Judge(m, "check", holds, t).monitor, out, c)
  BY <1>1, <1>2, JudgedFits
<1>4. d.monitor.definition = m.definition
      /\ (d.remove \/ d.monitor = Judge(m, "check", holds, t).monitor)
  BY <1>1, Observed
<1> HIDE DEF d
<1>5. Sound(m, d, out, c, view)
  BY <1>2, <1>3, <1>4 DEF Sound
<1> QED
  BY <1>5 DEF d, t

-----------------------------------------------------------------------------
(* A set whose monitors have read the output up to byte e, if they are     *)
(* among those that have heard of it, or else up to byte c.                *)

\* A monitor on quiet has reported when there was no output for its span.
Reports(s, out) ==
  \A x \in Members(s.events), m \in Members(s.monitors) :
    x.monitor = m.id /\ Quiet(m) /\ x.reason \in Three /\ x.cursor > 0 =>
      x.cursor <= Len(out) /\ out[x.cursor].at + Condition(m).span <= x.at

AllFit(q, out, heard, c, e) ==
  \A m \in Members(q) : Fits(m, out, IF m.id \in heard THEN e ELSE c)

Fine(s, out, heard, c, e) ==
  AllFit(s.monitors, out, heard, c, e) /\ (NoUpdate => Reports(s, out))

ReadTo(s, out, c) == Fine(s, out, {}, c, c)

\* An observation of the output after byte c, up to byte e.
Reads(out, obs, c, e, view) == Chunk(obs.output, out, c, e) /\ Dated(out, view.now)

\* Only the monitors and the events of a set matter.
LEMMA SameRead ==
  ASSUME NEW s, NEW r, r.monitors = s.monitors, r.events = s.events,
         NEW out, NEW c, ReadTo(s, out, c)
  PROVE  ReadTo(r, out, c)
BY DEF ReadTo, Fine, AllFit, Reports

\* A set without monitors has nothing to read.
LEMMA NoneRead ==
  ASSUME NEW s, Len(s.monitors) = 0, NEW out, NEW c
  PROVE  ReadTo(s, out, c)
BY DEF ReadTo, Fine, AllFit, Reports, Members

\* A sound decision about a monitor that has now heard.
LEMMA DecidedFine ==
  ASSUME NEW s, SetOK(s), NEW i \in 1 .. Len(s.monitors), NEW d, NEW view, NEW r,
         Touches(s, i, d, view, r), d.monitor.id = s.monitors[i].id,
         NEW out, NEW heard, NEW c, NEW e, Fine(s, out, heard, c, e),
         NEW later, \A id : id # s.monitors[i].id => (id \in later <=> id \in heard),
         Sound(s.monitors[i], d, out, IF s.monitors[i].id \in later THEN e ELSE c, view)
  PROVE  Fine(r, out, later, c, e)
<1> DEFINE m == s.monitors[i]
           point == IF m.id \in later THEN e ELSE c
<1>1. m \in Members(s.monitors)
  BY DEF Members
<1>2. /\ d.monitor.definition = m.definition
      /\ ~d.remove => Fits(d.monitor, out, point)
      /\ d.notify # None /\ Quiet(m) /\ d.notify \in Three /\ view.cursor > 0 =>
           /\ view.cursor <= Len(out)
           /\ out[view.cursor].at + Condition(m).span <= view.now
  BY DEF Sound
<1>3. ASSUME NEW n \in Members(r.monitors)
      PROVE  \/ n \in Members(s.monitors) /\ n.id # m.id
             \/ ~d.remove /\ Alike(n, d.monitor)
  BY <1>3 DEF Touches
<1> HIDE DEF m
<1>4. ASSUME NEW n \in Members(r.monitors)
      PROVE  Fits(n, out, IF n.id \in later THEN e ELSE c)
  <2>1. CASE n \in Members(s.monitors) /\ n.id # m.id
    <3>1. Fits(n, out, IF n.id \in heard THEN e ELSE c)
      BY <2>1 DEF Fine, AllFit
    <3> QED
      BY <2>1, <3>1 DEF m
  <2>2. CASE ~d.remove /\ Alike(n, d.monitor)
    <3>1. n.id = m.id
      BY <2>2 DEF Alike, m
    <3>2. Fits(n, out, point)
      BY <1>2, <2>2, AlikeFits
    <3> QED
      BY <3>1, <3>2
  <2> QED
    BY <1>3, <2>1, <2>2
<1>5. ASSUME NoUpdate
      PROVE  Reports(r, out)
  <2>1. SUFFICES ASSUME NEW x \in Members(r.events), NEW n \in Members(r.monitors),
                        x.monitor = n.id, Quiet(n), x.reason \in Three, x.cursor > 0
                 PROVE  x.cursor <= Len(out) /\ out[x.cursor].at + Condition(n).span <= x.at
    BY DEF Reports
  <2>2. CASE n \in Members(s.monitors) /\ n.id # m.id
    <3>1. x \in Members(s.events)
      BY <2>1, <2>2 DEF Touches, m
    <3> QED
      BY <1>5, <2>1, <2>2, <3>1 DEF Fine, Reports
  <2>3. CASE ~d.remove /\ Alike(n, d.monitor)
    <3>1. n.id = m.id /\ Condition(n) = Condition(m) /\ Quiet(m)
      BY <1>2, <2>1, <2>3 DEF Alike, Condition, Quiet, m
    <3>2. CASE x \in Members(s.events)
      BY <1>1, <1>5, <2>1, <3>1, <3>2 DEF Fine, Reports
    <3>3. CASE /\ d.notify # None /\ x.reason = d.notify
               /\ x.cursor = view.cursor /\ x.at = view.now
      BY <1>2, <2>1, <3>1, <3>3
    <3> QED
      BY <2>1, <3>2, <3>3 DEF Touches
  <2> QED
    BY <1>3, <2>1, <2>2, <2>3
<1> QED
  BY <1>4, <1>5 DEF Fine, AllFit

-----------------------------------------------------------------------------
(* The passes of an evaluation go through the monitors one by one.         *)

IsLeft(f, s, outcome, view, n) ==
  f = [k \in 0 .. n |-> IF k = 0 THEN s ELSE EndFirst(f[k - 1], outcome, view)]

IsHeard(f, s, ids, obs, answers, view, n) ==
  f = [k \in 0 .. n |-> IF k = 0 THEN s ELSE HearOne(f[k - 1], ids[k], obs, answers, view)]

IsTimed(f, p, ids, view, n) ==
  f = [k \in 0 .. n |-> IF k = 0 THEN p ELSE TimeOne(f[k - 1], ids[k], view)]

LEMMA LeftExists ==
  ASSUME NEW s, NEW outcome, NEW view, NEW n \in Nat
  PROVE  \E f : IsLeft(f, s, outcome, view, n)
<1> DEFINE T == {j \in Nat : \E f : IsLeft(f, s, outcome, view, j)}
<1>1. 0 \in T
  <2> DEFINE f == [k \in 0 .. 0 |-> s]
  <2>1. IsLeft(f, s, outcome, view, 0)
    BY DEF IsLeft
  <2> QED
    BY <2>1
<1>2. ASSUME NEW j \in T
      PROVE  j + 1 \in T
  <2>1. PICK f : IsLeft(f, s, outcome, view, j)
    OBVIOUS
  <2>2. j \in Nat
    OBVIOUS
  <2> DEFINE g == [k \in 0 .. (j + 1) |->
                     IF k <= j THEN f[k] ELSE EndFirst(f[k - 1], outcome, view)]
             G == [k \in 0 .. (j + 1) |-> IF k = 0 THEN s ELSE EndFirst(g[k - 1], outcome, view)]
  <2>3. \A k \in 0 .. j : f[k] = IF k = 0 THEN s ELSE EndFirst(f[k - 1], outcome, view)
    BY <2>1 DEF IsLeft
  <2>4. ASSUME NEW k \in 0 .. (j + 1)
        PROVE  g[k] = G[k]
    <3>1. CASE k = 0
      BY <2>2, <2>3, <3>1
    <3>2. CASE k \in 1 .. j
      <4>1. k - 1 \in 0 .. (j + 1) /\ k \in 0 .. j /\ k <= j /\ k # 0 /\ k - 1 <= j
        BY <2>2, <3>2
      <4> QED
        BY <4>1, <2>3
    <3>3. CASE k = j + 1
      <4>1. k - 1 = j /\ ~(k <= j) /\ k # 0 /\ j <= j /\ j \in 0 .. (j + 1)
        BY <2>2, <3>3
      <4> QED
        BY <4>1
    <3> QED
      BY <2>2, <3>1, <3>2, <3>3
  <2>5. g = G
    BY <2>4
  <2>6. IsLeft(g, s, outcome, view, j + 1)
    BY <2>5 DEF IsLeft
  <2> QED
    BY <2>2, <2>6
<1>3. T = Nat
  <2> HIDE DEF T
  <2>1. T \in SUBSET Nat
    BY DEF T
  <2> QED
    BY <1>1, <1>2, <2>1, SetInduction
<1> QED
  BY <1>3

LEMMA HeardExists ==
  ASSUME NEW s, NEW ids, NEW obs, NEW answers, NEW view, NEW n \in Nat
  PROVE  \E f : IsHeard(f, s, ids, obs, answers, view, n)
<1> DEFINE T == {j \in Nat : \E f : IsHeard(f, s, ids, obs, answers, view, j)}
<1>1. 0 \in T
  <2> DEFINE f == [k \in 0 .. 0 |-> s]
  <2>1. IsHeard(f, s, ids, obs, answers, view, 0)
    BY DEF IsHeard
  <2> QED
    BY <2>1
<1>2. ASSUME NEW j \in T
      PROVE  j + 1 \in T
  <2>1. PICK f : IsHeard(f, s, ids, obs, answers, view, j)
    OBVIOUS
  <2>2. j \in Nat
    OBVIOUS
  <2> DEFINE g == [k \in 0 .. (j + 1) |->
                     IF k <= j THEN f[k] ELSE HearOne(f[k - 1], ids[k], obs, answers, view)]
             G == [k \in 0 .. (j + 1) |->
                     IF k = 0 THEN s ELSE HearOne(g[k - 1], ids[k], obs, answers, view)]
  <2>3. \A k \in 0 .. j : f[k] = IF k = 0 THEN s ELSE HearOne(f[k - 1], ids[k], obs, answers, view)
    BY <2>1 DEF IsHeard
  <2>4. ASSUME NEW k \in 0 .. (j + 1)
        PROVE  g[k] = G[k]
    <3>1. CASE k = 0
      BY <2>2, <2>3, <3>1
    <3>2. CASE k \in 1 .. j
      <4>1. k - 1 \in 0 .. (j + 1) /\ k \in 0 .. j /\ k <= j /\ k # 0 /\ k - 1 <= j
        BY <2>2, <3>2
      <4> QED
        BY <4>1, <2>3
    <3>3. CASE k = j + 1
      <4>1. k - 1 = j /\ ~(k <= j) /\ k # 0 /\ j <= j /\ j \in 0 .. (j + 1)
        BY <2>2, <3>3
      <4> QED
        BY <4>1
    <3> QED
      BY <2>2, <3>1, <3>2, <3>3
  <2>5. g = G
    BY <2>4
  <2>6. IsHeard(g, s, ids, obs, answers, view, j + 1)
    BY <2>5 DEF IsHeard
  <2> QED
    BY <2>2, <2>6
<1>3. T = Nat
  <2> HIDE DEF T
  <2>1. T \in SUBSET Nat
    BY DEF T
  <2> QED
    BY <1>1, <1>2, <2>1, SetInduction
<1> QED
  BY <1>3

LEMMA TimedExists ==
  ASSUME NEW p, NEW ids, NEW view, NEW n \in Nat
  PROVE  \E f : IsTimed(f, p, ids, view, n)
<1> DEFINE T == {j \in Nat : \E f : IsTimed(f, p, ids, view, j)}
<1>1. 0 \in T
  <2> DEFINE f == [k \in 0 .. 0 |-> p]
  <2>1. IsTimed(f, p, ids, view, 0)
    BY DEF IsTimed
  <2> QED
    BY <2>1
<1>2. ASSUME NEW j \in T
      PROVE  j + 1 \in T
  <2>1. PICK f : IsTimed(f, p, ids, view, j)
    OBVIOUS
  <2>2. j \in Nat
    OBVIOUS
  <2> DEFINE g == [k \in 0 .. (j + 1) |-> IF k <= j THEN f[k] ELSE TimeOne(f[k - 1], ids[k], view)]
             G == [k \in 0 .. (j + 1) |-> IF k = 0 THEN p ELSE TimeOne(g[k - 1], ids[k], view)]
  <2>3. \A k \in 0 .. j : f[k] = IF k = 0 THEN p ELSE TimeOne(f[k - 1], ids[k], view)
    BY <2>1 DEF IsTimed
  <2>4. ASSUME NEW k \in 0 .. (j + 1)
        PROVE  g[k] = G[k]
    <3>1. CASE k = 0
      BY <2>2, <2>3, <3>1
    <3>2. CASE k \in 1 .. j
      <4>1. k - 1 \in 0 .. (j + 1) /\ k \in 0 .. j /\ k <= j /\ k # 0 /\ k - 1 <= j
        BY <2>2, <3>2
      <4> QED
        BY <4>1, <2>3
    <3>3. CASE k = j + 1
      <4>1. k - 1 = j /\ ~(k <= j) /\ k # 0 /\ j <= j /\ j \in 0 .. (j + 1)
        BY <2>2, <3>3
      <4> QED
        BY <4>1
    <3> QED
      BY <2>2, <3>1, <3>2, <3>3
  <2>5. g = G
    BY <2>4
  <2>6. IsTimed(g, p, ids, view, j + 1)
    BY <2>5 DEF IsTimed
  <2> QED
    BY <2>2, <2>6
<1>3. T = Nat
  <2> HIDE DEF T
  <2>1. T \in SUBSET Nat
    BY DEF T
  <2> QED
    BY <1>1, <1>2, <2>1, SetInduction
<1> QED
  BY <1>3

\* end_monitors.
LEMMA Ended ==
  ASSUME NEW s0, SetOK(s0), NEW s, Carries(s0, s), NEW outcome, NEW view, ViewOK(view)
  PROVE  /\ Carries(s0, EndMonitors(s, outcome, view))
         /\ Len(EndMonitors(s, outcome, view).monitors) = 0
         /\ EndMonitors(s, outcome, view).cursor = s.cursor
<1> DEFINE n == Len(s.monitors)
<1>1. SetOK(s) /\ n \in Nat
  <2>1. SetOK(s)
    BY DEF Carries
  <2> QED
    BY <2>1, SetParts
<1> DEFINE left[k \in 0 .. n] == IF k = 0 THEN s ELSE EndFirst(left[k - 1], outcome, view)
<1>2. EndMonitors(s, outcome, view) = left[n]
  BY DEF EndMonitors
<1>3. IsLeft(left, s, outcome, view, n)
  <2>1. \E f : IsLeft(f, s, outcome, view, n)
    BY <1>1, LeftExists
  <2> QED
    BY <2>1 DEF IsLeft
<1> HIDE DEF left, n
<1>4. /\ left[0] = s
      /\ \A k \in 0 .. n : k # 0 => left[k] = EndFirst(left[k - 1], outcome, view)
  BY <1>1, <1>3 DEF IsLeft
<1> DEFINE Right(k) == /\ Carries(s0, left[k]) /\ Len(left[k].monitors) = n - k
                       /\ left[k].cursor = s.cursor
           T == {k \in Nat : k <= n => Right(k)}
<1>5. 0 \in T
  <2>1. Len(s.monitors) = n - 0
    BY <1>1 DEF n
  <2> QED
    BY <1>4, <2>1
<1>6. ASSUME NEW k \in T
      PROVE  k + 1 \in T
  <2>1. CASE k < n
    <3>1. k \in Nat /\ k <= n /\ k + 1 \in 0 .. n /\ k + 1 # 0 /\ (k + 1) - 1 = k
      BY <1>1, <2>1
    <3>2. Carries(s0, left[k]) /\ Len(left[k].monitors) = n - k /\ left[k].cursor = s.cursor
      BY <3>1
    <3> DEFINE p == left[k]
               m == p.monitors[1]
               d == FinalDecision(m, view.lifecycle, outcome, view.now)
    <3>3. left[k + 1] = EndFirst(p, outcome, view)
      BY <1>4, <3>1, Zenon
    <3>4. left[k + 1] = ApplyDecision(p, 1, d, view)
      BY <3>3, Zenon DEF EndFirst
    <3>5. 1 \in 1 .. Len(p.monitors)
      BY <1>1, <2>1, <3>1, <3>2
    <3> HIDE DEF p
    <3>6. Carries(s0, p) /\ SetOK(p)
      BY <3>2 DEF p, Carries
    <3>7. MonitorOK(m)
      BY <3>5, <3>6, SetParts
    <3>8. DecisionOK(m, d, view.now) /\ d.remove
      <4> HIDE DEF m
      <4> QED
        BY <3>7, FinalOK
    <3>9. /\ Carries(s0, left[k + 1]) /\ Follows(p, 1, d, left[k + 1])
          /\ Touches(p, 1, d, view, left[k + 1])
      <4> HIDE DEF d
      <4>1. DecisionOK(p.monitors[1], d, view.now)
        BY <3>8
      <4> QED
        BY <3>4, <3>5, <3>6, <4>1, Decided, Zenon
    <3>10. Len(left[k + 1].monitors) = Len(p.monitors) - 1
      <4> HIDE DEF d
      <4> QED
        BY <3>8, <3>9 DEF Follows
    <3>11. Len(left[k + 1].monitors) = n - (k + 1)
      BY <1>1, <3>1, <3>2, <3>10 DEF p
    <3>12. left[k + 1].cursor = s.cursor
      <4> HIDE DEF d
      <4> QED
        BY <3>2, <3>9 DEF p, Touches
    <3> QED
      BY <3>1, <3>9, <3>11, <3>12
  <2>2. CASE ~(k < n)
    <3>1. k \in Nat /\ ~(k + 1 <= n)
      BY <1>1, <2>2
    <3> QED
      BY <3>1
  <2> QED
    BY <2>1, <2>2
<1>7. T = Nat
  <2>1. T \in SUBSET Nat
    OBVIOUS
  <2> HIDE DEF T
  <2> QED
    BY <1>5, <1>6, <2>1, SetInduction
<1>8. Right(n)
  <2>1. n \in T /\ n <= n
    BY <1>1, <1>7
  <2> QED
    BY <2>1
<1> QED
  BY <1>1, <1>2, <1>8

LEMMA Indexed ==
  ASSUME NEW s, SetOK(s), NEW id \in Ids(s.monitors)
  PROVE  /\ IndexOf(s, id) \in 1 .. Len(s.monitors)
         /\ s.monitors[IndexOf(s, id)].id = id
         /\ MonitorOK(s.monitors[IndexOf(s, id)])
<1>1. DOMAIN s.monitors = 1 .. Len(s.monitors)
  <2>1. s.monitors \in Seq(Members(s.monitors))
    BY SetParts DEF MonitorsOK
  <2> QED
    BY <2>1, LenProperties
<1>2. PICK i \in DOMAIN s.monitors : s.monitors[i].id = id
  BY <1>1 DEF Ids
<1>3. IndexOf(s, id) \in DOMAIN s.monitors /\ s.monitors[IndexOf(s, id)].id = id
  BY <1>2 DEF IndexOf
<1> QED
  BY <1>1, <1>3, SetParts

\* What one monitor makes of new output.
LEMMA HeardOne ==
  ASSUME NEW s0, SetOK(s0), NEW s, Carries(s0, s), NEW id \in Ids(s.monitors),
         NEW obs, NEW answers, NEW view, ViewOK(view)
  PROVE  /\ Carries(s0, HearOne(s, id, obs, answers, view))
         /\ Ids(s.monitors) \ {id} \subseteq Ids(HearOne(s, id, obs, answers, view).monitors)
<1> DEFINE i == IndexOf(s, id)
           m == s.monitors[i]
           d == OutputDecision(m, obs, answers, view.now)
           r == HearOne(s, id, obs, answers, view)
<1>1. SetOK(s)
  BY DEF Carries
<1>2. i \in 1 .. Len(s.monitors) /\ m.id = id /\ MonitorOK(m)
  BY <1>1, Indexed
<1>3. r = s \/ r = ApplyDecision(s, i, d, view)
  BY DEF HearOne
<1> HIDE DEF r, i
<1>4. CASE r = s
  BY <1>4 DEF r
<1>5. CASE r = ApplyDecision(s, i, d, view)
  <2>1. DecisionOK(m, d, view.now)
    <3> HIDE DEF m
    <3> QED
      BY <1>2, OutputOK
  <2> HIDE DEF d
  <2>2. DecisionOK(s.monitors[i], d, view.now)
    BY <2>1
  <2>3. Carries(s0, r) /\ Follows(s, i, d, r)
    BY <1>2, <1>5, <2>2, Decided, Zenon
  <2> QED
    BY <1>2, <2>3 DEF Follows, r
<1> QED
  BY <1>3, <1>4, <1>5

\* It has then read on.
LEMMA HeardFine ==
  ASSUME NEW s, SetOK(s), NEW id \in Ids(s.monitors), NEW obs, NEW answers, NEW view, ViewOK(view),
         NEW out, NEW heard, id \notin heard, NEW c, NEW e, Reads(out, obs, c, e, view),
         Fine(s, out, heard, c, e)
  PROVE  /\ HearOne(s, id, obs, answers, view).cursor = s.cursor
         /\ Ids(HearOne(s, id, obs, answers, view).monitors) \subseteq Ids(s.monitors)
         /\ Fine(HearOne(s, id, obs, answers, view), out, heard \cup {id}, c, e)
<1> DEFINE i == IndexOf(s, id)
           m == s.monitors[i]
           d == OutputDecision(m, obs, answers, view.now)
           r == HearOne(s, id, obs, answers, view)
           later == heard \cup {id}
<1>1. i \in 1 .. Len(s.monitors) /\ m.id = id /\ MonitorOK(m)
  BY Indexed
<1>2. r = IF Deaf(m) THEN s ELSE ApplyDecision(s, i, d, view)
  BY DEF HearOne
<1>3. Fits(m, out, c)
  <2>1. m \in Members(s.monitors)
    BY <1>1 DEF Members
  <2>2. Fits(m, out, IF m.id \in heard THEN e ELSE c)
    BY <2>1 DEF Fine, AllFit
  <2> HIDE DEF m
  <2> QED
    BY <1>1, <2>2
<1> HIDE DEF r, i
<1>4. CASE Deaf(m)
  <2>1. Fits(m, out, e)
    BY <1>3, <1>4, DeafFits
  <2>2. ASSUME NEW n \in Members(s.monitors)
        PROVE  Fits(n, out, IF n.id \in later THEN e ELSE c)
    <3>1. CASE n.id = id
      <4>1. PICK j \in 1 .. Len(s.monitors) : n = s.monitors[j]
        BY DEF Members
      <4>2. j = i
        BY <1>1, <3>1, <4>1, SetParts
      <4> QED
        BY <1>1, <2>1, <4>1, <4>2
    <3>2. CASE n.id # id
      <4>1. Fits(n, out, IF n.id \in heard THEN e ELSE c)
        BY DEF Fine, AllFit
      <4> QED
        BY <3>2, <4>1
    <3> QED
      BY <3>1, <3>2
  <2>3. Fine(s, out, later, c, e)
    <3> HIDE DEF later
    <3> QED
      BY <2>2 DEF Fine, AllFit
  <2> QED
    BY <1>2, <1>4, <2>3 DEF r
<1>5. CASE ~Deaf(m)
  <2>1. DecisionOK(m, d, view.now) /\ Sound(m, d, out, e, view)
    <3> HIDE DEF m
    <3>1. view.now \in Nat
      BY DEF ViewOK
    <3> QED
      BY <1>1, <1>3, <1>5, <3>1, OutputOK, OutputSound DEF Reads
  <2> HIDE DEF d
  <2>2. DecisionOK(s.monitors[i], d, view.now) /\ Carries(s, s)
    BY <2>1, CarriesItself
  <2>3. Touches(s, i, d, view, r) /\ Carries(s, r)
    BY <1>1, <1>2, <1>5, <2>2, Decided, Zenon
  <2>4. /\ d.monitor.id = s.monitors[i].id
        /\ \A x : x # s.monitors[i].id => (x \in later <=> x \in heard)
        /\ s.monitors[i].id \in later
    BY <1>1, <2>1 DEF DecisionOK
  <2>5. Sound(s.monitors[i], d, out, IF s.monitors[i].id \in later THEN e ELSE c, view)
    BY <2>1, <2>4
  <2> HIDE DEF later, m
  <2>6. Fine(r, out, later, c, e)
    BY <1>1, <2>3, <2>4, <2>5, DecidedFine, Zenon
  <2>7. Ids(r.monitors) \subseteq Ids(s.monitors)
    BY <2>3, IdsKept
  <2> QED
    BY <2>3, <2>6, <2>7 DEF r, later, Touches
<1> QED
  BY <1>4, <1>5

\* What one monitor makes of the time.
LEMMA TimedOne ==
  ASSUME NEW s0, SetOK(s0), NEW q, Carries(s0, q.set), NEW id \in Ids(q.set.monitors),
         NEW view, ViewOK(view)
  PROVE  /\ Carries(s0, TimeOne(q, id, view).set)
         /\ Ids(q.set.monitors) \ {id} \subseteq Ids(TimeOne(q, id, view).set.monitors)
<1> DEFINE s == q.set
           i == IndexOf(s, id)
           m == s.monitors[i]
           d == IF QuietDue(m, view.now) THEN Observe(m, "quiet", TRUE, view.now)
                ELSE TimerDecision(m, view.now)
           r == TimeOne(q, id, view).set
<1>1. SetOK(s)
  BY DEF Carries
<1>2. i \in 1 .. Len(s.monitors) /\ m.id = id /\ MonitorOK(m)
  BY <1>1, Indexed
<1>3. r = ApplyDecision(s, i, d, view)
  <2> HIDE DEF d
  <2> QED
    BY DEF TimeOne, d
<1> HIDE DEF r, i
<1>4. DecisionOK(m, d, view.now)
  <2> HIDE DEF m
  <2>1. DecisionOK(m, Observe(m, "quiet", TRUE, view.now), view.now)
    BY <1>2, ObserveOK
  <2>2. DecisionOK(m, TimerDecision(m, view.now), view.now)
    BY <1>2, TimerOK
  <2> QED
    BY <2>1, <2>2
<1> HIDE DEF d
<1>5. DecisionOK(s.monitors[i], d, view.now)
  BY <1>4
<1> HIDE DEF s
<1>6. Carries(s0, s)
  BY DEF s
<1>7. Carries(s0, r) /\ Follows(s, i, d, r)
  BY <1>2, <1>3, <1>5, <1>6, Decided, Zenon
<1> QED
  BY <1>2, <1>7 DEF Follows, r, s

\* It is still sound, whatever it makes of it.
LEMMA TimedFine ==
  ASSUME NEW q, SetOK(q.set), NEW id \in Ids(q.set.monitors), NEW view, ViewOK(view),
         NEW out, Dated(out, view.now), NEW c, c = view.cursor, c <= Len(out),
         ReadTo(q.set, out, c)
  PROVE  /\ TimeOne(q, id, view).set.cursor = q.set.cursor
         /\ ReadTo(TimeOne(q, id, view).set, out, c)
<1> DEFINE s == q.set
           i == IndexOf(s, id)
           m == s.monitors[i]
           d == Timed(m, view.now)
           r == TimeOne(q, id, view).set
<1>1. i \in 1 .. Len(s.monitors) /\ m.id = id /\ MonitorOK(m)
  BY Indexed
<1>2. r = ApplyDecision(s, i, d, view)
  <2> HIDE DEF d
  <2> QED
    BY DEF TimeOne, d, Timed
<1> HIDE DEF r, i
<1>3. Fits(m, out, c)
  <2>1. m \in Members(s.monitors)
    BY <1>1 DEF Members
  <2> HIDE DEF m
  <2> QED
    BY <2>1 DEF ReadTo, Fine, AllFit
<1>4. DecisionOK(m, d, view.now) /\ Sound(m, d, out, c, view)
  <2> HIDE DEF m
  <2>1. DecisionOK(m, Observe(m, "quiet", TRUE, view.now), view.now)
    BY <1>1, ObserveOK
  <2>2. DecisionOK(m, TimerDecision(m, view.now), view.now)
    BY <1>1, TimerOK
  <2>3. DecisionOK(m, d, view.now)
    BY <2>1, <2>2 DEF Timed
  <2>4. view.now \in Nat /\ c \in Nat
    BY DEF ViewOK
  <2> QED
    BY <1>1, <1>3, <2>3, <2>4, TimedSound
<1> HIDE DEF d, s
<1>5. SetOK(s) /\ Carries(s, s) /\ DecisionOK(s.monitors[i], d, view.now)
  BY <1>4, CarriesItself DEF s
<1>6. Touches(s, i, d, view, r)
  BY <1>1, <1>2, <1>5, Decided, Zenon
<1>7. Fine(r, out, {}, c, c)
  <2> DEFINE none == {}
  <2>1. /\ d.monitor.id = s.monitors[i].id
        /\ \A x : x # s.monitors[i].id => (x \in none <=> x \in none)
        /\ Sound(s.monitors[i], d, out, IF s.monitors[i].id \in none THEN c ELSE c, view)
    BY <1>4 DEF DecisionOK
  <2>2. Fine(s, out, none, c, c)
    BY DEF ReadTo, s
  <2> HIDE DEF none
  <2>3. Fine(r, out, none, c, c)
    BY <1>1, <1>5, <1>6, <2>1, <2>2, DecidedFine, Zenon
  <2> QED
    BY <2>3 DEF none
<1> QED
  BY <1>6, <1>7 DEF r, s, Touches, ReadTo

LEMMA IdsOf ==
  ASSUME NEW s, SetOK(s)
  PROVE  /\ Len(MonitorIds(s)) = Len(s.monitors) /\ Len(s.monitors) \in Nat
         /\ \A k \in 1 .. Len(s.monitors) : MonitorIds(s)[k] \in Ids(s.monitors)
         /\ \A j, k \in 1 .. Len(s.monitors) : MonitorIds(s)[j] = MonitorIds(s)[k] => j = k
         /\ \A k \in 1 .. Len(s.monitors) : MonitorIds(s)[k] = s.monitors[k].id
<1> DEFINE ids == MonitorIds(s)
           n == Len(s.monitors)
<1>1. n \in Nat /\ DOMAIN s.monitors = 1 .. n
  <2>1. s.monitors \in Seq(Members(s.monitors)) /\ n \in Nat
    BY SetParts DEF MonitorsOK
  <2> QED
    BY <2>1, LenProperties
<1>2. ids = [i \in 1 .. n |-> s.monitors[i].id]
  BY <1>1 DEF MonitorIds
<1> HIDE DEF ids
<1>3. \A i \in 1 .. n : ids[i] = s.monitors[i].id /\ s.monitors[i].id \in Nat
  BY <1>2, SetParts
<1>4. ids \in [1 .. n -> Nat]
  BY <1>2, <1>3
<1>5. Len(ids) = n
  <2>1. ids \in Seq(Nat)
    BY <1>1, <1>4, IsASeq
  <2>2. Len(ids) \in Nat /\ DOMAIN ids = 1 .. Len(ids)
    BY <2>1, LenProperties
  <2>3. DOMAIN ids = 1 .. n
    BY <1>4
  <2> QED
    BY <1>1, <2>2, <2>3
<1>6. \A i, j \in 1 .. n : ids[i] = ids[j] => i = j
  BY <1>3, SetParts
<1>7. \A k \in 1 .. n : ids[k] \in Ids(s.monitors)
  BY <1>3 DEF Ids
<1> QED
  BY <1>1, <1>3, <1>5, <1>6, <1>7 DEF ids, n

\* The pass over new output.
LEMMA OutputPassed ==
  ASSUME NEW s0, SetOK(s0), NEW p0, NEW obs, NEW answers, Carries(s0, p0.set), NEW view, ViewOK(view),
         NEW out, NEW c, NEW e
  PROVE  /\ Carries(s0, OutputPass(p0, obs, answers, view).set)
         /\ Reads(out, obs, c, e, view) /\ ReadTo(p0.set, out, c) =>
              /\ OutputPass(p0, obs, answers, view).set.cursor = p0.set.cursor
              /\ ReadTo(OutputPass(p0, obs, answers, view).set, out, e)
<1> DEFINE s == p0.set
           ids == MonitorIds(s)
           n == Len(ids)
           ready == Reads(out, obs, c, e, view) /\ ReadTo(s, out, c)
<1>0. SetOK(s) /\ Carries(s0, s)
  BY DEF Carries
<1>1. /\ n = Len(s.monitors) /\ n \in Nat
      /\ \A k \in 1 .. n : ids[k] \in Ids(s.monitors)
      /\ \A j, k \in 1 .. n : ids[j] = ids[k] => j = k
      /\ \A k \in 1 .. n : ids[k] = s.monitors[k].id
  <2>1. /\ Len(MonitorIds(s)) = Len(s.monitors) /\ Len(s.monitors) \in Nat
        /\ \A k \in 1 .. Len(s.monitors) : MonitorIds(s)[k] \in Ids(s.monitors)
        /\ \A j, k \in 1 .. Len(s.monitors) : MonitorIds(s)[j] = MonitorIds(s)[k] => j = k
        /\ \A k \in 1 .. Len(s.monitors) : MonitorIds(s)[k] = s.monitors[k].id
    <3> HIDE DEF s
    <3> QED
      BY <1>0, IdsOf
  <2> QED
    BY <2>1
<1> DEFINE heard[k \in 0 .. n] == IF k = 0 THEN s ELSE HearOne(heard[k - 1], ids[k], obs, answers, view)
<1>2. OutputPass(p0, obs, answers, view).set = heard[n]
  BY DEF OutputPass
<1>3. IsHeard(heard, s, ids, obs, answers, view, n)
  <2>1. \E f : IsHeard(f, s, ids, obs, answers, view, n)
    <3> HIDE DEF n, ids
    <3> QED
      BY <1>1, HeardExists
  <2> QED
    BY <2>1 DEF IsHeard
<1> HIDE DEF heard, n, ids, s, ready
<1>4. /\ heard[0] = s
      /\ \A k \in 0 .. n : k # 0 => heard[k] = HearOne(heard[k - 1], ids[k], obs, answers, view)
  <2>1. 0 \in 0 .. n
    BY <1>1
  <2>2. \A k \in 0 .. n : heard[k] = IF k = 0 THEN s
                                     ELSE HearOne(heard[k - 1], ids[k], obs, answers, view)
    BY <1>3, Zenon DEF IsHeard
  <2> QED
    BY <2>1, <2>2, Zenon
<1> DEFINE Known(k) == {ids[j] : j \in 1 .. k}
           Right(k) == /\ Carries(s0, heard[k])
                       /\ \A j \in (k + 1) .. n : ids[j] \in Ids(heard[k].monitors)
                       /\ ready => /\ heard[k].cursor = s.cursor
                                   /\ Ids(heard[k].monitors) \subseteq Ids(s.monitors)
                                   /\ Fine(heard[k], out, Known(k), c, e)
           T == {k \in Nat : k <= n => Right(k)}
<1>5. 0 \in T
  <2>1. Known(0) = {}
    OBVIOUS
  <2>2. ready => /\ heard[0].cursor = s.cursor
                 /\ Ids(heard[0].monitors) \subseteq Ids(s.monitors)
                 /\ Fine(heard[0], out, Known(0), c, e)
    <3>1. ready => Fine(s, out, {}, c, e)
      BY DEF ready, ReadTo, Fine, AllFit
    <3> HIDE DEF Known
    <3> QED
      BY <1>4, <2>1, <3>1
  <2> HIDE DEF Known
  <2>3. Right(0)
    BY <1>0, <1>1, <1>4, <2>2
  <2> QED
    BY <2>3
<1> HIDE DEF Known
<1>6. ASSUME NEW k \in T
      PROVE  k + 1 \in T
  <2>1. CASE k < n
    <3>1. /\ k \in Nat /\ k <= n /\ k + 1 \in 0 .. n /\ k + 1 # 0 /\ (k + 1) - 1 = k
          /\ k + 1 \in (k + 1) .. n /\ k + 1 \in 1 .. n
      BY <1>1, <2>1
    <3>2. Right(k)
      BY <3>1
    <3> DEFINE p == heard[k]
               id == ids[k + 1]
               r == heard[k + 1]
    <3>3. r = HearOne(p, id, obs, answers, view)
      BY <1>4, <3>1, Zenon
    <3>4. Carries(s0, p) /\ id \in Ids(p.monitors)
      BY <3>1, <3>2
    <3> HIDE DEF p, id, r
    <3>5. Carries(s0, r) /\ Ids(p.monitors) \ {id} \subseteq Ids(r.monitors)
      BY <3>3, <3>4, HeardOne, Zenon
    <3>6. \A j \in ((k + 1) + 1) .. n :
            j \in (k + 1) .. n /\ j \in 1 .. n /\ j # k + 1
      BY <1>1, <3>1
    <3>7. \A j \in ((k + 1) + 1) .. n : ids[j] \in Ids(p.monitors) /\ ids[j] # id
      BY <1>1, <3>1, <3>2, <3>6 DEF p, id
    <3>8. \A j \in ((k + 1) + 1) .. n : ids[j] \in Ids(r.monitors)
      BY <3>5, <3>7
    <3>9. ASSUME ready
          PROVE  /\ r.cursor = s.cursor /\ Ids(r.monitors) \subseteq Ids(s.monitors)
                 /\ Fine(r, out, Known(k + 1), c, e)
      <4> DEFINE before == Known(k)
                 after == Known(k + 1)
      <4>1. /\ p.cursor = s.cursor /\ Ids(p.monitors) \subseteq Ids(s.monitors)
            /\ Fine(p, out, before, c, e)
        BY <3>2, <3>9 DEF p
      <4>2. after = before \cup {id}
        <5>1. 1 .. (k + 1) = (1 .. k) \cup {k + 1}
          BY <3>1
        <5> QED
          BY <5>1 DEF Known, id
      <4>3. id \notin before
        <5>1. \A j \in 1 .. k : j \in 1 .. n /\ j # k + 1
          BY <1>1, <3>1
        <5> QED
          BY <1>1, <3>1, <5>1 DEF Known, id
      <4> HIDE DEF before, after
      <4>4. SetOK(p) /\ id \in Ids(p.monitors) /\ Reads(out, obs, c, e, view)
        BY <3>4, <3>9 DEF Carries, ready
      <4>5. /\ HearOne(p, id, obs, answers, view).cursor = p.cursor
            /\ Ids(HearOne(p, id, obs, answers, view).monitors) \subseteq Ids(p.monitors)
            /\ Fine(HearOne(p, id, obs, answers, view), out, before \cup {id}, c, e)
        BY <4>1, <4>3, <4>4, HeardFine, Zenon
      <4> QED
        BY <3>3, <4>1, <4>2, <4>5 DEF after
    <3> QED
      BY <3>1, <3>5, <3>8, <3>9 DEF r
  <2>2. CASE ~(k < n)
    <3>1. k \in Nat /\ ~(k + 1 <= n)
      BY <1>1, <2>2
    <3> QED
      BY <3>1
  <2> QED
    BY <2>1, <2>2
<1>7. T = Nat
  <2>1. T \in SUBSET Nat
    OBVIOUS
  <2> HIDE DEF T
  <2> QED
    BY <1>5, <1>6, <2>1, SetInduction
<1>8. Right(n)
  <2>1. n \in T /\ n <= n
    BY <1>1, <1>7
  <2> QED
    BY <2>1
<1>9. ASSUME ready
      PROVE  heard[n].cursor = s.cursor /\ ReadTo(heard[n], out, e)
  <2>1. /\ heard[n].cursor = s.cursor /\ Ids(heard[n].monitors) \subseteq Ids(s.monitors)
        /\ Fine(heard[n], out, Known(n), c, e)
    BY <1>8, <1>9
  <2>2. \A m \in Members(heard[n].monitors) : m.id \in Known(n)
    <3>1. ASSUME NEW m \in Members(heard[n].monitors)
          PROVE  m.id \in Known(n)
      <4>1. m.id \in Ids(heard[n].monitors)
        BY DEF Members, Ids
      <4>2. m.id \in Ids(s.monitors)
        BY <2>1, <4>1
      <4>3. PICK j \in 1 .. n : m.id = s.monitors[j].id
        BY <1>1, <4>2 DEF Ids
      <4>4. ids[j] = s.monitors[j].id
        BY <1>1, <4>3
      <4> QED
        BY <4>3, <4>4 DEF Known
    <3> QED
      BY <3>1
  <2> QED
    BY <2>1, <2>2 DEF Fine, AllFit, ReadTo
<1> QED
  BY <1>2, <1>8, <1>9 DEF ready, s

\* The pass over the clock.
LEMMA TimerPassed ==
  ASSUME NEW s0, SetOK(s0), NEW p0, Carries(s0, p0.set), NEW view, ViewOK(view), NEW out
  PROVE  /\ Carries(s0, TimerPass(p0, view).set)
         /\ /\ Dated(out, view.now) /\ view.cursor <= Len(out)
            /\ ReadTo(p0.set, out, view.cursor)
            => /\ TimerPass(p0, view).set.cursor = p0.set.cursor
               /\ ReadTo(TimerPass(p0, view).set, out, view.cursor)
<1> DEFINE s == p0.set
           ids == MonitorIds(s)
           n == Len(ids)
           c == view.cursor
           ready == Dated(out, view.now) /\ c <= Len(out) /\ ReadTo(s, out, c)
<1>0. SetOK(s)
  BY DEF Carries
<1>1. /\ n = Len(s.monitors) /\ n \in Nat
      /\ \A k \in 1 .. n : ids[k] \in Ids(s.monitors)
      /\ \A j, k \in 1 .. n : ids[j] = ids[k] => j = k
  <2>1. /\ Len(MonitorIds(s)) = Len(s.monitors) /\ Len(s.monitors) \in Nat
        /\ \A k \in 1 .. Len(s.monitors) : MonitorIds(s)[k] \in Ids(s.monitors)
        /\ \A j, k \in 1 .. Len(s.monitors) : MonitorIds(s)[j] = MonitorIds(s)[k] => j = k
    <3> HIDE DEF s
    <3> QED
      BY <1>0, IdsOf
  <2> QED
    BY <2>1
<1> DEFINE timed[k \in 0 .. n] == IF k = 0 THEN p0 ELSE TimeOne(timed[k - 1], ids[k], view)
<1>2. TimerPass(p0, view) = timed[n]
  BY DEF TimerPass
<1>3. IsTimed(timed, p0, ids, view, n)
  <2>1. \E f : IsTimed(f, p0, ids, view, n)
    <3> HIDE DEF n, ids
    <3> QED
      BY <1>1, TimedExists
  <2> QED
    BY <2>1 DEF IsTimed
<1> HIDE DEF timed, n, ids, c, ready
<1>4. /\ timed[0] = p0
      /\ \A k \in 0 .. n : k # 0 => timed[k] = TimeOne(timed[k - 1], ids[k], view)
  <2>1. 0 \in 0 .. n
    BY <1>1
  <2>2. \A k \in 0 .. n : timed[k] = IF k = 0 THEN p0 ELSE TimeOne(timed[k - 1], ids[k], view)
    BY <1>3, Zenon DEF IsTimed
  <2> QED
    BY <2>1, <2>2, Zenon
<1> DEFINE Right(k) == /\ Carries(s0, timed[k].set)
                       /\ \A j \in (k + 1) .. n : ids[j] \in Ids(timed[k].set.monitors)
                       /\ ready => /\ timed[k].set.cursor = s.cursor
                                   /\ ReadTo(timed[k].set, out, c)
           T == {k \in Nat : k <= n => Right(k)}
<1>5. 0 \in T
  <2>1. Right(0)
    BY <1>1, <1>4 DEF ready
  <2> QED
    BY <2>1
<1>6. ASSUME NEW k \in T
      PROVE  k + 1 \in T
  <2>1. CASE k < n
    <3>1. /\ k \in Nat /\ k <= n /\ k + 1 \in 0 .. n /\ k + 1 # 0 /\ (k + 1) - 1 = k
          /\ k + 1 \in (k + 1) .. n /\ k + 1 \in 1 .. n
      BY <1>1, <2>1
    <3>2. Right(k)
      BY <3>1
    <3> DEFINE p == timed[k]
               id == ids[k + 1]
               r == timed[k + 1]
    <3>3. r = TimeOne(p, id, view)
      BY <1>4, <3>1, Zenon
    <3>4. Carries(s0, p.set) /\ id \in Ids(p.set.monitors)
      BY <3>1, <3>2
    <3> HIDE DEF p, id, r
    <3>5. Carries(s0, r.set) /\ Ids(p.set.monitors) \ {id} \subseteq Ids(r.set.monitors)
      BY <3>3, <3>4, TimedOne, Zenon
    <3>6. \A j \in ((k + 1) + 1) .. n :
            j \in (k + 1) .. n /\ j \in 1 .. n /\ j # k + 1
      BY <1>1, <3>1
    <3>7. \A j \in ((k + 1) + 1) .. n : ids[j] \in Ids(p.set.monitors) /\ ids[j] # id
      BY <1>1, <3>1, <3>2, <3>6 DEF p, id
    <3>8. \A j \in ((k + 1) + 1) .. n : ids[j] \in Ids(r.set.monitors)
      BY <3>5, <3>7
    <3>9. ASSUME ready
          PROVE  r.set.cursor = s.cursor /\ ReadTo(r.set, out, c)
      <4>1. p.set.cursor = s.cursor /\ ReadTo(p.set, out, c)
        BY <3>2, <3>9 DEF p
      <4>2. SetOK(p.set) /\ Dated(out, view.now) /\ c <= Len(out) /\ c = view.cursor
        BY <3>4, <3>9 DEF Carries, ready, c
      <4>3. /\ TimeOne(p, id, view).set.cursor = p.set.cursor
            /\ ReadTo(TimeOne(p, id, view).set, out, c)
        BY <3>4, <4>1, <4>2, TimedFine, Zenon
      <4> QED
        BY <3>3, <4>1, <4>3
    <3> QED
      BY <3>1, <3>5, <3>8, <3>9 DEF r
  <2>2. CASE ~(k < n)
    <3>1. k \in Nat /\ ~(k + 1 <= n)
      BY <1>1, <2>2
    <3> QED
      BY <3>1
  <2> QED
    BY <2>1, <2>2
<1>7. T = Nat
  <2>1. T \in SUBSET Nat
    OBVIOUS
  <2> HIDE DEF T
  <2> QED
    BY <1>5, <1>6, <2>1, SetInduction
<1>8. Right(n)
  <2>1. n \in T /\ n <= n
    BY <1>1, <1>7
  <2> QED
    BY <2>1
<1> QED
  BY <1>2, <1>8 DEF ready, c

\* A set with another lifecycle, cursor, or value of its monitors.
LEMMA Noted ==
  ASSUME NEW s0, NEW s, Carries(s0, s), NEW x, NEW c \in Nat, NEW q,
         MonitorsOK(q, s.nextMonitor), Ids(q) = Ids(s.monitors), Dates(q) = Dates(s.monitors)
  PROVE  /\ Carries(s0, [s EXCEPT !.last = x])
         /\ Carries(s0, [s EXCEPT !.cursor = c])
         /\ Carries(s0, [s EXCEPT !.monitors = q])
<1>1. /\ SetOK(s) /\ SetRecord(s) /\ s0.nextEvent <= s.nextEvent
      /\ Dates(s.monitors) \subseteq Dates(s0.monitors)
      /\ \A e \in Members(s.events) : e.id >= s0.nextEvent => OnlyExpires(s0, e)
  BY DEF Carries, SetOK, Keeps
<1>2. ASSUME NEW r, SetRecord(r), r.nextMonitor = s.nextMonitor, r.nextEvent = s.nextEvent,
             r.gap = s.gap, r.acked = s.acked, r.events = s.events,
             r.monitors = s.monitors \/ r.monitors = q
      PROVE  Carries(s0, r)
  <2>1. /\ MonitorsOK(r.monitors, r.nextMonitor)
        /\ Ids(r.monitors) = Ids(s.monitors) /\ Dates(r.monitors) = Dates(s.monitors)
    BY <1>1, <1>2 DEF SetOK, Keeps
  <2>2. EndsOK(r.events, r.monitors, r.nextMonitor, {})
    BY <1>1, <1>2, <2>1 DEF SetOK, Keeps, EndsOK
  <2>3. SetOK(r)
    BY <1>1, <1>2, <2>1, <2>2 DEF SetOK, Keeps
  <2> QED
    BY <1>1, <1>2, <2>1, <2>3 DEF Carries
<1>3. ASSUME NEW r, NEW last, NEW cursor \in Nat, NEW monitors,
             monitors = s.monitors \/ monitors = q,
             r = [nextMonitor |-> s.nextMonitor, nextEvent |-> s.nextEvent, gap |-> s.gap,
                  acked |-> s.acked, cursor |-> cursor, last |-> last, monitors |-> monitors,
                  events |-> s.events]
      PROVE  Carries(s0, r)
  <2>1. /\ r.nextMonitor = s.nextMonitor /\ r.nextEvent = s.nextEvent /\ r.gap = s.gap
        /\ r.acked = s.acked /\ r.cursor = cursor /\ r.last = last
        /\ r.monitors = monitors /\ r.events = s.events
    BY <1>3
  <2>2. SetRecord(r)
    BY <1>1, <1>3, <2>1 DEF SetRecord
  <2> QED
    BY <1>2, <1>3, <2>1, <2>2
<1>4. s.cursor \in Nat
  BY <1>1 DEF SetRecord
<1> DEFINE a == [s EXCEPT !.last = x]
           b == [s EXCEPT !.cursor = c]
           d == [s EXCEPT !.monitors = q]
<1>5. /\ a = [nextMonitor |-> s.nextMonitor, nextEvent |-> s.nextEvent, gap |-> s.gap,
               acked |-> s.acked, cursor |-> s.cursor, last |-> x, monitors |-> s.monitors,
               events |-> s.events]
      /\ b = [nextMonitor |-> s.nextMonitor, nextEvent |-> s.nextEvent, gap |-> s.gap,
               acked |-> s.acked, cursor |-> c, last |-> s.last, monitors |-> s.monitors,
               events |-> s.events]
      /\ d = [nextMonitor |-> s.nextMonitor, nextEvent |-> s.nextEvent, gap |-> s.gap,
               acked |-> s.acked, cursor |-> s.cursor, last |-> s.last, monitors |-> q,
               events |-> s.events]
  BY <1>1, SetChanges
<1> HIDE DEF a, b, d
<1>6. Carries(s0, a)
  BY <1>3, <1>4, <1>5, Zenon
<1>7. Carries(s0, b)
  BY <1>3, <1>4, <1>5, Zenon
<1>8. Carries(s0, d)
  BY <1>3, <1>4, <1>5, Zenon
<1> QED
  BY <1>6, <1>7, <1>8 DEF a, b, d

\* n is m, degraded.
Deafens(n, m) ==
  /\ n.id = m.id /\ n.definition = m.definition /\ n.matched = m.matched
  /\ n.state = "degraded" /\ n.reached = {} /\ n.nextCheck = None

LEMMA DeafensFits ==
  ASSUME NEW n, NEW m, Deafens(n, m), NEW out, NEW c, NEW e, Fits(m, out, c)
  PROVE  Fits(n, out, e)
BY DEF Deafens, Fits, Listens, Waits, Literal, Pattern, Quiet, Condition

\* The pass over a gap in the output.
LEMMA DegradePassed ==
  ASSUME NEW s0, NEW p, Carries(s0, p.set), NEW out, NEW c, NEW e
  PROVE  /\ Carries(s0, DegradePass(p).set)
         /\ DegradePass(p).set.cursor = p.set.cursor
         /\ ReadTo(p.set, out, c) => ReadTo(DegradePass(p).set, out, e)
<1> DEFINE s == p.set
           q == s.monitors
           r == [i \in DOMAIN q |-> IF Degradable(q[i]) THEN Degraded(q[i]) ELSE q[i]]
<1>1. SetOK(s)
  BY DEF Carries
<1>2. DegradePass(p).set = [s EXCEPT !.monitors = r]
  BY DEF DegradePass
<1> HIDE DEF s
<1>3. /\ q \in Seq(Members(q)) /\ DOMAIN q = 1 .. Len(q) /\ Len(q) \in Nat
      /\ \A i \in 1 .. Len(q) : MonitorOK(q[i])
      /\ s.nextMonitor \in Nat
  <2>1. q \in Seq(Members(q)) /\ \A i \in 1 .. Len(q) : MonitorOK(q[i])
    BY <1>1, SetParts DEF MonitorsOK
  <2>2. s.nextMonitor \in Nat
    BY <1>1, SetParts
  <2> QED
    BY <2>1, <2>2, LenProperties
<1>4. ASSUME NEW m, MonitorOK(m)
      PROVE  /\ MonitorOK(Degraded(m)) /\ Degraded(m).id = m.id
             /\ Degraded(m).deadline = m.deadline /\ Deafens(Degraded(m), m)
  <2> DEFINE names == {"id", "definition", "state", "deadline", "nextCheck", "nextNotice",
                       "checks", "lastReason", "matched", "reached"}
             none == {x \in names : FALSE}
             n == [m EXCEPT !.state = "degraded", !.reached = none, !.nextCheck = None,
                            !.nextNotice = None]
  <2>1. none = {}
    OBVIOUS
  <2>2. Degraded(m) = n
    BY <2>1, Zenon DEF Degraded
  <2> HIDE DEF none
  <2>3. DOMAIN m = names /\ m.id \in Nat
    BY <1>4 DEF MonitorOK
  <2>4. /\ n = [x \in names |-> n[x]] /\ n.id = m.id /\ n.deadline = m.deadline
        /\ n.state = "degraded" /\ n.reached = none /\ n.nextCheck = None
        /\ n.definition = m.definition /\ n.matched = m.matched
    BY <2>3
  <2> HIDE DEF n
  <2>5. MonitorOK(n)
    BY <2>3, <2>4 DEF MonitorOK
  <2>6. Deafens(n, m)
    BY <2>1, <2>4 DEF Deafens
  <2> QED
    BY <2>2, <2>4, <2>5, <2>6
<1>5. \A i \in 1 .. Len(q) :
        MonitorOK(r[i]) /\ r[i].id = q[i].id /\ r[i].deadline = q[i].deadline
  <2>1. ASSUME NEW i \in 1 .. Len(q)
        PROVE  MonitorOK(r[i]) /\ r[i].id = q[i].id /\ r[i].deadline = q[i].deadline
    <3>1. r[i] = IF Degradable(q[i]) THEN Degraded(q[i]) ELSE q[i]
      BY <1>3
    <3> HIDE DEF r
    <3> QED
      BY <1>3, <1>4, <3>1
  <2> QED
    BY <2>1
<1>6. \A i \in 1 .. Len(q) :
        Deafens(r[i], q[i]) \/ (r[i] = q[i] /\ ~Degradable(q[i]))
  <2>1. ASSUME NEW i \in 1 .. Len(q)
        PROVE  Deafens(r[i], q[i]) \/ (r[i] = q[i] /\ ~Degradable(q[i]))
    <3>1. r[i] = IF Degradable(q[i]) THEN Degraded(q[i]) ELSE q[i]
      BY <1>3
    <3> HIDE DEF r
    <3> QED
      BY <1>3, <1>4, <3>1
  <2> QED
    BY <2>1
<1>7. r \in Seq(Members(r)) /\ Len(r) = Len(q)
  <2> DEFINE S == {r[i] : i \in 1 .. Len(q)}
  <2>1. r \in [1 .. Len(q) -> S]
    BY <1>3
  <2> HIDE DEF r
  <2>2. r \in Seq(S)
    <3> HIDE DEF S
    <3> QED
      BY <1>3, <2>1, IsASeq
  <2>3. Len(r) = Len(q)
    <3>1. Len(r) \in Nat /\ DOMAIN r = 1 .. Len(r)
      BY <2>2, LenProperties
    <3>2. DOMAIN r = 1 .. Len(q)
      BY <2>1
    <3> QED
      BY <1>3, <3>1, <3>2
  <2> QED
    BY <2>2, <2>3 DEF Members
<1> HIDE DEF r
<1>8. MonitorsOK(r, s.nextMonitor)
  <2>1. MonitorsOK(q, s.nextMonitor)
    BY <1>1, SetParts
  <2> QED
    BY <1>5, <1>7, <2>1 DEF MonitorsOK
<1>9. Ids(r) = Ids(q)
  BY <1>5, <1>7 DEF Ids
<1>10. Dates(r) = Dates(q)
  <2>1. \A i \in 1 .. Len(q) : <<r[i].id, r[i].deadline>> = <<q[i].id, q[i].deadline>>
    BY <1>5
  <2> QED
    BY <1>7, <2>1 DEF Dates
<1>11. Carries(s0, s)
  BY DEF s
<1>12. Carries(s0, [s EXCEPT !.monitors = r])
  <2>1. 0 \in Nat
    OBVIOUS
  <2> QED
    BY <1>8, <1>9, <1>10, <1>11, <2>1, Noted, Zenon
<1>13. /\ [s EXCEPT !.monitors = r].monitors = r /\ [s EXCEPT !.monitors = r].events = s.events
       /\ [s EXCEPT !.monitors = r].cursor = s.cursor
  BY <1>1, SetParts DEF SetRecord
<1>14. ASSUME ReadTo(s, out, c)
       PROVE  ReadTo([s EXCEPT !.monitors = r], out, e)
  <2>1. ASSUME NEW i \in 1 .. Len(q)
        PROVE  /\ q[i] \in Members(q) /\ r[i].id = q[i].id
               /\ Condition(r[i]) = Condition(q[i]) /\ Fits(r[i], out, e)
    <3>1. q[i] \in Members(q)
      BY DEF Members
    <3>2. Fits(q[i], out, c)
      BY <1>14, <3>1 DEF ReadTo, Fine, AllFit
    <3>3. Fits(r[i], out, e) /\ Condition(r[i]) = Condition(q[i])
      <4>1. CASE Deafens(r[i], q[i])
        BY <3>2, <4>1, DeafensFits DEF Deafens, Condition
      <4>2. CASE r[i] = q[i] /\ ~Degradable(q[i])
        <5>1. Deaf(q[i]) \/ Condition(q[i]).kind \notin {"output", "quiet"}
          BY <4>2 DEF Degradable, GapSensitive, Condition, Deaf
        <5> QED
          BY <3>2, <4>2, <5>1, DeafFits
      <4> QED
        BY <1>6, <4>1, <4>2
    <3> QED
      BY <1>5, <3>1, <3>3
  <2> DEFINE b == [s EXCEPT !.monitors = r]
  <2>2. b.monitors = r /\ b.events = s.events
    BY <1>13
  <2> HIDE DEF b
  <2>3. AllFit(b.monitors, out, {}, e, e)
    BY <1>7, <2>1, <2>2 DEF AllFit, Members
  <2>4. ASSUME NoUpdate
        PROVE  Reports(b, out)
    <3>1. Reports(s, out)
      BY <1>14, <2>4 DEF ReadTo, Fine
    <3>2. ASSUME NEW n \in Members(b.monitors)
          PROVE  \E m \in Members(q) : n.id = m.id /\ Condition(n) = Condition(m)
      <4>1. PICK i \in 1 .. Len(q) : n = r[i]
        BY <1>7, <2>2 DEF Members
      <4> QED
        BY <2>1, <4>1
    <3> QED
      BY <2>2, <3>1, <3>2 DEF Reports, Quiet
  <2> QED
    BY <2>3, <2>4 DEF ReadTo, Fine, b
<1> QED
  BY <1>2, <1>12, <1>13, <1>14 DEF s

\* The pass over the probes.
LEMMA PollPassed ==
  ASSUME NEW s0, SetOK(s0), NEW p, Carries(s0, p.set), NEW answers, NEW view, ViewOK(view),
         NEW out, NEW c
  PROVE  /\ Carries(s0, PollPass(p, answers, view).set)
         /\ ReadTo(p.set, out, c) => /\ PollPass(p, answers, view).set.cursor = p.set.cursor
                                    /\ ReadTo(PollPass(p, answers, view).set, out, c)
<1> DEFINE s == p.set
           due == {i \in DOMAIN s.monitors : PollingDue(s.monitors[i], view.now)}
           i == CHOOSE k \in due : \A j \in due : k <= j
           d == Observe(s.monitors[i], "check", answers.probe, view.now)
           r == PollPass(p, answers, view)
<1>1. SetOK(s)
  BY DEF Carries
<1>2. r = IF view.lifecycle # "running" \/ due = {} THEN p
          ELSE [set |-> ApplyDecision(s, i, d, view), changed |-> TRUE]
  BY Zenon DEF PollPass
<1> HIDE DEF r
<1>3. CASE view.lifecycle # "running" \/ due = {}
  BY <1>2, <1>3 DEF r
<1>4. CASE ~(view.lifecycle # "running" \/ due = {})
  <2>1. DOMAIN s.monitors = 1 .. Len(s.monitors) /\ Len(s.monitors) \in Nat
    <3>1. s.monitors \in Seq(Members(s.monitors))
      BY <1>1, SetParts DEF MonitorsOK
    <3> QED
      BY <3>1, LenProperties
  <2>2. due \in SUBSET (1 .. Len(s.monitors)) /\ due \in SUBSET Nat /\ due # {}
    BY <1>4, <2>1
  <2> HIDE DEF due
  <2>3. \E k \in due : \A j \in due : k <= j
    BY <2>2, LeastNatural
  <2>4. i \in due
    BY <2>3
  <2> HIDE DEF i
  <2>5. i \in 1 .. Len(s.monitors)
    BY <2>2, <2>4
  <2>6. MonitorOK(s.monitors[i])
    BY <1>1, <2>5, SetParts
  <2>7. PollingDue(s.monitors[i], view.now)
    BY <2>4 DEF due
  <2>8. ReadTo(s, out, c) => Sound(s.monitors[i], d, out, c, view)
    <3>1. ReadTo(s, out, c) => Fits(s.monitors[i], out, c)
      BY <2>5 DEF ReadTo, Fine, AllFit, Members
    <3> DEFINE m == s.monitors[i]
               probe == answers.probe
    <3>2. MonitorOK(m) /\ PollingDue(m, view.now) /\ (ReadTo(s, out, c) => Fits(m, out, c))
      BY <2>6, <2>7, <3>1
    <3> HIDE DEF m, probe
    <3>3. Fits(m, out, c) => Sound(m, Observe(m, "check", probe, view.now), out, c, view)
      BY <3>2, PolledSound
    <3> QED
      BY <3>2, <3>3 DEF m, probe
  <2>9. DecisionOK(s.monitors[i], d, view.now)
    <3> DEFINE m == s.monitors[i]
               probe == answers.probe
    <3> HIDE DEF m, probe
    <3>1. DecisionOK(m, Observe(m, "check", probe, view.now), view.now)
      BY <2>6, ObserveOK DEF m
    <3> QED
      BY <3>1 DEF m, probe
  <2> HIDE DEF d
  <2>10. Carries(s0, ApplyDecision(s, i, d, view))
    BY <2>5, <2>9, Decided, Zenon
  <2>11. r.set = ApplyDecision(s, i, d, view)
    BY <1>2, <1>4 DEF due
  <2>12. ASSUME ReadTo(s, out, c)
         PROVE  ApplyDecision(s, i, d, view).cursor = s.cursor
                /\ ReadTo(ApplyDecision(s, i, d, view), out, c)
    <3> DEFINE a == ApplyDecision(s, i, d, view)
               none == {}
    <3>1. Carries(s, s)
      BY <1>1, CarriesItself
    <3> HIDE DEF s
    <3>2. Touches(s, i, d, view, a)
      BY <1>1, <2>5, <2>9, <3>1, Decided, Zenon
    <3>3. /\ d.monitor.id = s.monitors[i].id
          /\ \A x : x # s.monitors[i].id => (x \in none <=> x \in none)
          /\ Sound(s.monitors[i], d, out, IF s.monitors[i].id \in none THEN c ELSE c, view)
      BY <2>9, <2>8, <2>12 DEF DecisionOK
    <3>4. Fine(s, out, none, c, c)
      BY <2>12 DEF ReadTo
    <3> HIDE DEF none, a
    <3>5. Fine(a, out, none, c, c)
      BY <1>1, <2>5, <3>2, <3>3, <3>4, DecidedFine, Zenon
    <3> QED
      BY <3>2, <3>5 DEF a, none, ReadTo, Touches
  <2> QED
    BY <2>10, <2>11, <2>12 DEF r
<1> QED
  BY <1>3, <1>4

\* The same set with another lifecycle or cursor.
LEMMA NotedOnly ==
  ASSUME NEW s0, NEW s, Carries(s0, s), NEW x, NEW c \in Nat
  PROVE  Carries(s0, [s EXCEPT !.last = x]) /\ Carries(s0, [s EXCEPT !.cursor = c])
<1> DEFINE q == s.monitors
<1>1. MonitorsOK(q, s.nextMonitor) /\ Ids(q) = Ids(s.monitors) /\ Dates(q) = Dates(s.monitors)
  BY DEF Carries, SetOK, Keeps
<1> HIDE DEF q
<1> QED
  BY <1>1, Noted, Zenon

\* The end of a session that ran.
LEMMA LifecyclePassed ==
  ASSUME NEW s0, SetOK(s0), NEW p, Carries(s0, p.set), NEW obs, NEW view, ViewOK(view),
         NEW out, NEW c
  PROVE  /\ Carries(s0, LifecyclePass(p, obs, view).set)
         /\ ReadTo(p.set, out, c) => /\ LifecyclePass(p, obs, view).set.cursor = p.set.cursor
                                    /\ ReadTo(LifecyclePass(p, obs, view).set, out, c)
<1> DEFINE ended == p.set.last = "running" /\ obs.lifecycle # "running"
           s == IF ended THEN EndMonitors(p.set, obs.outcome, view) ELSE p.set
           last == obs.lifecycle
<1>1. LifecyclePass(p, obs, view).set = [s EXCEPT !.last = last]
  BY DEF LifecyclePass
<1>2. Carries(s0, s) /\ s.cursor = p.set.cursor /\ (s = p.set \/ Len(s.monitors) = 0)
  <2> DEFINE outcome == obs.outcome
  <2> DEFINE end == EndMonitors(p.set, outcome, view)
  <2>1. Carries(s0, end) /\ end.cursor = p.set.cursor /\ Len(end.monitors) = 0
    <3> DEFINE q == p.set
    <3>1. Carries(s0, q)
      OBVIOUS
    <3> HIDE DEF q, outcome
    <3>2. /\ Carries(s0, EndMonitors(q, outcome, view))
          /\ EndMonitors(q, outcome, view).cursor = q.cursor
          /\ Len(EndMonitors(q, outcome, view).monitors) = 0
      BY <3>1, Ended
    <3> QED
      BY <3>2 DEF q
  <2> HIDE DEF ended, end
  <2>2. s = end \/ s = p.set
    BY DEF end
  <2> QED
    BY <2>1, <2>2
<1> HIDE DEF s, last
<1>3. Carries(s0, [s EXCEPT !.last = last])
  <2>1. 0 \in Nat
    OBVIOUS
  <2> QED
    BY <1>2, <2>1, NotedOnly, Zenon
<1> DEFINE r == [s EXCEPT !.last = last]
<1>4. r.monitors = s.monitors /\ r.events = s.events /\ r.cursor = s.cursor
  BY <1>2 DEF Carries, SetOK, Keeps, SetRecord
<1> HIDE DEF r
<1>5. ReadTo(p.set, out, c) => ReadTo(r, out, c)
  BY <1>2, <1>4, SameRead, NoneRead
<1> QED
  BY <1>1, <1>2, <1>3, <1>4, <1>5 DEF r

\* A set that has read the output up to its cursor.
Ready(s, out) == s.cursor <= Len(out) /\ ReadTo(s, out, s.cursor)

\* What an observation shows of the output.
Seen(obs, out) == Chunk(obs.output, out, obs.start, obs.end)

\* evaluate_terminal.
LEMMA EvaluatedOK ==
  ASSUME NEW s, SetOK(s), NEW obs, obs.lifecycle \in Lives, obs.end \in Nat, NEW answers,
         NEW t \in Nat, NEW out
  PROVE  /\ Carries(s, EvaluateSet(s, obs, answers, t))
         /\ Seen(obs, out) /\ Dated(out, t) /\ Ready(s, out) =>
              Ready(EvaluateSet(s, obs, answers, t), out)
<1> DEFINE view == [lifecycle |-> obs.lifecycle, cursor |-> obs.end, now |-> t]
           p0 == [set |-> s, changed |-> FALSE]
           p1 == IF obs.gap THEN DegradePass(p0) ELSE p0
           p2 == IF obs.output = << >> THEN p1 ELSE OutputPass(p1, obs, answers, view)
           q2 == [p2 EXCEPT !.set.cursor = obs.end]
           p3 == TimerPass(q2, view)
           p4 == LifecyclePass(PollPass(p3, answers, view), obs, view)
           r == EvaluateSet(s, obs, answers, t)
           c == obs.start
           e == obs.end
           ready == Seen(obs, out) /\ Dated(out, t) /\ Ready(s, out)
<1>1. ViewOK(view) /\ view.now = t /\ view.cursor = e
  BY DEF ViewOK
<1>2. r = s \/ (r = p4.set /\ (obs.gap \/ c = s.cursor))
  <2> HIDE DEF p4
  <2> QED
    BY Zenon DEF EvaluateSet, p4
<1> HIDE DEF view, r
<1>3. ready => /\ Reads(out, obs, c, e, view) /\ Chunk(obs.output, out, c, e) /\ e <= Len(out)
              /\ Dated(out, view.now) /\ view.cursor <= Len(out)
  BY <1>1 DEF ready, Seen, Reads, Chunk
<1> DEFINE go == ready /\ (obs.gap \/ c = s.cursor)
<1>4. go => Ready(s, out)
  BY DEF ready
<1> HIDE DEF ready
<1>5. Carries(s, s)
  BY CarriesItself
<1>6. Carries(s, p0.set) /\ p0 = [set |-> p0.set, changed |-> p0.changed] /\ p0.set = s
  BY <1>5
<1> HIDE DEF p0
<1>7. /\ Carries(s, p1.set) /\ p1 = [set |-> p1.set, changed |-> p1.changed]
      /\ go => ReadTo(p1.set, out, c)
  <2> DEFINE d == DegradePass(p0)
  <2>1. Carries(s, d.set) /\ (ReadTo(s, out, s.cursor) => ReadTo(d.set, out, c))
    BY <1>6, DegradePassed
  <2>2. d = [set |-> d.set, changed |-> d.changed]
    <3> DEFINE a == [p0.set EXCEPT !.monitors =
                       [i \in DOMAIN @ |-> IF Degradable(@[i]) THEN Degraded(@[i]) ELSE @[i]]]
               b == p0.changed \/ \E i \in DOMAIN p0.set.monitors : Degradable(p0.set.monitors[i])
    <3>1. d = [set |-> a, changed |-> b]
      BY Zenon DEF DegradePass
    <3> HIDE DEF a, b, d
    <3> QED
      BY <3>1
  <2> HIDE DEF d
  <2>3. p1 = IF obs.gap THEN d ELSE p0
    BY DEF d
  <2>4. go => ReadTo(p1.set, out, c)
    BY <1>6, <1>4, <2>1, <2>3 DEF Ready
  <2> QED
    BY <1>6, <2>1, <2>2, <2>3, <2>4
<1> HIDE DEF p1
<1>8. /\ Carries(s, p2.set) /\ p2 = [set |-> p2.set, changed |-> p2.changed]
      /\ go => ReadTo(p2.set, out, e)
  <2> DEFINE d == OutputPass(p1, obs, answers, view)
  <2>1. Carries(s, d.set) /\ (go => ReadTo(d.set, out, e))
    <3>1. SetOK(s) /\ Carries(s, p1.set) /\ ViewOK(view)
      BY <1>1, <1>7
    <3>2. /\ Carries(s, d.set)
          /\ Reads(out, obs, c, e, view) /\ ReadTo(p1.set, out, c) =>
               d.set.cursor = p1.set.cursor /\ ReadTo(d.set, out, e)
      BY <3>1, OutputPassed
    <3> HIDE DEF d
    <3> QED
      BY <1>7, <1>3, <3>2
  <2>2. d = [set |-> d.set, changed |-> d.changed]
    <3> DEFINE ids == MonitorIds(p1.set)
               heard[k \in 0 .. Len(ids)] ==
                 IF k = 0 THEN p1.set ELSE HearOne(heard[k - 1], ids[k], obs, answers, view)
               a == heard[Len(ids)]
    <3>1. d = [set |-> a, changed |-> TRUE]
      BY DEF OutputPass
    <3> HIDE DEF a, d
    <3> QED
      BY <3>1
  <2> HIDE DEF d
  <2>3. p2 = IF obs.output = << >> THEN p1 ELSE d
    BY DEF d
  <2>4. go /\ obs.output = << >> => c = e
    <3>1. go => Len(obs.output) = e - c /\ c \in Nat /\ e \in Nat
      BY <1>3 DEF Chunk
    <3>2. obs.output = << >> => Len(obs.output) = 0
      OBVIOUS
    <3> HIDE DEF c, e, go
    <3> QED
      BY <3>1, <3>2
  <2>5. go => ReadTo(p2.set, out, e)
    <3> HIDE DEF c, e, go
    <3> QED
      BY <1>7, <2>1, <2>3, <2>4
  <2> QED
    BY <1>7, <2>1, <2>2, <2>3, <2>5
<1> HIDE DEF p2
<1>9. Carries(s, q2.set) /\ q2.set.cursor = e /\ (go => ReadTo(q2.set, out, e))
  <2> DEFINE k == obs.end
             a == [p2.set EXCEPT !.cursor = k]
             q == p2.set
  <2>1. q2.set = a
    BY <1>8
  <2>2. Carries(s, q) /\ k \in Nat
    BY <1>8
  <2> HIDE DEF q, k
  <2>3. Carries(s, [q EXCEPT !.cursor = k])
    BY <2>2, NotedOnly, Zenon
  <2>4. a.cursor = k /\ a.monitors = q.monitors /\ a.events = q.events
    BY <2>2 DEF q, Carries, SetOK, Keeps, SetRecord
  <2>5. ReadTo(q, out, e) => ReadTo(a, out, e)
    <3> HIDE DEF a, e
    <3> QED
      BY <2>4, SameRead
  <2> HIDE DEF a, go
  <2> QED
    BY <1>8, <2>1, <2>3, <2>4, <2>5 DEF q, a, k
<1> HIDE DEF q2, c, e, go
<1>10. Carries(s, p3.set) /\ (go => p3.set.cursor = e /\ ReadTo(p3.set, out, e))
  <2>1. /\ Carries(s, p3.set)
        /\ /\ Dated(out, view.now) /\ view.cursor <= Len(out)
           /\ ReadTo(q2.set, out, view.cursor)
           => p3.set.cursor = q2.set.cursor /\ ReadTo(p3.set, out, view.cursor)
    BY <1>1, <1>9, TimerPassed
  <2> HIDE DEF p3
  <2> QED
    BY <1>1, <1>9, <1>3, <2>1 DEF go
<1> HIDE DEF p3
<1> DEFINE q3 == PollPass(p3, answers, view)
<1>11. Carries(s, q3.set) /\ (go => q3.set.cursor = e /\ ReadTo(q3.set, out, e))
  <2>1. /\ Carries(s, q3.set)
        /\ ReadTo(p3.set, out, e) => q3.set.cursor = p3.set.cursor /\ ReadTo(q3.set, out, e)
    BY <1>1, <1>10, PollPassed
  <2> HIDE DEF q3
  <2> QED
    BY <1>10, <2>1
<1> HIDE DEF q3
<1>12. Carries(s, p4.set) /\ (go => p4.set.cursor = e /\ ReadTo(p4.set, out, e))
  <2> DEFINE end == LifecyclePass(q3, obs, view)
  <2>1. /\ Carries(s, end.set)
        /\ ReadTo(q3.set, out, e) => end.set.cursor = q3.set.cursor /\ ReadTo(end.set, out, e)
    BY <1>1, <1>11, LifecyclePassed
  <2>2. p4 = end
    BY DEF q3
  <2> HIDE DEF end, p4
  <2> QED
    BY <1>11, <2>1, <2>2
<1> HIDE DEF p4
<1>13. ready => Ready(r, out)
  <2>1. CASE r = s
    BY <2>1 DEF ready
  <2>2. CASE r = p4.set /\ (obs.gap \/ c = s.cursor)
    BY <1>12, <1>3, <2>2 DEF go, Ready
  <2> QED
    BY <1>2, <2>1, <2>2
<1> QED
  BY <1>2, <1>5, <1>12, <1>13 DEF r, ready

\* end_session, end_missing_session.
LEMMA EndSetOK ==
  ASSUME NEW s, SetOK(s), NEW lifecycle \in Lives \cup {"lost"}, NEW t \in Nat
  PROVE  /\ Carries(s, EndSet(s, lifecycle, t))
         /\ \A out : Ready(s, out) => Ready(EndSet(s, lifecycle, t), out)
<1> DEFINE view == [lifecycle |-> lifecycle, cursor |-> s.cursor, now |-> t]
           q == EndMonitors(s, None, view)
           r == EndSet(s, lifecycle, t)
<1>1. Carries(s, s) /\ s.cursor \in Nat
  BY CarriesItself DEF SetOK, Keeps, SetRecord
<1>2. ViewOK(view)
  BY <1>1 DEF ViewOK
<1>3. r = s \/ r = [q EXCEPT !.last = lifecycle]
  <2> HIDE DEF q
  <2> QED
    BY Zenon DEF EndSet, q
<1> HIDE DEF r, view
<1>4. Carries(s, q) /\ q.cursor = s.cursor /\ Len(q.monitors) = 0
  BY <1>1, <1>2, Ended
<1> HIDE DEF q
<1>5. Carries(s, [q EXCEPT !.last = lifecycle])
  <2>1. 0 \in Nat
    OBVIOUS
  <2> QED
    BY <1>4, <2>1, NotedOnly, Zenon
<1> DEFINE a == [q EXCEPT !.last = lifecycle]
<1>6. a.monitors = q.monitors /\ a.cursor = s.cursor
  BY <1>4 DEF Carries, SetOK, Keeps, SetRecord
<1> HIDE DEF a
<1>7. \A out : Ready(s, out) => Ready(a, out)
  BY <1>4, <1>6, NoneRead DEF Ready
<1> QED
  BY <1>1, <1>3, <1>5, <1>7 DEF r, a

-----------------------------------------------------------------------------
(* What clients do to a set.                                               *)

Told == {"expired", "removed", "updated", "paused", "resumed"}

\* r is a set again, with no other events than those of s and those told of.
Operated(s, r) ==
  SetOK(r) /\ \A e \in Members(r.events) : e \in Members(s.events) \/ e.reason \in Told

LEMMA NewMonitorOK ==
  ASSUME NEW id \in Nat, NEW definition, NEW t
  PROVE  MonitorOK(NewMonitor(id, definition, t)) /\ NewMonitor(id, definition, t).id = id
<1> DEFINE c == definition.condition
           deadline == IF definition.lifetime.kind = "duration"
                       THEN t + definition.lifetime.span ELSE None
           check == CASE c.kind = "poll"  -> t + c.every
                      [] c.kind = "quiet" -> t + c.span
                      [] OTHER            -> None
           notice == IF definition.notify.kind = "interval"
                     THEN t + definition.notify.every ELSE None
           none == {}
           m == NewMonitor(id, definition, t)
<1>1. m = [id |-> id, definition |-> definition, state |-> "active", deadline |-> deadline,
           nextCheck |-> check, nextNotice |-> notice, checks |-> 0, lastReason |-> None,
           matched |-> FALSE, reached |-> none]
  BY Zenon DEF NewMonitor
<1> HIDE DEF deadline, check, notice, none, m
<1>2. MonitorOK(m) /\ m.id = id
  BY <1>1 DEF MonitorOK
<1> QED
  BY <1>2 DEF m

LEMMA PausedOK ==
  ASSUME NEW m, MonitorOK(m)
  PROVE  MonitorOK(Paused(m)) /\ Paused(m).id = m.id
BY DEF Paused, MonitorOK

LEMMA ResumedOK ==
  ASSUME NEW m, MonitorOK(m), NEW t
  PROVE  MonitorOK(Resumed(m, t)) /\ Resumed(m, t).id = m.id
<1> DEFINE c == m.definition.condition
           state == IF m.matched THEN "matched" ELSE "active"
           check == CASE c.kind = "poll"  -> t + c.every
                      [] c.kind = "quiet" -> t + c.span
                      [] OTHER            -> m.nextCheck
           notice == IF m.definition.notify.kind = "interval"
                     THEN t + m.definition.notify.every ELSE m.nextNotice
           n == [m EXCEPT !.state = state, !.nextCheck = check, !.nextNotice = notice]
           names == {"id", "definition", "state", "deadline", "nextCheck", "nextNotice", "checks",
                     "lastReason", "matched", "reached"}
<1>1. Resumed(m, t) = n
  BY Zenon DEF Resumed
<1>2. state \in {"matched", "active"} /\ (m.matched => state # "active")
  OBVIOUS
<1> HIDE DEF state, check, notice
<1>3. DOMAIN m = names /\ m.id \in Nat
  BY DEF MonitorOK
<1>4. /\ n = [x \in names |-> n[x]] /\ n.id = m.id /\ n.state = state /\ n.matched = m.matched
  BY <1>3
<1> HIDE DEF n
<1>5. MonitorOK(n)
  BY <1>2, <1>3, <1>4 DEF MonitorOK
<1> QED
  BY <1>1, <1>4, <1>5

\* A monitor becomes another of its id, and its owner is told.
LEMMA Becomes ==
  ASSUME NEW s, SetOK(s), NEW i \in 1 .. Len(s.monitors), NEW new, MonitorOK(new),
         new.id = s.monitors[i].id, NEW reason \in {"updated", "paused", "resumed"},
         NEW view, ViewOK(view)
  PROVE  Operated(s, PushEvent([s EXCEPT !.monitors[i] = new], i, reason, view))
<1> DEFINE left == [s EXCEPT !.monitors = [s.monitors EXCEPT ![i] = new]]
           none == {x \in Nat : FALSE}
           r == PushEvent(left, i, reason, view)
<1>1. [s EXCEPT !.monitors[i] = new] = left
  OBVIOUS
<1>2. SetOK(left) /\ left.events = s.events /\ Len(left.monitors) = Len(s.monitors)
  <2>1. SetOK(left) /\ Replaces(s, i, new, left)
    BY Replaced, Zenon
  <2> QED
    BY <2>1 DEF Replaces
<1> HIDE DEF left
<1>3. reason \in Reasons /\ reason \notin Final /\ reason \in Told
  BY DEF Reasons, Final, Told
<1>4. i \in 1 .. Len(left.monitors) /\ (reason \in Final => left.monitors[i].id \in none)
  BY <1>2, <1>3
<1>5. none = {}
  OBVIOUS
<1> HIDE DEF none
<1>6. Keeps(r, none) /\ Records(left, i, reason, view, r)
  BY <1>2, <1>3, <1>4, Pushed, Zenon
<1> HIDE DEF r
<1>7. SetOK(r)
  BY <1>5, <1>6 DEF SetOK
<1>8. \A e \in Members(r.events) : e \in Members(s.events) \/ e.reason \in Told
  BY <1>2, <1>3, <1>6 DEF Records
<1> QED
  BY <1>1, <1>7, <1>8, Zenon DEF Operated, r

LEMMA RemovedOK ==
  ASSUME NEW s, SetOK(s), NEW i \in 1 .. Len(s.monitors), NEW view, ViewOK(view)
  PROVE  LET told == PushEvent(s, i, "removed", view)
         IN  Operated(s, [told EXCEPT !.monitors = RemoveAt(@, i)])
<1> DEFINE told == PushEvent(s, i, "removed", view)
           going == {s.monitors[i].id}
           gone == [told EXCEPT !.monitors = RemoveAt(told.monitors, i)]
<1>1. "removed" \in Reasons /\ "removed" \in Told /\ s.monitors[i].id \in going
  BY DEF Reasons, Told
<1>2. Keeps(told, going) /\ Records(s, i, "removed", view, told)
  <2> HIDE DEF going
  <2>1. "removed" \in Final => s.monitors[i].id \in going
    BY <1>1
  <2> QED
    BY <1>1, <2>1, Pushed, Zenon
<1> HIDE DEF told
<1>3. Keeps(told, {told.monitors[i].id}) /\ i \in 1 .. Len(told.monitors)
  BY <1>2 DEF Records
<1>4. SetOK(gone) /\ gone.events = told.events
  BY <1>3, Gone
<1>5. gone = [told EXCEPT !.monitors = RemoveAt(@, i)]
  OBVIOUS
<1> HIDE DEF gone
<1>6. Operated(s, gone)
  BY <1>1, <1>2, <1>4 DEF Operated, Records
<1> QED
  BY <1>5, <1>6 DEF told

LEMMA AddedOK ==
  ASSUME NEW s, SetOK(s), NEW definition, NEW view
  PROVE  AddMonitor(s, definition, view) = Failed \/ Operated(s, AddMonitor(s, definition, view))
<1> DEFINE next == s.nextMonitor + 1
           new == NewMonitor(s.nextMonitor, definition, view.now)
           q == Append(s.monitors, new)
           r == [s EXCEPT !.nextMonitor = next, !.monitors = q]
<1>1. SUFFICES ASSUME AddMonitor(s, definition, view) # Failed
               PROVE  Operated(s, AddMonitor(s, definition, view))
  OBVIOUS
<1>2. ~(Len(s.monitors) >= MaxMonitors) /\ AddMonitor(s, definition, view) = r
  BY <1>1 DEF AddMonitor
<1>3. /\ SetRecord(s) /\ MonitorsOK(s.monitors, s.nextMonitor)
      /\ LogOK(s.events, s.nextEvent, s.acked, s.gap)
      /\ EndsOK(s.events, s.monitors, s.nextMonitor, {})
      /\ Len(s.monitors) \in Nat /\ s.nextMonitor \in Nat \ {0}
  BY SetParts
<1>4. MonitorOK(new) /\ new.id = s.nextMonitor
  BY <1>3, NewMonitorOK
<1> HIDE DEF new
<1>5. MonitorsOK(q, next) /\ Ids(q) = Ids(s.monitors) \cup {s.nextMonitor}
  <2>1. Len(s.monitors) < MaxMonitors
    BY <1>2, <1>3, StoreAssumption
  <2> QED
    BY <1>3, <1>4, <2>1, MonitorsAdd
<1>6. next \in Nat \ {0} /\ next = s.nextMonitor + 1
  BY <1>3
<1> HIDE DEF q, next
<1>7. r = [nextMonitor |-> next, nextEvent |-> s.nextEvent, gap |-> s.gap, acked |-> s.acked,
           cursor |-> s.cursor, last |-> s.last, monitors |-> q, events |-> s.events]
  <2> DEFINE names == {"nextMonitor", "nextEvent", "gap", "acked", "cursor", "last",
                       "monitors", "events"}
  <2>1. DOMAIN s = names
    BY <1>3 DEF SetRecord
  <2>2. r = [x \in names |-> r[x]]
    BY <2>1
  <2>3. /\ r.nextMonitor = next /\ r.nextEvent = s.nextEvent /\ r.gap = s.gap
        /\ r.acked = s.acked /\ r.cursor = s.cursor /\ r.last = s.last
        /\ r.monitors = q /\ r.events = s.events
    BY <2>1
  <2> HIDE DEF r
  <2> QED
    BY <2>2, <2>3
<1> HIDE DEF r
<1>8. /\ r.nextMonitor = next /\ r.nextEvent = s.nextEvent /\ r.gap = s.gap
      /\ r.acked = s.acked /\ r.cursor = s.cursor /\ r.last = s.last
      /\ r.monitors = q /\ r.events = s.events
  BY <1>7
<1>9. SetRecord(r)
  BY <1>3, <1>6, <1>7, <1>8 DEF SetRecord
<1>10. EndsOK(r.events, r.monitors, r.nextMonitor, {})
  <2>1. \A e \in Members(s.events) : e.monitor \in Nat /\ e.monitor < s.nextMonitor
    <3>1. \A e \in Members(s.events) : e \in Event
      BY SetParts
    <3> QED
      BY <1>3, <3>1 DEF EndsOK, Event
  <2>2. \A e \in Members(s.events) : e.monitor < next /\ e.monitor # s.nextMonitor
    BY <1>3, <1>6, <2>1
  <2> QED
    BY <1>3, <1>5, <1>8, <2>2 DEF EndsOK
<1>11. SetOK(r)
  BY <1>3, <1>5, <1>8, <1>9, <1>10 DEF SetOK, Keeps
<1> QED
  BY <1>2, <1>8, <1>11 DEF Operated

\* The set operate starts from.
LEMMA EmptyLog ==
  ASSUME NEW log, log = << >>, NEW q, NEW next, NEW going
  PROVE  LogOK(log, 1, 0, 0) /\ EndsOK(log, q, next, going)
<1>1. log \in Seq(Event) /\ Len(log) = 0
  BY EmptySeq
<1>2. Members(log) = {} /\ \A i \in 1 .. Len(log) : FALSE
  BY <1>1 DEF Members
<1>3. LogOK(log, 1, 0, 0)
  <2>1. 1 - 1 - Len(log) = 0 /\ Len(log) <= MaxEvents
    <3> DEFINE n == Len(log)
    <3>1. n = 0
      BY <1>1
    <3> HIDE DEF n
    <3>2. 1 - 1 - n = 0 /\ n <= MaxEvents
      BY <3>1, StoreAssumption
    <3> QED
      BY <3>2 DEF n
  <2> QED
    BY <1>1, <1>2, <2>1 DEF LogOK
<1>4. EndsOK(log, q, next, going)
  BY <1>2 DEF EndsOK
<1> QED
  BY <1>3, <1>4

LEMMA EmptySetOK ==
  ASSUME NEW cursor \in Nat, NEW lifecycle
  PROVE  SetOK(EmptySet(cursor, lifecycle)) /\ EmptySet(cursor, lifecycle).events = << >>
<1> DEFINE s == EmptySet(cursor, lifecycle)
<1>1. s = [nextMonitor |-> 1, nextEvent |-> 1, gap |-> 0, acked |-> 0, cursor |-> cursor,
           last |-> lifecycle, monitors |-> << >>, events |-> << >>]
  BY Zenon DEF EmptySet
<1>2. /\ s.nextMonitor = 1 /\ s.nextEvent = 1 /\ s.gap = 0 /\ s.acked = 0
      /\ s.cursor = cursor /\ s.last = lifecycle /\ s.monitors = << >> /\ s.events = << >>
  BY <1>1
<1> HIDE DEF s
<1>3. SetRecord(s)
  BY <1>1, <1>2 DEF SetRecord
<1>4. Len(<< >>) = 0 /\ << >> \in Seq(Event) /\ << >> \in Seq(Members(<< >>))
  BY EmptySeq
<1>5. Members(<< >>) = {}
  BY <1>4 DEF Members
<1>6. MonitorsOK(<< >>, 1)
  BY <1>4, StoreAssumption DEF MonitorsOK
<1>7. LogOK(<< >>, 1, 0, 0) /\ EndsOK(<< >>, << >>, 1, {})
  BY EmptyLog, Zenon
<1> QED
  BY <1>2, <1>3, <1>6, <1>7 DEF SetOK, Keeps, s

LEMMA OperatedOn ==
  ASSUME NEW s, SetOK(s), NEW op, op.kind \in {"update", "pause", "resume", "remove"},
         NEW i \in 1 .. Len(s.monitors), NEW view, ViewOK(view)
  PROVE  Operated(s, OperateOn(s, op, i, view))
<1> DEFINE m == s.monitors[i]
           updated == NewMonitor(m.id, op.definition, view.now)
           r == OperateOn(s, op, i, view)
<1>1. MonitorOK(m) /\ m.id \in Nat
  BY SetParts
<1>2. Operated(s, s)
  BY DEF Operated
<1>3. CASE op.kind = "update"
  <2>1. MonitorOK(updated) /\ updated.id = m.id
    BY <1>1, NewMonitorOK
  <2>2. r = PushEvent([s EXCEPT !.monitors[i] = updated], i, "updated", view)
    BY <1>3, Zenon DEF OperateOn
  <2> HIDE DEF updated
  <2> QED
    BY <2>1, <2>2, Becomes
<1>4. CASE op.kind = "pause"
  <2> DEFINE new == Paused(m)
  <2>1. MonitorOK(new) /\ new.id = m.id
    BY <1>1, PausedOK
  <2>2. r = s \/ r = PushEvent([s EXCEPT !.monitors[i] = new], i, "paused", view)
    <3> HIDE DEF m
    <3> QED
      BY <1>4 DEF OperateOn, m
  <2> HIDE DEF new, r
  <2>3. Operated(s, PushEvent([s EXCEPT !.monitors[i] = new], i, "paused", view))
    <3>1. "paused" \in {"updated", "paused", "resumed"}
      OBVIOUS
    <3> QED
      BY <2>1, <3>1, Becomes, Zenon
  <2> QED
    BY <1>2, <2>2, <2>3 DEF r
<1>5. CASE op.kind = "resume"
  <2> DEFINE new == Resumed(m, view.now)
  <2>1. MonitorOK(new) /\ new.id = m.id
    BY <1>1, ResumedOK
  <2>2. r = s \/ r = PushEvent([s EXCEPT !.monitors[i] = new], i, "resumed", view)
    <3> HIDE DEF m
    <3> QED
      BY <1>5 DEF OperateOn, m
  <2> HIDE DEF new, r
  <2>3. Operated(s, PushEvent([s EXCEPT !.monitors[i] = new], i, "resumed", view))
    <3>1. "resumed" \in {"updated", "paused", "resumed"}
      OBVIOUS
    <3> QED
      BY <2>1, <3>1, Becomes, Zenon
  <2> QED
    BY <1>2, <2>2, <2>3 DEF r
<1>6. CASE op.kind = "remove"
  <2> DEFINE told == PushEvent(s, i, "removed", view)
  <2>1. r = [told EXCEPT !.monitors = RemoveAt(@, i)]
    BY <1>6 DEF OperateOn
  <2> QED
    BY <2>1, RemovedOK
<1> QED
  BY <1>3, <1>4, <1>5, <1>6

\* operate, on the set that is stored or a new one.
LEMMA OperatedSet ==
  ASSUME NEW stored, stored # None => SetOK(stored), NEW op \in Operations,
         NEW view, ViewOK(view)
  PROVE  \/ OperateSet(stored, op, view) = Failed
         \/ /\ SetOK(OperateSet(stored, op, view))
            /\ stored # None => Operated(stored, OperateSet(stored, op, view))
<1> DEFINE old == IF stored = None THEN EmptySet(view.cursor, view.lifecycle) ELSE stored
           last == view.lifecycle
           s == [old EXCEPT !.last = last]
           r == OperateSet(stored, op, view)
<1>1. r = IF op.kind = "add" THEN AddMonitor(s, op.definition, view)
          ELSE IF ~Has(s, op.id) THEN Failed
          ELSE OperateOn(s, op, IndexOf(s, op.id), view)
  BY Zenon DEF OperateSet
<1>2. op.kind \in {"add", "update", "pause", "resume", "remove"}
  BY DEF Operations
<1>3. SetOK(old)
  <2>1. view.cursor \in Nat
    BY DEF ViewOK
  <2> QED
    BY <2>1, EmptySetOK
<1>4. stored # None => old = stored
  OBVIOUS
<1> HIDE DEF old, last, r
<1>5. SetOK(s) /\ s.events = old.events
  <2>1. Carries(old, s)
    <3>1. Carries(old, old) /\ 0 \in Nat
      BY <1>3, CarriesItself
    <3> QED
      BY <3>1, NotedOnly, Zenon
  <2>2. SetRecord(old)
    BY <1>3, SetParts
  <2> QED
    BY <2>1, <2>2 DEF Carries, SetRecord
<1> HIDE DEF s
<1>6. r = Failed \/ Operated(s, r)
  <2>1. CASE op.kind = "add"
    <3>1. r = AddMonitor(s, op.definition, view)
      BY <1>1, <2>1
    <3> QED
      BY <1>5, <3>1, AddedOK
  <2>2. CASE op.kind # "add" /\ ~Has(s, op.id)
    BY <1>1, <2>2
  <2>3. CASE op.kind # "add" /\ Has(s, op.id)
    <3> DEFINE i == IndexOf(s, op.id)
    <3>1. r = OperateOn(s, op, i, view)
      BY <1>1, <2>3
    <3>2. i \in DOMAIN s.monitors
      BY <2>3 DEF Has, IndexOf
    <3>3. DOMAIN s.monitors = 1 .. Len(s.monitors)
      <4>1. s.monitors \in Seq(Members(s.monitors))
        BY <1>5, SetParts DEF MonitorsOK
      <4> QED
        BY <4>1, LenProperties
    <3> HIDE DEF i
    <3>4. i \in 1 .. Len(s.monitors) /\ op.kind \in {"update", "pause", "resume", "remove"}
      BY <1>2, <2>3, <3>2, <3>3
    <3> QED
      BY <1>5, <3>1, <3>4, OperatedOn
  <2> QED
    BY <2>1, <2>2, <2>3
<1>7. Operated(s, r) => SetOK(r) /\ (stored # None => Operated(stored, r))
  BY <1>4, <1>5 DEF Operated
<1> QED
  BY <1>6, <1>7 DEF r

\* install_initial.
LEMMA InstalledOK ==
  ASSUME NEW stored, NEW definitions \in Initial, NEW view, ViewOK(view)
  PROVE  \/ InstallInitial(stored, definitions, view) = Failed
         \/ stored = None /\ SetOK(InstallInitial(stored, definitions, view))
<1> DEFINE n == Len(definitions)
           q == [i \in DOMAIN definitions |-> NewMonitor(i, definitions[i], view.now)]
           r == InstallInitial(stored, definitions, view)
           e == EmptySet(0, view.lifecycle)
           next == n + 1
           made == [e EXCEPT !.nextMonitor = next, !.monitors = q]
<1>1. SUFFICES ASSUME r # Failed
               PROVE  stored = None /\ SetOK(r)
  OBVIOUS
<1>2. definitions \in Seq(Range(definitions))
  BY HostAssumption
<1>3. n \in Nat /\ DOMAIN definitions = 1 .. n
  BY <1>2, LenProperties
<1>4. stored = None /\ ~(n > MaxMonitors) /\ r = made
  BY <1>1 DEF InstallInitial
<1>5. \A i \in 1 .. n : MonitorOK(q[i]) /\ q[i].id = i
  <2>1. ASSUME NEW i \in 1 .. n
        PROVE  MonitorOK(q[i]) /\ q[i].id = i
    <3>1. q[i] = NewMonitor(i, definitions[i], view.now) /\ i \in Nat
      BY <1>3
    <3> HIDE DEF q
    <3> QED
      BY <3>1, NewMonitorOK
  <2> QED
    BY <2>1
<1>6. q \in Seq(Members(q)) /\ Len(q) = n
  <2> DEFINE S == {q[i] : i \in 1 .. n}
  <2>1. q \in [1 .. n -> S]
    BY <1>3
  <2> HIDE DEF q, n
  <2>2. q \in Seq(S)
    <3> HIDE DEF S
    <3> QED
      BY <1>3, <2>1, IsASeq
  <2>3. Len(q) = n
    <3>1. Len(q) \in Nat /\ DOMAIN q = 1 .. Len(q)
      BY <2>2, LenProperties
    <3>2. DOMAIN q = 1 .. n
      BY <2>1
    <3> DEFINE k == Len(q)
    <3>3. k \in Nat /\ 1 .. k = 1 .. n
      BY <3>1, <3>2
    <3> HIDE DEF k
    <3>4. k = n
      BY <1>3, <3>3
    <3> QED
      BY <3>4 DEF k
  <2> QED
    BY <2>2, <2>3 DEF Members
<1> HIDE DEF q, n
<1>7. next \in Nat \ {0} /\ MonitorsOK(q, next)
  <2>1. n <= MaxMonitors
    BY <1>3, <1>4, StoreAssumption
  <2>2. \A i \in 1 .. Len(q) : MonitorOK(q[i]) /\ q[i].id < next
    BY <1>3, <1>5, <1>6
  <2>3. \A i, j \in 1 .. Len(q) : i < j => q[i].id < q[j].id
    BY <1>5, <1>6
  <2>4. q \in Seq(Members(q)) /\ Len(q) <= MaxMonitors
    BY <1>6, <2>1
  <2>5. next \in Nat \ {0}
    BY <1>3
  <2> HIDE DEF next
  <2> QED
    BY <2>2, <2>3, <2>4, <2>5 DEF MonitorsOK
<1> HIDE DEF next
<1>8. made = [nextMonitor |-> next, nextEvent |-> 1, gap |-> 0, acked |-> 0, cursor |-> 0,
              last |-> view.lifecycle, monitors |-> q, events |-> << >>]
  <2> DEFINE none == << >>
  <2>1. e = [nextMonitor |-> 1, nextEvent |-> 1, gap |-> 0, acked |-> 0, cursor |-> 0,
             last |-> view.lifecycle, monitors |-> none, events |-> none]
    BY Zenon DEF EmptySet
  <2> HIDE DEF none, e
  <2> DEFINE names == {"nextMonitor", "nextEvent", "gap", "acked", "cursor", "last",
                       "monitors", "events"}
  <2>2. DOMAIN e = names
    BY <2>1
  <2>3. made = [x \in names |-> made[x]]
    BY <2>2
  <2>4. /\ made.nextMonitor = next /\ made.nextEvent = 1 /\ made.gap = 0 /\ made.acked = 0
        /\ made.cursor = 0 /\ made.last = view.lifecycle /\ made.monitors = q
        /\ made.events = none
    BY <2>1, <2>2
  <2> HIDE DEF made
  <2>5. made = [nextMonitor |-> next, nextEvent |-> 1, gap |-> 0, acked |-> 0, cursor |-> 0,
                last |-> view.lifecycle, monitors |-> q, events |-> none]
    BY <2>3, <2>4
  <2> QED
    BY <2>5, Zenon DEF none
<1> HIDE DEF made
<1>9. /\ made.nextMonitor = next /\ made.nextEvent = 1 /\ made.gap = 0 /\ made.acked = 0
      /\ made.cursor = 0 /\ made.last = view.lifecycle /\ made.monitors = q
      /\ made.events = << >>
  BY <1>8
<1>10. SetRecord(made)
  BY <1>7, <1>8, <1>9 DEF SetRecord
<1>11. LogOK(<< >>, 1, 0, 0) /\ EndsOK(<< >>, q, next, {})
  BY EmptyLog, Zenon
<1>12. SetOK(made)
  BY <1>7, <1>9, <1>10, <1>11 DEF SetOK, Keeps
<1> QED
  BY <1>4, <1>12

\* inspect.
LEMMA AcknowledgedOK ==
  ASSUME NEW s, SetOK(s), NEW id \in 1 .. (s.nextEvent - 1)
  PROVE  /\ SetOK(Acknowledge(s, id))
         /\ \A e \in Members(Acknowledge(s, id).events) : e \in Members(s.events)
<1> DEFINE n == Len(s.events)
           kept[k \in 0 .. n] ==
             IF k = 0 THEN << >>
             ELSE IF s.events[k].id > id THEN Append(kept[k - 1], s.events[k]) ELSE kept[k - 1]
           acked == IF id > s.acked THEN id ELSE s.acked
           log == kept[n]
           r == [s EXCEPT !.acked = acked, !.events = log]
<1>1. /\ SetRecord(s) /\ MonitorsOK(s.monitors, s.nextMonitor)
      /\ LogOK(s.events, s.nextEvent, s.acked, s.gap)
      /\ EndsOK(s.events, s.monitors, s.nextMonitor, {})
  BY SetParts
<1>2. n \in Nat /\ s.events \in Seq(Event)
  BY <1>1, LenProperties DEF LogOK
<1>3. Acknowledge(s, id) = r
  BY Zenon DEF Acknowledge
<1>4. IsKept(kept, s.events, id, n)
  <2>1. \E f : IsKept(f, s.events, id, n)
    <3> HIDE DEF n
    <3> QED
      BY <1>2, KeptExists
  <2> QED
    BY <2>1 DEF IsKept
<1> HIDE DEF kept
<1>5. /\ s.nextEvent \in Nat \ {0} /\ s.acked \in Nat /\ s.gap \in Nat
      /\ s.nextMonitor \in Nat \ {0} /\ s.cursor \in Nat
  BY <1>1 DEF SetRecord
<1>6. LogOK(log, s.nextEvent, acked, s.gap) /\ \A e \in Members(log) : e \in Members(s.events)
  <2> DEFINE next == s.nextEvent
             old == s.acked
             gap == s.gap
             all == s.events
  <2>1. /\ next \in Nat \ {0} /\ old \in Nat /\ gap \in Nat /\ LogOK(all, next, old, gap)
        /\ id \in 1 .. (next - 1) /\ IsKept(kept, all, id, Len(all))
    BY <1>1, <1>4, <1>5
  <2> HIDE DEF next, old, gap, all
  <2>2. /\ LogOK(kept[Len(all)], next, IF id > old THEN id ELSE old, gap)
        /\ \A e \in Members(kept[Len(all)]) : e \in Members(all)
    BY <2>1, LogAcknowledged
  <2> QED
    BY <2>2 DEF next, old, gap, all
<1>7. acked \in Nat
  BY <1>5
<1> HIDE DEF log, acked
<1>8. r = [nextMonitor |-> s.nextMonitor, nextEvent |-> s.nextEvent, gap |-> s.gap,
           acked |-> acked, cursor |-> s.cursor, last |-> s.last, monitors |-> s.monitors,
           events |-> log]
  <2> DEFINE names == {"nextMonitor", "nextEvent", "gap", "acked", "cursor", "last",
                       "monitors", "events"}
  <2>1. DOMAIN s = names
    BY <1>1 DEF SetRecord
  <2>2. r = [x \in names |-> r[x]]
    BY <2>1
  <2>3. /\ r.nextMonitor = s.nextMonitor /\ r.nextEvent = s.nextEvent /\ r.gap = s.gap
        /\ r.acked = acked /\ r.cursor = s.cursor /\ r.last = s.last
        /\ r.monitors = s.monitors /\ r.events = log
    BY <2>1
  <2> HIDE DEF r
  <2> QED
    BY <2>2, <2>3
<1> HIDE DEF r
<1>9. /\ r.nextMonitor = s.nextMonitor /\ r.nextEvent = s.nextEvent /\ r.gap = s.gap
      /\ r.acked = acked /\ r.cursor = s.cursor /\ r.last = s.last
      /\ r.monitors = s.monitors /\ r.events = log
  BY <1>8
<1>10. SetRecord(r)
  BY <1>5, <1>7, <1>8, <1>9 DEF SetRecord
<1>11. EndsOK(r.events, r.monitors, r.nextMonitor, {})
  BY <1>1, <1>6, <1>9 DEF EndsOK
<1>12. SetOK(r)
  BY <1>1, <1>6, <1>9, <1>10, <1>11 DEF SetOK, Keeps
<1> QED
  BY <1>3, <1>6, <1>9, <1>12

-----------------------------------------------------------------------------
(* What clients do to a set leaves what it has read.                       *)

\* A monitor with the condition of one of its id, or an id no event bears yet.
Inherits(s, n) ==
  \/ \E m \in Members(s.monitors) : n.id = m.id /\ Condition(n) = Condition(m)
  \/ \A x \in Members(s.events) : x.monitor # n.id

\* r has fitting monitors, and no new events that are about its output.
Leaves(s, r, out, c) ==
  /\ \A n \in Members(r.monitors) : Fits(n, out, c) /\ (NoUpdate => Inherits(s, n))
  /\ \A x \in Members(r.events) : x \in Members(s.events) \/ x.reason \notin Three

LEMMA LeavesRead ==
  ASSUME NEW s, NEW r, NEW out, NEW c, ReadTo(s, out, c), Leaves(s, r, out, c)
  PROVE  ReadTo(r, out, c)
<1>1. AllFit(r.monitors, out, {}, c, c)
  BY DEF Leaves, AllFit
<1>2. ASSUME NoUpdate
      PROVE  Reports(r, out)
  <2>1. SUFFICES ASSUME NEW x \in Members(r.events), NEW n \in Members(r.monitors),
                        x.monitor = n.id, Quiet(n), x.reason \in Three, x.cursor > 0
                 PROVE  x.cursor <= Len(out) /\ out[x.cursor].at + Condition(n).span <= x.at
    BY DEF Reports
  <2>2. x \in Members(s.events)
    BY <2>1 DEF Leaves
  <2>3. Inherits(s, n)
    BY <1>2 DEF Leaves
  <2>4. PICK m \in Members(s.monitors) : n.id = m.id /\ Condition(n) = Condition(m)
    BY <2>1, <2>2, <2>3 DEF Inherits
  <2>5. Reports(s, out)
    BY <1>2 DEF ReadTo, Fine
  <2> QED
    BY <2>1, <2>2, <2>4, <2>5 DEF Reports, Quiet
<1> QED
  BY <1>1, <1>2 DEF ReadTo, Fine

\* A new monitor has heard nothing, and waits from now on.
LEMMA NewFits ==
  ASSUME NEW id, NEW definition, ConditionOK(definition.condition), NEW t \in Nat,
         NEW out, NEW c \in Nat, c <= Len(out), c = 0 \/ Dated(out, t)
  PROVE  Fits(NewMonitor(id, definition, t), out, c)
<1> DEFINE k == definition.condition
           deadline == IF definition.lifetime.kind = "duration"
                       THEN t + definition.lifetime.span ELSE None
           check == CASE k.kind = "poll"  -> t + k.every
                      [] k.kind = "quiet" -> t + k.span
                      [] OTHER            -> None
           notice == IF definition.notify.kind = "interval"
                     THEN t + definition.notify.every ELSE None
           none == {}
           m == NewMonitor(id, definition, t)
<1>1. m = [id |-> id, definition |-> definition, state |-> "active", deadline |-> deadline,
           nextCheck |-> check, nextNotice |-> notice, checks |-> 0, lastReason |-> None,
           matched |-> FALSE, reached |-> none]
  BY Zenon DEF NewMonitor
<1>2. k.kind = "quiet" => check = t + k.span
  OBVIOUS
<1> HIDE DEF deadline, check, notice, none, m
<1>3. /\ m.definition = definition /\ m.state = "active" /\ m.nextCheck = check
      /\ ~m.matched /\ m.reached = none
  BY <1>1
<1>4. Condition(m) = k
  BY <1>3 DEF Condition
<1> HIDE DEF k
<1>5. Waits(m, out, c)
  <2>1. SUFFICES ASSUME Quiet(m)
                 PROVE  m.nextCheck \in Nat /\ (c > 0 => out[c].at + k.span <= m.nextCheck)
    BY <1>4 DEF Waits
  <2>2. k.span \in Nat /\ m.nextCheck = t + k.span
    BY <1>2, <1>3, <1>4, <2>1 DEF Quiet, ConditionOK, k
  <2>3. c > 0 => out[c].at \in Nat /\ out[c].at <= t
    BY DEF Dated
  <2> QED
    BY <2>2, <2>3
<1>6. Listens(m, out, c)
  BY <1>3 DEF Listens, none
<1>7. m.state # "paused" /\ m.state # "degraded" /\ ConditionOK(Condition(m))
  BY <1>3, <1>4 DEF k
<1> QED
  BY <1>5, <1>6, <1>7 DEF Fits, m

LEMMA BecomesRead ==
  ASSUME NEW s, SetOK(s), NEW i \in 1 .. Len(s.monitors), NEW new, MonitorOK(new),
         new.id = s.monitors[i].id, NEW reason \in {"updated", "paused", "resumed"},
         NEW view, ViewOK(view), NEW out, NEW c, ReadTo(s, out, c), Fits(new, out, c),
         NoUpdate => new.definition = s.monitors[i].definition
  PROVE  LET r == PushEvent([s EXCEPT !.monitors[i] = new], i, reason, view)
         IN  r.cursor = s.cursor /\ ReadTo(r, out, c)
<1> DEFINE left == [s EXCEPT !.monitors = [s.monitors EXCEPT ![i] = new]]
           none == {x \in Nat : FALSE}
           r == PushEvent(left, i, reason, view)
<1>1. [s EXCEPT !.monitors[i] = new] = left
  OBVIOUS
<1>2. SetOK(left) /\ Replaces(s, i, new, left)
  BY Replaced, Zenon
<1> HIDE DEF left
<1>3. reason \in Reasons /\ reason \notin Final /\ reason \notin Three
  BY DEF Reasons, Final, Three
<1>4. i \in 1 .. Len(left.monitors) /\ (reason \in Final => left.monitors[i].id \in none)
  BY <1>2, <1>3 DEF Replaces
<1> HIDE DEF none
<1>5. Records(left, i, reason, view, r)
  BY <1>2, <1>3, <1>4, Pushed, Zenon
<1> HIDE DEF r
<1>6. ASSUME NEW n \in Members(r.monitors)
      PROVE  Fits(n, out, c) /\ (NoUpdate => Inherits(s, n))
  <2>1. PICK j \in 1 .. Len(s.monitors) : n = r.monitors[j]
    BY <1>2, <1>5 DEF Records, Replaces, Members
  <2>2. s.monitors[j] \in Members(s.monitors)
    BY DEF Members
  <2>3. CASE j # i
    <3>1. n = s.monitors[j]
      BY <1>2, <1>5, <2>1, <2>3 DEF Records, Replaces, Others
    <3>2. Fits(n, out, c)
      BY <2>2, <3>1 DEF ReadTo, Fine, AllFit
    <3> QED
      BY <2>2, <3>1, <3>2 DEF Inherits
  <2>4. CASE j = i
    <3>1. Alike(n, new)
      BY <1>2, <1>5, <2>1, <2>4 DEF Records, Replaces
    <3>2. Fits(n, out, c)
      BY <3>1, AlikeFits
    <3>3. NoUpdate => n.id = s.monitors[j].id /\ Condition(n) = Condition(s.monitors[j])
      BY <2>4, <3>1 DEF Alike, Condition
    <3> QED
      BY <2>2, <3>2, <3>3 DEF Inherits
  <2> QED
    BY <2>3, <2>4
<1>7. \A x \in Members(r.events) : x \in Members(s.events) \/ x.reason \notin Three
  BY <1>2, <1>3, <1>5 DEF Records, Replaces
<1>8. ReadTo(r, out, c)
  BY <1>6, <1>7, LeavesRead DEF Leaves
<1>9. r.cursor = s.cursor
  BY <1>2, <1>5 DEF Records, Replaces
<1> QED
  BY <1>1, <1>8, <1>9, Zenon DEF r

LEMMA RemovedRead ==
  ASSUME NEW s, SetOK(s), NEW i \in 1 .. Len(s.monitors), NEW view, ViewOK(view),
         NEW out, NEW c, ReadTo(s, out, c)
  PROVE  LET told == PushEvent(s, i, "removed", view)
             r == [told EXCEPT !.monitors = RemoveAt(@, i)]
         IN  r.cursor = s.cursor /\ ReadTo(r, out, c)
<1> DEFINE told == PushEvent(s, i, "removed", view)
           going == {s.monitors[i].id}
           gone == [told EXCEPT !.monitors = RemoveAt(told.monitors, i)]
<1>1. "removed" \in Reasons /\ "removed" \notin Three /\ s.monitors[i].id \in going
  BY DEF Reasons, Three
<1>2. Keeps(told, going) /\ Records(s, i, "removed", view, told)
  <2> HIDE DEF going
  <2>1. "removed" \in Final => s.monitors[i].id \in going
    BY <1>1
  <2> QED
    BY <1>1, <2>1, Pushed, Zenon
<1> HIDE DEF told
<1>3. Keeps(told, {told.monitors[i].id}) /\ i \in 1 .. Len(told.monitors)
  BY <1>2 DEF Records
<1>4. /\ SetOK(gone) /\ gone.events = told.events /\ gone.cursor = told.cursor
      /\ Without(gone.monitors, told.monitors, told.monitors[i].id)
  <2>1. told.cursor = gone.cursor
    BY <1>2 DEF Keeps, SetRecord
  <2> HIDE DEF gone
  <2>2. /\ SetOK([told EXCEPT !.monitors = RemoveAt(told.monitors, i)])
        /\ [told EXCEPT !.monitors = RemoveAt(told.monitors, i)].events = told.events
        /\ Without([told EXCEPT !.monitors = RemoveAt(told.monitors, i)].monitors,
                   told.monitors, told.monitors[i].id)
    BY <1>3, Gone
  <2> QED
    BY <2>1, <2>2 DEF gone
<1>5. gone = [told EXCEPT !.monitors = RemoveAt(@, i)]
  OBVIOUS
<1> HIDE DEF gone
<1>6. ASSUME NEW n \in Members(gone.monitors)
      PROVE  n \in Members(s.monitors)
  <2>1. n \in Members(told.monitors) /\ n.id # told.monitors[i].id
    BY <1>4 DEF Without
  <2>2. PICK j \in 1 .. Len(told.monitors) : n = told.monitors[j]
    BY <2>1 DEF Members
  <2>3. j # i /\ j \in 1 .. Len(s.monitors)
    BY <1>2, <2>1, <2>2 DEF Records
  <2> QED
    BY <1>2, <2>2, <2>3 DEF Records, Others, Members
<1>7. \A n \in Members(gone.monitors) : Fits(n, out, c) /\ Inherits(s, n)
  BY <1>6 DEF ReadTo, Fine, AllFit, Inherits
<1>8. \A x \in Members(gone.events) : x \in Members(s.events) \/ x.reason \notin Three
  BY <1>1, <1>2, <1>4 DEF Records
<1>9. ReadTo(gone, out, c)
  BY <1>7, <1>8, LeavesRead DEF Leaves
<1>10. gone.cursor = s.cursor
  BY <1>2, <1>4 DEF Records
<1> QED
  BY <1>5, <1>9, <1>10 DEF told

LEMMA AddedRead ==
  ASSUME NEW s, SetOK(s), NEW definition, ConditionOK(definition.condition),
         NEW view, ViewOK(view), NEW out, NEW c \in Nat, c <= Len(out), Dated(out, view.now),
         ReadTo(s, out, c), AddMonitor(s, definition, view) # Failed
  PROVE  LET r == AddMonitor(s, definition, view)
         IN  r.cursor = s.cursor /\ ReadTo(r, out, c)
<1> DEFINE next == s.nextMonitor + 1
           new == NewMonitor(s.nextMonitor, definition, view.now)
           q == Append(s.monitors, new)
           r == [s EXCEPT !.nextMonitor = next, !.monitors = q]
<1>1. AddMonitor(s, definition, view) = r
  BY DEF AddMonitor
<1>2. /\ SetRecord(s) /\ s.nextMonitor \in Nat /\ s.monitors \in Seq(Members(s.monitors))
      /\ Len(s.monitors) \in Nat /\ EndsOK(s.events, s.monitors, s.nextMonitor, {})
      /\ \A x \in Members(s.events) : x \in Event
  BY SetParts DEF MonitorsOK
<1>3. Fits(new, out, c) /\ new.id = s.nextMonitor
  <2>1. view.now \in Nat
    BY DEF ViewOK
  <2> HIDE DEF new
  <2>2. new.id = s.nextMonitor
    BY <1>2, NewMonitorOK DEF new
  <2>3. Fits(NewMonitor(s.nextMonitor, definition, view.now), out, c)
    BY <2>1, NewFits
  <2> QED
    BY <2>2, <2>3 DEF new
<1> HIDE DEF new, next
<1>4. Len(q) = Len(s.monitors) + 1 /\ q[Len(s.monitors) + 1] = new
      /\ \A j \in 1 .. Len(s.monitors) : q[j] = s.monitors[j]
  BY <1>2
<1> HIDE DEF q
<1>5. r.monitors = q /\ r.events = s.events /\ r.cursor = s.cursor
  BY <1>2 DEF SetRecord
<1> HIDE DEF r
<1>6. ASSUME NEW n \in Members(r.monitors)
      PROVE  Fits(n, out, c) /\ Inherits(s, n)
  <2>1. PICK j \in 1 .. (Len(s.monitors) + 1) : n = q[j]
    BY <1>4, <1>5 DEF Members
  <2>2. CASE j \in 1 .. Len(s.monitors)
    <3>1. n \in Members(s.monitors)
      BY <1>4, <2>1, <2>2 DEF Members
    <3> QED
      BY <3>1 DEF ReadTo, Fine, AllFit, Inherits
  <2>3. CASE j = Len(s.monitors) + 1
    <3>1. n = new
      BY <1>4, <2>1, <2>3
    <3>2. \A x \in Members(s.events) : x.monitor \in Nat /\ x.monitor < s.nextMonitor
      BY <1>2 DEF EndsOK, Event
    <3>3. \A x \in Members(s.events) : x.monitor # n.id
      BY <1>2, <1>3, <3>1, <3>2
    <3> QED
      BY <1>3, <3>1, <3>3 DEF Inherits
  <2> QED
    BY <1>2, <2>2, <2>3
<1>7. ReadTo(r, out, c)
  BY <1>5, <1>6, LeavesRead DEF Leaves
<1> QED
  BY <1>1, <1>5, <1>7 DEF r

LEMMA OperatedOnRead ==
  ASSUME NEW s, SetOK(s), NEW op \in Operations, op.kind # "add",
         NEW i \in 1 .. Len(s.monitors), NEW view, ViewOK(view),
         NEW out, NEW c \in Nat, c <= Len(out), Dated(out, view.now), ReadTo(s, out, c)
  PROVE  OperateOn(s, op, i, view).cursor = s.cursor /\ ReadTo(OperateOn(s, op, i, view), out, c)
<1> DEFINE m == s.monitors[i]
           t == view.now
           definition == op.definition
           updated == NewMonitor(m.id, definition, t)
           r == OperateOn(s, op, i, view)
<1>1. MonitorOK(m) /\ m.id \in Nat /\ t \in Nat
  BY SetParts DEF ViewOK
<1>2. Fits(m, out, c)
  BY DEF ReadTo, Fine, AllFit, Members
<1>3. /\ op.kind \in {"update", "pause", "resume", "remove"}
      /\ op.kind = "update" => "update" \in Kinds /\ definition \in Definitions
      /\ op.kind = "pause" => "pause" \in Kinds
  BY DEF Operations
<1>4. CASE op.kind = "update"
  <2>1. MonitorOK(updated) /\ updated.id = m.id
    BY <1>1, NewMonitorOK
  <2>2. r = PushEvent([s EXCEPT !.monitors[i] = updated], i, "updated", view)
    BY <1>4, Zenon DEF OperateOn
  <2>3. Fits(updated, out, c)
    <3>1. ConditionOK(definition.condition)
      BY <1>3, <1>4, HostAssumption
    <3> HIDE DEF definition, t
    <3> QED
      BY <1>1, <3>1, NewFits DEF t
  <2>4. ~NoUpdate
    BY <1>3, <1>4 DEF NoUpdate
  <2> HIDE DEF updated, r
  <2>5. /\ PushEvent([s EXCEPT !.monitors[i] = updated], i, "updated", view).cursor = s.cursor
        /\ ReadTo(PushEvent([s EXCEPT !.monitors[i] = updated], i, "updated", view), out, c)
    <3>1. updated.id = s.monitors[i].id
      BY <2>1
    <3>2. "updated" \in {"updated", "paused", "resumed"}
          /\ (NoUpdate => updated.definition = s.monitors[i].definition)
      BY <2>4
    <3> QED
      BY <2>1, <2>3, <3>1, <3>2, BecomesRead, Zenon
  <2> QED
    BY <2>2, <2>5 DEF r
<1>5. CASE op.kind = "pause"
  <2> DEFINE new == Paused(m)
  <2>1. MonitorOK(new) /\ new.id = m.id
    BY <1>1, PausedOK
  <2>2. r = s \/ r = PushEvent([s EXCEPT !.monitors[i] = new], i, "paused", view)
    <3> HIDE DEF m
    <3> QED
      BY <1>5 DEF OperateOn, m
  <2>3. new.definition = m.definition /\ new.state = "paused"
    <3> HIDE DEF m
    <3> QED
      BY <1>1 DEF Paused, MonitorOK
  <2>4. Fits(new, out, c)
    <3>1. ~NoPause
      BY <1>3, <1>5 DEF NoPause
    <3> HIDE DEF new, m
    <3> QED
      BY <1>2, <2>3, <3>1 DEF Fits, Waits, Condition
  <2> HIDE DEF new, r
  <2>5. /\ PushEvent([s EXCEPT !.monitors[i] = new], i, "paused", view).cursor = s.cursor
        /\ ReadTo(PushEvent([s EXCEPT !.monitors[i] = new], i, "paused", view), out, c)
    <3>1. "paused" \in {"updated", "paused", "resumed"}
          /\ (NoUpdate => new.definition = s.monitors[i].definition)
      BY <2>3
    <3> QED
      BY <2>1, <2>4, <3>1, BecomesRead, Zenon
  <2> QED
    BY <2>2, <2>5 DEF r
<1>6. CASE op.kind = "resume" /\ m.state # "paused"
  <2>1. r = s
    <3> HIDE DEF m
    <3> QED
      BY <1>6 DEF OperateOn, m
  <2> QED
    BY <2>1
<1>7. CASE op.kind = "resume" /\ m.state = "paused"
  <2> DEFINE new == Resumed(m, t)
  <2>1. MonitorOK(new) /\ new.id = m.id
    BY <1>1, ResumedOK
  <2>2. r = PushEvent([s EXCEPT !.monitors[i] = new], i, "resumed", view)
    <3> HIDE DEF m
    <3> QED
      BY <1>7 DEF OperateOn, m
  <2>3. /\ new.definition = m.definition /\ new.state \in {"matched", "active"}
        /\ Quiet(m) => new.nextCheck = t + Condition(m).span
    <3> DEFINE k == m.definition.condition
               state == IF m.matched THEN "matched" ELSE "active"
               check == CASE k.kind = "poll"  -> t + k.every
                          [] k.kind = "quiet" -> t + k.span
                          [] OTHER            -> m.nextCheck
               notice == IF m.definition.notify.kind = "interval"
                         THEN t + m.definition.notify.every ELSE m.nextNotice
               n == [m EXCEPT !.state = state, !.nextCheck = check, !.nextNotice = notice]
    <3>1. new = n
      BY Zenon DEF Resumed
    <3>2. Quiet(m) => check = t + Condition(m).span
      BY DEF Quiet, Condition
    <3>3. state \in {"matched", "active"}
      OBVIOUS
    <3> HIDE DEF state, check, notice, m, new
    <3>4. n.definition = m.definition /\ n.state = state /\ n.nextCheck = check
      BY <1>1 DEF MonitorOK
    <3> HIDE DEF n
    <3> QED
      BY <3>1, <3>2, <3>3, <3>4
  <2>4. Fits(new, out, c)
    <3> HIDE DEF new, m
    <3>1. ~NoPause
      BY <1>2, <1>7 DEF Fits
    <3>2. Condition(new) = Condition(m) /\ ConditionOK(Condition(m)) /\ (Quiet(new) <=> Quiet(m))
      BY <1>2, <2>3 DEF Fits, Condition, Quiet
    <3>3. Waits(new, out, c)
      <4>1. SUFFICES ASSUME Quiet(m)
                     PROVE  new.nextCheck \in Nat
                            /\ (c > 0 => out[c].at + Condition(m).span <= new.nextCheck)
        BY <3>2 DEF Waits
      <4>2. Condition(m).span \in Nat
        BY <3>2, <4>1 DEF Quiet, ConditionOK
      <4>3. c > 0 => out[c].at \in Nat /\ out[c].at <= t
        BY DEF Dated
      <4> HIDE DEF t
      <4> QED
        BY <1>1, <2>3, <4>1, <4>2, <4>3
    <3> QED
      BY <2>3, <3>1, <3>2, <3>3 DEF Fits
  <2> HIDE DEF new, r
  <2>5. /\ PushEvent([s EXCEPT !.monitors[i] = new], i, "resumed", view).cursor = s.cursor
        /\ ReadTo(PushEvent([s EXCEPT !.monitors[i] = new], i, "resumed", view), out, c)
    <3>1. "resumed" \in {"updated", "paused", "resumed"}
          /\ (NoUpdate => new.definition = s.monitors[i].definition)
      BY <2>3
    <3> QED
      BY <2>1, <2>4, <3>1, BecomesRead, Zenon
  <2> QED
    BY <2>2, <2>5 DEF r
<1>8. CASE op.kind = "remove"
  <2> DEFINE told == PushEvent(s, i, "removed", view)
  <2>1. r = [told EXCEPT !.monitors = RemoveAt(@, i)]
    BY <1>8 DEF OperateOn
  <2> QED
    BY <2>1, RemovedRead
<1> QED
  BY <1>3, <1>4, <1>5, <1>6, <1>7, <1>8

\* operate.
LEMMA OperatedSetRead ==
  ASSUME NEW stored, NEW op \in Operations, NEW view, ViewOK(view), NEW out,
         stored # None => SetOK(stored) /\ Ready(stored, out),
         view.cursor <= Len(out), Dated(out, view.now),
         OperateSet(stored, op, view) # Failed
  PROVE  Ready(OperateSet(stored, op, view), out)
<1> DEFINE empty == EmptySet(view.cursor, view.lifecycle)
           old == IF stored = None THEN empty ELSE stored
           last == view.lifecycle
           s == [old EXCEPT !.last = last]
           r == OperateSet(stored, op, view)
<1>1. r = IF op.kind = "add" THEN AddMonitor(s, op.definition, view)
          ELSE IF ~Has(s, op.id) THEN Failed
          ELSE OperateOn(s, op, IndexOf(s, op.id), view)
  BY Zenon DEF OperateSet
<1>2. op.kind = "add" => op.definition \in Definitions
  BY DEF Operations
<1>3. SetOK(old) /\ Ready(old, out)
  <2>1. SetOK(empty)
    BY EmptySetOK DEF ViewOK
  <2>2. empty.cursor = view.cursor /\ Len(empty.monitors) = 0
    BY EmptySeq DEF EmptySet
  <2> HIDE DEF empty
  <2>3. Ready(empty, out)
    BY <2>2, NoneRead DEF Ready
  <2> QED
    BY <2>1, <2>3
<1> HIDE DEF old, last, r
<1>4. SetOK(s) /\ s.events = old.events /\ s.monitors = old.monitors /\ s.cursor = old.cursor
  <2>1. Carries(old, s)
    <3>1. Carries(old, old) /\ 0 \in Nat
      BY <1>3, CarriesItself
    <3> QED
      BY <3>1, NotedOnly, Zenon
  <2>2. SetRecord(old)
    BY <1>3, SetParts
  <2> QED
    BY <2>1, <2>2 DEF Carries, SetRecord
<1> HIDE DEF s
<1> DEFINE c == s.cursor
<1>5. c \in Nat /\ c <= Len(out) /\ ReadTo(s, out, c)
  <2>1. c \in Nat
    BY <1>4, SetParts DEF SetRecord
  <2>2. c <= Len(out) /\ ReadTo(old, out, c)
    BY <1>3, <1>4 DEF Ready
  <2> HIDE DEF c
  <2> QED
    BY <1>4, <2>1, <2>2, SameRead
<1> HIDE DEF c
<1>6. r.cursor = s.cursor /\ ReadTo(r, out, c)
  <2>1. CASE op.kind = "add"
    <3>1. r = AddMonitor(s, op.definition, view) /\ r # Failed
      BY <1>1, <2>1 DEF r
    <3>2. ConditionOK(op.definition.condition)
      BY <1>2, <2>1, HostAssumption
    <3> QED
      BY <1>4, <1>5, <3>1, <3>2, AddedRead
  <2>2. CASE op.kind # "add"
    <3> DEFINE i == IndexOf(s, op.id)
    <3>1. r = OperateOn(s, op, i, view) /\ Has(s, op.id)
      BY <1>1, <2>2 DEF r
    <3>2. i \in DOMAIN s.monitors
      BY <3>1 DEF Has, IndexOf
    <3>3. DOMAIN s.monitors = 1 .. Len(s.monitors)
      <4>1. s.monitors \in Seq(Members(s.monitors))
        BY <1>4, SetParts DEF MonitorsOK
      <4> QED
        BY <4>1, LenProperties
    <3> HIDE DEF i
    <3> QED
      BY <1>4, <1>5, <2>2, <3>1, <3>2, <3>3, OperatedOnRead
  <2> QED
    BY <2>1, <2>2
<1> QED
  BY <1>5, <1>6 DEF Ready, c, r

\* install_initial.
LEMMA InstalledRead ==
  ASSUME NEW stored, NEW definitions \in Initial, NEW view, ViewOK(view),
         InstallInitial(stored, definitions, view) # Failed, NEW out, Len(out) \in Nat
  PROVE  Ready(InstallInitial(stored, definitions, view), out)
<1> DEFINE n == Len(definitions)
           q == [i \in DOMAIN definitions |-> NewMonitor(i, definitions[i], view.now)]
           r == InstallInitial(stored, definitions, view)
           e == EmptySet(0, view.lifecycle)
           next == n + 1
           made == [e EXCEPT !.nextMonitor = next, !.monitors = q]
<1>1. r = made
  BY DEF InstallInitial
<1>2. n \in Nat /\ DOMAIN definitions = 1 .. n
  <2>1. definitions \in Seq(Range(definitions))
    BY HostAssumption
  <2> QED
    BY <2>1, LenProperties
<1>3. ASSUME NEW i \in 1 .. n
      PROVE  Fits(q[i], out, 0)
  <2>1. q[i] = NewMonitor(i, definitions[i], view.now) /\ view.now \in Nat
    BY <1>2 DEF ViewOK
  <2>2. ConditionOK(definitions[i].condition)
    BY <1>2, HostAssumption
  <2> DEFINE d == definitions[i]
             t == view.now
  <2> HIDE DEF d, t, q
  <2>3. Fits(NewMonitor(i, d, t), out, 0)
    BY <2>1, <2>2, NewFits DEF d, t
  <2> QED
    BY <2>1, <2>3 DEF d, t
<1>4. q \in [1 .. n -> {q[i] : i \in 1 .. n}]
  BY <1>2
<1> HIDE DEF q, n
<1>5. Len(q) = n
  <2> DEFINE S == {q[i] : i \in 1 .. n}
             k == Len(q)
  <2>1. q \in [1 .. n -> S] /\ DOMAIN q = 1 .. n
    BY <1>4
  <2>2. k \in Nat /\ 1 .. k = 1 .. n
    <3>1. q \in Seq(S)
      <4> HIDE DEF S
      <4> QED
        BY <1>2, <2>1, IsASeq
    <3>2. k \in Nat /\ DOMAIN q = 1 .. k
      BY <3>1, LenProperties
    <3> QED
      BY <2>1, <3>2
  <2> HIDE DEF k
  <2>3. k = n
    BY <1>2, <2>2
  <2> QED
    BY <2>3 DEF k
<1>6. made.monitors = q /\ made.events = << >> /\ made.cursor = 0
  BY DEF EmptySet
<1> HIDE DEF made
<1>7. Members(made.events) = {}
  BY <1>6, EmptySeq DEF Members
<1>8. ReadTo(made, out, 0)
  <2>1. AllFit(made.monitors, out, {}, 0, 0)
    BY <1>3, <1>5, <1>6 DEF AllFit, Members
  <2>2. Reports(made, out)
    BY <1>7 DEF Reports
  <2> QED
    BY <2>1, <2>2 DEF ReadTo, Fine
<1> QED
  BY <1>1, <1>6, <1>8 DEF Ready

\* inspect.
LEMMA AcknowledgedRead ==
  ASSUME NEW s, SetOK(s), NEW id \in 1 .. (s.nextEvent - 1), NEW out, Ready(s, out)
  PROVE  Ready(Acknowledge(s, id), out)
<1> DEFINE kept[k \in 0 .. Len(s.events)] ==
             IF k = 0 THEN << >>
             ELSE IF s.events[k].id > id THEN Append(kept[k - 1], s.events[k]) ELSE kept[k - 1]
           acked == IF id > s.acked THEN id ELSE s.acked
           log == kept[Len(s.events)]
           r == [s EXCEPT !.acked = acked, !.events = log]
<1>1. Acknowledge(s, id) = r
  BY Zenon DEF Acknowledge
<1>2. \A e \in Members(r.events) : e \in Members(s.events)
  <2>1. \A e \in Members(Acknowledge(s, id).events) : e \in Members(s.events)
    BY AcknowledgedOK
  <2> HIDE DEF r
  <2> QED
    BY <1>1, <2>1
<1> HIDE DEF kept, log, acked
<1>3. r.monitors = s.monitors /\ r.cursor = s.cursor
  BY SetParts DEF SetRecord
<1> HIDE DEF r
<1>4. ReadTo(s, out, s.cursor)
  BY DEF Ready
<1>5. \A n \in Members(r.monitors) : Fits(n, out, s.cursor) /\ Inherits(s, n)
  BY <1>3, <1>4 DEF ReadTo, Fine, AllFit, Inherits
<1>6. ReadTo(r, out, s.cursor)
  BY <1>2, <1>4, <1>5, LeavesRead DEF Leaves
<1> QED
  BY <1>1, <1>3, <1>6 DEF Ready

-----------------------------------------------------------------------------
(* More output.                                                            *)

Extends(out, more) ==
  /\ Len(out) \in Nat /\ Len(more) \in Nat /\ Len(out) <= Len(more)
  /\ \A i \in 1 .. Len(out) : more[i] = out[i]

LEMMA ExtendsFits ==
  ASSUME NEW out, NEW more, Extends(out, more), NEW m, NEW c \in Nat, c <= Len(out),
         Fits(m, out, c)
  PROVE  Fits(m, more, c)
<1>1. c > 0 => more[c] = out[c]
  BY DEF Extends
<1>2. Waits(m, more, c)
  BY <1>1 DEF Fits, Waits
<1>3. ASSUME NoPause, Literal(m)
      PROVE  IF m.matched THEN Holds(Pattern(m), more)
             ELSE m.reached \subseteq Ends(Pattern(m), more, c)
  <2> DEFINE p == Pattern(m)
             n == Len(p)
  <2>1. n \in Nat
    <3>1. p \in Seq(Range(p))
      BY <1>3 DEF Fits, ConditionOK, Literal, Pattern, Condition
    <3> HIDE DEF p
    <3> QED
      BY <3>1, LenProperties
  <2> HIDE DEF p
  <2>2. IF m.matched THEN Holds(p, out) ELSE m.reached \subseteq Ends(p, out, c)
    BY <1>3 DEF Fits, Listens, p
  <2>3. Holds(p, out) => Holds(p, more)
    <3>1. SUFFICES ASSUME NEW i \in 0 .. (Len(out) - n), \A k \in 1 .. n : out[i + k].byte = p[k]
                   PROVE  Holds(p, more)
      BY DEF Holds
    <3>2. i \in 0 .. (Len(more) - n)
      BY <2>1 DEF Extends
    <3>3. \A k \in 1 .. n : i + k \in 1 .. Len(out)
      BY <2>1 DEF Extends
    <3>4. \A k \in 1 .. n : more[i + k].byte = p[k]
      BY <3>1, <3>3 DEF Extends
    <3> QED
      BY <3>2, <3>4 DEF Holds
  <2>4. Ends(p, out, c) \subseteq Ends(p, more, c)
    <3>1. ASSUME NEW j \in Ends(p, out, c)
          PROVE  j \in Ends(p, more, c)
      <4>1. j \in 0 .. n /\ j <= c /\ \A k \in 1 .. j : out[(c - j) + k].byte = p[k]
        BY DEF Ends
      <4>2. \A k \in 1 .. j : (c - j) + k \in 1 .. Len(out)
        BY <2>1, <4>1 DEF Extends
      <4>3. \A k \in 1 .. j : more[(c - j) + k].byte = p[k]
        BY <4>1, <4>2 DEF Extends
      <4> QED
        BY <4>1, <4>3 DEF Ends
    <3> QED
      BY <3>1
  <2> QED
    BY <2>2, <2>3, <2>4 DEF p
<1> QED
  BY <1>2, <1>3 DEF Fits, Listens

LEMMA ExtendsReady ==
  ASSUME NEW out, NEW more, Extends(out, more), NEW s, SetOK(s), Ready(s, out)
  PROVE  Ready(s, more)
<1>1. s.cursor \in Nat /\ s.cursor <= Len(out) /\ ReadTo(s, out, s.cursor)
  BY SetParts DEF SetRecord, Ready
<1>2. AllFit(s.monitors, more, {}, s.cursor, s.cursor)
  <2>1. \A m \in Members(s.monitors) : Fits(m, out, s.cursor)
    BY <1>1 DEF ReadTo, Fine, AllFit
  <2> QED
    BY <1>1, <2>1, ExtendsFits DEF AllFit
<1>3. NoUpdate => Reports(s, more)
  <2>1. \A x \in Members(s.events) : x.cursor \in Nat
    <3>1. \A x \in Members(s.events) : x \in Event
      BY SetParts
    <3> QED
      BY <3>1 DEF Event
  <2>2. \A i \in Nat : i > 0 /\ i <= Len(out) => i <= Len(more) /\ more[i] = out[i]
    BY DEF Extends
  <2>3. NoUpdate => Reports(s, out)
    BY <1>1 DEF ReadTo, Fine
  <2> QED
    BY <2>1, <2>2, <2>3 DEF Reports
<1>4. s.cursor <= Len(more)
  BY <1>1 DEF Extends
<1> QED
  BY <1>2, <1>3, <1>4 DEF Ready, ReadTo, Fine

LEMMA ExtendsSeen ==
  ASSUME NEW out, NEW more, Extends(out, more), NEW obs, Seen(obs, out)
  PROVE  Seen(obs, more)
<1> DEFINE chunk == obs.output
           c == obs.start
           e == obs.end
<1>1. /\ c \in Nat /\ e \in Nat /\ c <= e /\ e <= Len(out) /\ Len(chunk) = e - c
      /\ \A i \in 1 .. (e - c) : chunk[i] = out[c + i].byte
  BY DEF Seen, Chunk
<1> HIDE DEF c, e, chunk
<1>2. e <= Len(more)
  BY <1>1 DEF Extends
<1>3. \A i \in 1 .. (e - c) : more[c + i] = out[c + i]
  <2>1. \A i \in 1 .. (e - c) : c + i \in 1 .. Len(out)
    BY <1>1 DEF Extends
  <2> QED
    BY <2>1 DEF Extends
<1>4. Chunk(chunk, more, c, e)
  BY <1>1, <1>2, <1>3 DEF Chunk
<1> QED
  BY <1>4 DEF Seen, chunk, c, e

-----------------------------------------------------------------------------
(* Steps of the host.                                                      *)

\* Any step leaves the stored set, makes the first one, or turns it into one
\* whose new events are those of a client's operation or of an evaluation.
SetMoves(s, r) ==
  \/ r = s
  \/ s = None /\ SetOK(r)
  \/ /\ s # None /\ SetOK(r)
     /\ \A e \in Members(r.events) :
          e.id >= s.nextEvent => e.reason \in Told \/ OnlyExpires(s, e)

LEMMA CarriesMoves ==
  ASSUME NEW s, s # None, NEW r, Carries(s, r)
  PROVE  SetMoves(s, r)
BY DEF Carries, SetMoves

LEMMA OperatedMoves ==
  ASSUME NEW s, s # None, SetOK(s), NEW r, Operated(s, r)
  PROVE  SetMoves(s, r)
<1>1. \A e \in Members(s.events) : e.id \in Nat /\ e.id < s.nextEvent
  BY SetParts
<1>2. s.nextEvent \in Nat
  BY SetParts
<1>3. \A e \in Members(r.events) : e.id >= s.nextEvent => e.reason \in Told
  BY <1>1, <1>2 DEF Operated
<1> QED
  BY <1>3 DEF Operated, SetMoves

LEMMA SetStep ==
  ASSUME IInv, [Next]_vars
  PROVE  SetMoves(set, set')
<1> USE DEF IInv
<1>0. /\ set # None => SetOK(set)
      /\ now \in Nat /\ WorkerOK(worker) /\ \A c \in Clients : ClientOK(client[c])
  BY HostAssumption DEF HostOK
<1>1. CASE set' = set
  BY <1>1 DEF SetMoves
<1>2. ASSUME NEW c \in Clients, Install(c)
      PROVE  SetMoves(set, set')
  <2>1. client[c].definitions \in Initial /\ ViewOK(client[c].view)
    BY <1>0, <1>2 DEF Install, ClientOK
  <2> DEFINE r == InstallInitial(set, client[c].definitions, client[c].view)
  <2>2. r = Failed \/ (set = None /\ SetOK(r))
    BY <2>1, InstalledOK
  <2>3. set' = set \/ (set' = r /\ r # Failed)
    BY <1>2 DEF Install
  <2> HIDE DEF r
  <2> QED
    BY <2>2, <2>3 DEF SetMoves
<1>3. ASSUME NEW c \in Clients, Operate(c)
      PROVE  SetMoves(set, set')
  <2> DEFINE op == client[c].op
             view == View(client[c].lifecycle, client[c].cursor)
             r == OperateSet(set, op, view)
  <2>1. op \in Operations /\ client[c].lifecycle \in Lives /\ client[c].cursor \in Nat
    BY <1>0, <1>3 DEF Operate, ClientOK
  <2>2. ViewOK(view)
    BY <1>0, <2>1 DEF ViewOK, View
  <2>3. set' = set \/ (set' = r /\ r # Failed)
    <3> HIDE DEF r
    <3> QED
      BY <1>3 DEF Operate, r
  <2> HIDE DEF op, view
  <2>4. r = Failed \/ (SetOK(r) /\ (set # None => Operated(set, r)))
    BY <1>0, <2>1, <2>2, OperatedSet
  <2> HIDE DEF r
  <2>5. CASE set' = r /\ r # Failed /\ set # None
    BY <1>0, <2>4, <2>5, OperatedMoves
  <2>6. CASE set' = r /\ r # Failed /\ set = None
    BY <2>4, <2>6 DEF SetMoves
  <2> QED
    BY <1>1, <2>3, <2>5, <2>6
<1>4. ASSUME NEW lifecycle \in Lives \cup {"lost"}, set' = EndSet(set, lifecycle, now)
      PROVE  SetMoves(set, set')
  <2>1. CASE set = None
    BY <1>4, <2>1 DEF EndSet, SetMoves
  <2>2. CASE set # None
    BY <1>0, <1>4, <2>2, EndSetOK, CarriesMoves
  <2> QED
    BY <2>1, <2>2
<1>5. ASSUME NEW c \in Clients, EndSession(c)
      PROVE  SetMoves(set, set')
  BY <1>4, <1>5 DEF EndSession, Lives
<1>6. ASSUME NEW c \in Clients, NEW id \in 1 .. MaxEventId, Inspect(c, id)
      PROVE  SetMoves(set, set')
  <2>1. set # None /\ SetOK(set) /\ id \in 1 .. (set.nextEvent - 1) /\ set' = Acknowledge(set, id)
    BY <1>0, <1>6 DEF Inspect
  <2>2. Operated(set, set')
    BY <2>1, AcknowledgedOK DEF Operated
  <2> QED
    BY <2>1, <2>2, OperatedMoves
<1>7. ASSUME NEW answers \in Answers, Evaluate(answers)
      PROVE  SetMoves(set, set')
  <2>1. CASE worker.obs = None
    <3>1. set' = EndSet(set, "lost", now)
      BY <1>7, <2>1 DEF Evaluate
    <3> QED
      BY <1>4, <3>1
  <2>2. CASE worker.obs # None
    <3>1. set' = EvaluateSet(set, worker.obs, answers, now)
      BY <1>7, <2>2 DEF Evaluate
    <3>2. worker.obs.lifecycle \in Lives /\ worker.obs.end \in Nat
      BY <1>0, <1>7, <2>2 DEF Evaluate, WorkerOK, ObservationOK
    <3>3. CASE set = None
      <4>1. set' = set
        BY <3>1, <3>3, Zenon DEF EvaluateSet
      <4> QED
        BY <1>1, <4>1
    <3>4. CASE set # None
      <4> DEFINE obs == worker.obs
                 r == EvaluateSet(set, obs, answers, now)
      <4>1. set' = r
        BY <3>1
      <4> HIDE DEF obs
      <4>2. Carries(set, r)
        BY <1>0, <3>2, <3>4, EvaluatedOK DEF obs
      <4> HIDE DEF r
      <4> QED
        BY <3>4, <4>1, <4>2, CarriesMoves
    <3> QED
      BY <3>3, <3>4
  <2> QED
    BY <2>1, <2>2
<1>8. set' = set \/ (\E c \in Clients : Install(c) \/ Operate(c) \/ EndSession(c))
      \/ (\E c \in Clients : \E id \in 1 .. MaxEventId : Inspect(c, id))
      \/ (\E answers \in Answers : Evaluate(answers))
  BY DEF Next, vars, ClientStep, Supervise, Supervising, Tick, Output, Exit, Start, Sample,
         MarkClosed, SampleStarted, RemoveSession, Count, Flag, StoreFails, Request, Look,
         CountPresent, FlagPresent, Crash, IdleExit, Restart, Stops
<1> QED
  BY <1>1, <1>2, <1>3, <1>5, <1>6, <1>7, <1>8

ClientsOK == client = [c \in Clients |-> client[c]] /\ \A c \in Clients : ClientOK(client[c])

LEMMA ClientMoves ==
  ASSUME ClientsOK, NEW c \in Clients, NEW state, ClientOK(state), GoTo(c, state)
  PROVE  ClientsOK'
<1>1. client' = [client EXCEPT ![c] = state] /\ DOMAIN client = Clients
  BY DEF GoTo, ClientsOK
<1>2. \A k \in Clients : client'[k] = IF k = c THEN state ELSE client[k]
  BY <1>1
<1>3. client' = [k \in Clients |-> client'[k]]
  BY <1>1
<1> QED
  BY <1>2, <1>3 DEF ClientsOK

\* A client that has nothing to remember.
LEMMA ClientAt ==
  ASSUME NEW at \in {"idle", "remove", "end", "count"}
  PROVE  ClientOK([at |-> at])
BY DEF ClientOK

LEMMA IdleOK == ClientOK(IdleClient)
BY ClientAt DEF IdleClient

SessionOK ==
  session \in [life : Lives, outcome : Outcomes \cup {None}, output : Seq([byte : Bytes, at : Nat])]

LEMMA Lived ==
  ASSUME SessionOK, NEW life \in Lives
  PROVE  /\ [session EXCEPT !.life = life] \in
              [life : Lives, outcome : Outcomes \cup {None}, output : Seq([byte : Bytes, at : Nat])]
         /\ [session EXCEPT !.life = life].output = session.output
BY DEF SessionOK

LEMMA Started ==
  ASSUME Init
  PROVE  IInv
<1>1. SessionOK /\ Total = 0
  <2>1. session = [life |-> "none", outcome |-> None, output |-> << >>]
    BY DEF Init
  <2>2. << >> \in Seq([byte : Bytes, at : Nat]) /\ Len(<< >>) = 0
    BY EmptySeq
  <2> QED
    BY <2>1, <2>2 DEF SessionOK, Total, Lives
<1>2. ClientsOK
  <2>1. client = [c \in Clients |-> IdleClient]
    BY DEF Init
  <2> QED
    BY <2>1, IdleOK DEF ClientsOK
<1>3. WorkerOK(worker) /\ present \in BOOLEAN
  BY DEF Init, IdleWorker, WorkerOK
<1>4. now \in 0 .. MaxTime /\ crashes \in 0 .. MaxCrashes /\ Total <= MaxOutput
  BY <1>1, HostAssumption DEF Init
<1> QED
  BY <1>1, <1>2, <1>3, <1>4 DEF Init, IInv, HostOK, SessionOK, ClientsOK

LEMMA HostStep ==
  ASSUME HostOK, [Next]_vars
  PROVE  HostOK'
<1>0. /\ now \in 0 .. MaxTime /\ now \in Nat /\ SessionOK /\ Total <= MaxOutput /\ Total \in Nat
      /\ present \in BOOLEAN /\ WorkerOK(worker) /\ ClientsOK
      /\ host \in {"up", "down"} /\ crashes \in 0 .. MaxCrashes
  BY HostAssumption, LenProperties DEF HostOK, SessionOK, ClientsOK, Total
<1> DEFINE Kept == /\ now' \in 0 .. MaxTime /\ host' \in {"up", "down"}
                   /\ crashes' \in 0 .. MaxCrashes
           SessionKept == SessionOK' /\ Total' <= MaxOutput
           WorkerKept == present' \in BOOLEAN /\ WorkerOK(worker')
<1>1. SUFFICES Kept /\ SessionKept /\ WorkerKept /\ ClientsOK'
  BY DEF HostOK, SessionOK, ClientsOK
<1>2. session' = session => SessionKept
  BY <1>0 DEF SessionOK, Total
<1>3. ASSUME NEW life \in Lives, session' = [session EXCEPT !.life = life]
      PROVE  SessionKept
  BY <1>0, <1>3, Lived DEF SessionOK, Total
<1>4. client' = client => ClientsOK'
  BY <1>0 DEF ClientsOK
<1>5. UNCHANGED <<now, host, crashes>> => Kept
  BY <1>0
<1>6. UNCHANGED <<present, worker>> => WorkerKept
  BY <1>0
<1>7. InMap \in BOOLEAN /\ session.life \in Lives /\ {"running", "gone", "closed", "exited"} \subseteq Lives
  BY <1>0 DEF InMap, SessionOK, Lives
<1>8. CASE UNCHANGED vars
  BY <1>2, <1>4, <1>5, <1>6, <1>8 DEF vars
<1>9. CASE Tick
  <2>1. Kept
    BY <1>0, <1>9, HostAssumption DEF Tick
  <2> QED
    BY <1>2, <1>4, <1>6, <1>9, <2>1 DEF Tick
<1>10. ASSUME NEW b \in Bytes, Output(b)
       PROVE  Kept /\ SessionKept /\ WorkerKept /\ ClientsOK'
  <2> DEFINE e == [byte |-> b, at |-> now]
             log == Append(session.output, e)
             S == [byte : Bytes, at : Nat]
  <2>1. session' = [session EXCEPT !.output = log] /\ Total < MaxOutput
    BY <1>10 DEF Output
  <2>2. e \in S /\ session.output \in Seq(S)
    BY <1>0 DEF SessionOK
  <2>3. log \in Seq(S) /\ Len(log) = Total + 1
    <3> HIDE DEF e, S
    <3> QED
      BY <2>2, AppendProperties DEF Total
  <2> HIDE DEF log
  <2>4. SessionOK' /\ session'.output = log
    BY <1>0, <2>1, <2>3 DEF SessionOK
  <2>5. Total' <= MaxOutput
    BY <1>0, <2>1, <2>3, <2>4, HostAssumption DEF Total
  <2> QED
    BY <1>4, <1>5, <1>6, <1>10, <2>4, <2>5 DEF Output
<1>11. ASSUME NEW o \in Outcomes, Exit(o)
       PROVE  Kept /\ SessionKept /\ WorkerKept /\ ClientsOK'
  <2>1. session' = [session EXCEPT !.life = "exited", !.outcome = o]
    BY <1>11 DEF Exit
  <2>2. SessionOK' /\ session'.output = session.output
    BY <1>0, <2>1 DEF SessionOK, Lives
  <2> QED
    BY <1>0, <1>4, <1>5, <1>6, <1>11, <2>2 DEF Exit, Total
<1>12. ASSUME NEW c \in Clients,
              \/ \E definitions \in Initial : Start(c, definitions)
              \/ \E op \in Operations : Sample(c, op)
              \/ MarkClosed(c)
              \/ \E id \in 1 .. MaxEventId : Inspect(c, id)
              \/ ClientStep(c) \/ StoreFails(c)
       PROVE  Kept /\ SessionKept /\ WorkerKept /\ ClientsOK'
  <2>0. ClientOK(client[c]) /\ ClientOK(IdleClient)
    BY <1>0, IdleOK DEF ClientsOK
  <2>1. ASSUME NEW definitions \in Initial, Start(c, definitions)
        PROVE  SessionKept /\ ClientsOK'
    <3> DEFINE state == [at |-> "started", definitions |-> definitions, installedAt |-> now]
    <3>1. ClientOK(state)
      BY <1>0 DEF ClientOK
    <3>2. GoTo(c, state) /\ session' = [session EXCEPT !.life = "running"]
      BY <2>1 DEF Start
    <3> HIDE DEF state
    <3> QED
      BY <1>0, <1>3, <1>7, <3>1, <3>2, ClientMoves
  <2>2. ASSUME NEW op \in Operations, Sample(c, op)
        PROVE  SessionKept /\ ClientsOK'
    <3> DEFINE state == [at |-> "operate", op |-> op, lifecycle |-> session.life, cursor |-> Total]
    <3>1. ClientOK(state)
      BY <1>0, <1>7 DEF ClientOK
    <3>2. GoTo(c, state) /\ session' = session
      BY <2>2 DEF Sample
    <3> HIDE DEF state
    <3> QED
      BY <1>0, <1>2, <3>1, <3>2, ClientMoves
  <2>3. ASSUME MarkClosed(c)
        PROVE  SessionKept /\ ClientsOK'
    <3> DEFINE at == IF InMap THEN "remove" ELSE "end"
               state == [at |-> at]
    <3>1. ClientOK(state)
      <4>1. at \in {"idle", "remove", "end", "count"}
        OBVIOUS
      <4> HIDE DEF at
      <4> QED
        BY <4>1, ClientAt
    <3>2. GoTo(c, state)
          /\ (session' = [session EXCEPT !.life = "closed"] \/ session' = session)
      BY <2>3 DEF MarkClosed
    <3> HIDE DEF state
    <3> QED
      BY <1>0, <1>2, <1>3, <1>7, <3>1, <3>2, ClientMoves
  <2>4. ASSUME NEW id \in 1 .. MaxEventId, Inspect(c, id)
        PROVE  SessionKept /\ ClientsOK'
    BY <1>2, <1>4, <2>4 DEF Inspect
  <2>5. ASSUME SampleStarted(c)
        PROVE  SessionKept /\ ClientsOK'
    <3> DEFINE view == [lifecycle |-> session.life, cursor |-> 0, now |-> client[c].installedAt]
               install == [at |-> "install", definitions |-> client[c].definitions, view |-> view]
               state == IF InMap THEN install ELSE IdleClient
    <3>1. client[c].definitions \in Initial /\ client[c].installedAt \in Nat
      BY <2>0, <2>5 DEF SampleStarted, ClientOK
    <3>2. ViewOK(view)
      BY <1>7, <3>1 DEF ViewOK
    <3>3. GoTo(c, state) /\ session' = session
      BY <2>5 DEF SampleStarted
    <3> HIDE DEF view
    <3>4. ClientOK(install)
      BY <3>1, <3>2 DEF ClientOK
    <3> HIDE DEF install
    <3>5. ClientOK(state)
      BY <2>0, <3>4
    <3> HIDE DEF state
    <3> QED
      BY <1>0, <1>2, <3>3, <3>5, ClientMoves
  <2>6. ASSUME Install(c) \/ Operate(c) \/ RemoveSession(c) \/ EndSession(c) \/ StoreFails(c)
        PROVE  SessionKept /\ ClientsOK'
    <3>1. /\ session' = session \/ session' = [session EXCEPT !.life = "gone"]
          /\ GoTo(c, IdleClient) \/ GoTo(c, [at |-> "count"]) \/ GoTo(c, [at |-> "end"])
      <4>1. CASE Install(c)
        BY <4>1, Zenon DEF Install
      <4>2. CASE Operate(c)
        BY <4>2, Zenon DEF Operate
      <4>3. CASE RemoveSession(c) \/ EndSession(c)
        BY <4>3 DEF RemoveSession, EndSession
      <4>4. CASE StoreFails(c)
        <5>1. [session EXCEPT !.life = @] = session
          BY <1>0 DEF SessionOK
        <5> QED
          BY <4>4, <5>1 DEF StoreFails
      <4> QED
        BY <2>6, <4>1, <4>2, <4>3, <4>4
    <3>2. ClientOK([at |-> "count"]) /\ ClientOK([at |-> "end"])
      BY ClientAt
    <3>3. SessionKept
      BY <1>2, <1>3, <1>7, <3>1
    <3> QED
      BY <1>0, <2>0, <3>1, <3>2, <3>3, ClientMoves
  <2>7. ASSUME Count(c)
        PROVE  SessionKept /\ ClientsOK'
    <3> DEFINE found == HasMonitors(set)
               state == [at |-> "flag", found |-> found]
    <3>1. GoTo(c, state) /\ session' = session
      BY <2>7 DEF Count
    <3>2. found \in BOOLEAN
      BY DEF HasMonitors
    <3> HIDE DEF found
    <3>3. ClientOK(state)
      BY <3>2 DEF ClientOK
    <3> HIDE DEF state
    <3> QED
      BY <1>0, <1>2, <3>1, <3>3, ClientMoves
  <2>8. ASSUME Flag(c)
        PROVE  SessionKept /\ ClientsOK' /\ present' \in BOOLEAN /\ worker' = worker
    <3>1. client[c].found \in BOOLEAN
      BY <2>0, <2>8 DEF Flag, ClientOK
    <3> QED
      BY <1>0, <1>2, <2>0, <2>8, <3>1, ClientMoves DEF Flag
  <2>9. SessionKept /\ ClientsOK'
    BY <1>12, <2>1, <2>2, <2>3, <2>4, <2>5, <2>6, <2>7, <2>8 DEF ClientStep
  <2>10. UNCHANGED <<now, host, crashes>>
    BY <1>12 DEF ClientStep, Start, Sample, MarkClosed, Inspect, SampleStarted, Install, Operate,
                 RemoveSession, EndSession, Count, Flag, StoreFails
  <2>11. WorkerKept
    <3>1. CASE Flag(c)
      BY <1>0, <2>8, <3>1
    <3>2. CASE ~Flag(c)
      <4>1. UNCHANGED <<present, worker>>
        BY <1>12, <3>2 DEF ClientStep, Start, Sample, MarkClosed, Inspect, SampleStarted, Install,
                           Operate, RemoveSession, EndSession, Count, StoreFails
      <4> QED
        BY <1>6, <4>1
    <3> QED
      BY <3>1, <3>2
  <2> QED
    BY <1>5, <2>9, <2>10, <2>11
<1>13. CASE Supervise
  <2>1. /\ UNCHANGED <<now, client, host, crashes>> /\ session' = session
    BY <1>13 DEF Supervise, Supervising, Request, Look, CountPresent, FlagPresent, Evaluate
  <2>2. WorkerKept
    <3>1. CASE Request
      <4> DEFINE state == IF HasMonitors(set) THEN [at |-> "observe", cursor |-> set.cursor]
                          ELSE [at |-> "count"]
      <4>1. worker' = state /\ present' = present
        BY <3>1 DEF Request, Supervising
      <4>2. state.at \in {"observe", "count"}
        OBVIOUS
      <4> HIDE DEF state
      <4> QED
        BY <1>0, <4>1, <4>2 DEF WorkerOK
    <3>2. CASE Look
      <4> DEFINE obs == Observation(worker.cursor)
                 state == [at |-> "evaluate", obs |-> obs]
      <4>1. worker' = state /\ present' = present
        BY <3>2 DEF Look, Supervising
      <4>2. ObservationOK(obs)
        <5>1. obs # None => obs.lifecycle = session.life /\ obs.end = Total
          BY DEF Observation
        <5> HIDE DEF obs
        <5> QED
          BY <1>0, <1>7, <5>1 DEF ObservationOK
      <4> HIDE DEF obs
      <4> QED
        BY <1>0, <4>1, <4>2 DEF WorkerOK
    <3>3. CASE CountPresent
      <4> DEFINE found == HasMonitors(set)
                 state == [at |-> "flag", found |-> found]
      <4>1. worker' = state /\ present' = present
        BY <3>3 DEF CountPresent, Supervising
      <4>2. found \in BOOLEAN
        BY DEF HasMonitors
      <4> HIDE DEF found
      <4> QED
        BY <1>0, <4>1, <4>2 DEF WorkerOK
    <3>4. CASE FlagPresent
      <4>1. worker.found \in BOOLEAN
        BY <1>0, <3>4 DEF FlagPresent, WorkerOK
      <4> QED
        BY <3>4, <4>1 DEF FlagPresent, Supervising, IdleWorker, WorkerOK
    <3>5. CASE \E answers \in Answers : Evaluate(answers)
      <4>1. worker' = [at |-> "count"] /\ present' = present
        BY <3>5 DEF Evaluate, Supervising
      <4> QED
        BY <1>0, <4>1 DEF WorkerOK
    <3> QED
      BY <1>13, <3>1, <3>2, <3>3, <3>4, <3>5 DEF Supervise
  <2> QED
    BY <1>2, <1>4, <1>5, <2>1, <2>2
<1>14. CASE Crash \/ IdleExit
  <2>1. Stops /\ crashes' \in 0 .. MaxCrashes
    BY <1>0, <1>14, HostAssumption DEF Crash, IdleExit
  <2>2. session' = session \/ session' = [session EXCEPT !.life = "gone"]
    <3>1. [session EXCEPT !.life = @] = session
      BY <1>0 DEF SessionOK
    <3> QED
      BY <2>1, <3>1 DEF Stops
  <2>3. SessionKept
    BY <1>2, <1>3, <1>7, <2>2
  <2>4. ClientsOK'
    BY <2>1, IdleOK DEF Stops, ClientsOK
  <2>5. WorkerKept
    BY <2>1 DEF Stops, IdleWorker, WorkerOK
  <2> QED
    BY <1>0, <2>1, <2>3, <2>4, <2>5 DEF Stops
<1>15. CASE Restart
  <2>1. present' \in BOOLEAN
    BY <1>15 DEF Restart, HasMonitors
  <2> QED
    BY <1>0, <1>2, <1>4, <1>15, <2>1 DEF Restart
<1> QED
  BY <1>8, <1>9, <1>10, <1>11, <1>12, <1>13, <1>14, <1>15 DEF Next

LEMMA Invariance ==
  ASSUME IInv, [Next]_vars
  PROVE  IInv'
<1>1. HostOK'
  BY HostStep DEF IInv
<1>2. SetMoves(set, set')
  BY SetStep
<1>3. set' # None => SetOK(set')
  BY <1>2 DEF SetMoves, IInv
<1> QED
  BY <1>1, <1>3 DEF IInv

-----------------------------------------------------------------------------
(* What the threads of the host have seen of the output.                   *)

ReadOK ==
  /\ Dated(session.output, now)
  /\ set # None => Ready(set, session.output)
  /\ worker.at = "observe" => worker.cursor \in Nat /\ worker.cursor <= Total
  /\ worker.at = "evaluate" /\ worker.obs # None => Seen(worker.obs, session.output)
  /\ \A c \in Clients : client[c].at = "operate" => client[c].cursor <= Total

\* What was written after byte start.
LEMMA WrittenChunk ==
  ASSUME Total \in Nat, NEW start \in Nat, start <= Total
  PROVE  Chunk(Written(start + 1, Total), session.output, start, Total)
<1> DEFINE shown == Written(start + 1, Total)
           n == Total - start
<1>1. n \in Nat /\ Total + 1 - (start + 1) = n /\ \A i \in Nat : (start + 1) + i - 1 = start + i
  OBVIOUS
<1>2. shown = [i \in 1 .. n |-> session.output[start + i].byte]
  BY <1>1 DEF Written
<1> HIDE DEF shown, n
<1>3. Len(shown) = n
  <2> DEFINE S == {session.output[start + i].byte : i \in 1 .. n}
             k == Len(shown)
  <2>1. shown \in [1 .. n -> S] /\ DOMAIN shown = 1 .. n
    BY <1>2
  <2>2. k \in Nat /\ 1 .. k = 1 .. n
    <3>1. shown \in Seq(S)
      <4> HIDE DEF S
      <4> QED
        BY <1>1, <2>1, IsASeq
    <3>2. k \in Nat /\ DOMAIN shown = 1 .. k
      BY <3>1, LenProperties
    <3> QED
      BY <2>1, <3>2
  <2> HIDE DEF k
  <2>3. k = n
    BY <1>1, <2>2
  <2> QED
    BY <2>3 DEF k
<1>4. \A i \in 1 .. n : shown[i] = session.output[start + i].byte
  BY <1>2
<1>5. Total <= Len(session.output)
  BY DEF Total
<1> QED
  BY <1>3, <1>4, <1>5 DEF Chunk, n, shown

\* observe_terminal.
LEMMA ObservationSeen ==
  ASSUME Total \in Nat, NEW after \in Nat, after <= Total, Observation(after) # None
  PROVE  Seen(Observation(after), session.output)
<1> DEFINE start == IF after > Base THEN after ELSE Base
           shown == Written(start + 1, Total)
           o == [lifecycle |-> session.life, outcome |-> session.outcome, start |-> start,
                 end |-> Total, gap |-> after < Base, output |-> shown]
<1>1. Observation(after) = o
  BY DEF Observation
<1>2. o.output = shown /\ o.start = start /\ o.end = Total
  OBVIOUS
<1> HIDE DEF o
<1>3. start \in Nat /\ start <= Total
  BY HostAssumption DEF Base
<1> HIDE DEF start
<1>4. Chunk(shown, session.output, start, Total)
  BY <1>3, WrittenChunk
<1> HIDE DEF shown
<1> QED
  BY <1>1, <1>2, <1>4 DEF Seen

\* The set a step leaves has read the output up to its cursor, if the output
\* stays as it was.
LEMMA ReadySet ==
  ASSUME IInv, ReadOK, [Next]_vars, session'.output = session.output
  PROVE  set' # None => Ready(set', session.output)
<1> USE DEF IInv
<1> DEFINE out == session.output
           Kept == set' # None => Ready(set', out)
<1>0. /\ set # None => SetOK(set) /\ Ready(set, out)
      /\ Dated(out, now) /\ Len(out) \in Nat
      /\ now \in Nat /\ WorkerOK(worker) /\ \A c \in Clients : ClientOK(client[c])
  BY HostAssumption DEF HostOK, ReadOK, Dated
<1>1. CASE set' = set
  BY <1>0, <1>1
<1>2. ASSUME NEW c \in Clients, Install(c)
      PROVE  Kept
  <2>1. client[c].definitions \in Initial /\ ViewOK(client[c].view)
    BY <1>0, <1>2 DEF Install, ClientOK
  <2> DEFINE r == InstallInitial(set, client[c].definitions, client[c].view)
  <2>2. r # Failed => Ready(r, out)
    BY <1>0, <2>1, InstalledRead
  <2>3. set' = set \/ (set' = r /\ r # Failed)
    BY <1>2 DEF Install
  <2> HIDE DEF r, out
  <2>4. CASE set' = r /\ r # Failed
    BY <2>2, <2>4
  <2> QED
    BY <1>0, <2>3, <2>4
<1>3. ASSUME NEW c \in Clients, Operate(c)
      PROVE  Kept
  <2> DEFINE op == client[c].op
             view == View(client[c].lifecycle, client[c].cursor)
             r == OperateSet(set, op, view)
  <2>1. /\ op \in Operations /\ client[c].lifecycle \in Lives /\ client[c].cursor \in Nat
        /\ client[c].cursor <= Len(out)
    BY <1>0, <1>3 DEF Operate, ClientOK, ReadOK, Total
  <2>2. ViewOK(view) /\ view.now = now /\ view.cursor <= Len(out)
    BY <1>0, <2>1 DEF ViewOK, View
  <2>3. set' = set \/ (set' = r /\ r # Failed)
    <3> HIDE DEF r
    <3> QED
      BY <1>3 DEF Operate, r
  <2> HIDE DEF op, view, out
  <2>4. r # Failed => Ready(r, out)
    BY <1>0, <2>1, <2>2, OperatedSetRead
  <2> HIDE DEF r
  <2>5. CASE set' = r /\ r # Failed
    BY <2>4, <2>5
  <2> QED
    BY <1>0, <2>3, <2>5
<1>4. ASSUME NEW lifecycle \in Lives \cup {"lost"}, set' = EndSet(set, lifecycle, now)
      PROVE  Kept
  <2>1. CASE set = None
    BY <1>4, <2>1 DEF EndSet
  <2>2. CASE set # None
    BY <1>0, <1>4, <2>2, EndSetOK
  <2> QED
    BY <2>1, <2>2
<1>5. ASSUME NEW c \in Clients, EndSession(c)
      PROVE  Kept
  BY <1>4, <1>5 DEF EndSession, Lives
<1>6. ASSUME NEW c \in Clients, NEW id \in 1 .. MaxEventId, Inspect(c, id)
      PROVE  Kept
  <2>1. set # None /\ SetOK(set) /\ id \in 1 .. (set.nextEvent - 1) /\ set' = Acknowledge(set, id)
    BY <1>0, <1>6 DEF Inspect
  <2> HIDE DEF out
  <2> QED
    BY <1>0, <2>1, AcknowledgedRead
<1>7. ASSUME NEW answers \in Answers, Evaluate(answers)
      PROVE  Kept
  <2>1. CASE worker.obs = None
    <3>1. set' = EndSet(set, "lost", now)
      BY <1>7, <2>1 DEF Evaluate
    <3> QED
      BY <1>4, <3>1
  <2>2. CASE worker.obs # None
    <3> DEFINE obs == worker.obs
               r == EvaluateSet(set, obs, answers, now)
    <3>1. set' = r
      BY <1>7, <2>2 DEF Evaluate
    <3>2. obs.lifecycle \in Lives /\ obs.end \in Nat /\ Seen(obs, out)
      BY <1>0, <1>7, <2>2 DEF Evaluate, WorkerOK, ObservationOK, ReadOK
    <3>3. CASE set = None
      <4>1. r = set
        BY <3>3, Zenon DEF EvaluateSet
      <4> HIDE DEF r
      <4> QED
        BY <1>1, <3>1, <4>1
    <3>4. CASE set # None
      <4> HIDE DEF obs, out
      <4>1. Ready(r, out)
        BY <1>0, <3>2, <3>4, EvaluatedOK
      <4> HIDE DEF r
      <4> QED
        BY <3>1, <4>1
    <3> QED
      BY <3>3, <3>4
  <2> QED
    BY <2>1, <2>2
<1>8. set' = set \/ (\E c \in Clients : Install(c) \/ Operate(c) \/ EndSession(c))
      \/ (\E c \in Clients : \E id \in 1 .. MaxEventId : Inspect(c, id))
      \/ (\E answers \in Answers : Evaluate(answers))
  BY DEF Next, vars, ClientStep, Supervise, Supervising, Tick, Output, Exit, Start, Sample,
         MarkClosed, SampleStarted, RemoveSession, Count, Flag, StoreFails, Request, Look,
         CountPresent, FlagPresent, Crash, IdleExit, Restart, Stops
<1> QED
  BY <1>1, <1>2, <1>3, <1>5, <1>6, <1>7, <1>8

\* Only the process adds to the output.
LEMMA OutputKept ==
  ASSUME HostOK, [Next]_vars, \A b \in Bytes : ~Output(b)
  PROVE  session'.output = session.output
<1>1. SessionOK
  BY DEF HostOK, SessionOK
<1>2. ASSUME NEW life, session' = [session EXCEPT !.life = life]
      PROVE  session'.output = session.output
  BY <1>1, <1>2 DEF SessionOK
<1>3. ASSUME NEW o \in Outcomes, Exit(o)
      PROVE  session'.output = session.output
  BY <1>1, <1>3 DEF Exit, SessionOK
<1>4. ASSUME NEW c \in Clients, StoreFails(c) \/ Install(c) \/ MarkClosed(c) \/ RemoveSession(c)
      PROVE  session'.output = session.output
  <2>1. session' = session \/ \E life : session' = [session EXCEPT !.life = life]
    <3>1. CASE StoreFails(c)
      BY <3>1 DEF StoreFails
    <3>2. CASE Install(c)
      BY <3>2, Zenon DEF Install
    <3>3. CASE MarkClosed(c) \/ RemoveSession(c)
      BY <3>3 DEF MarkClosed, RemoveSession
    <3> QED
      BY <1>4, <3>1, <3>2, <3>3
  <2> QED
    BY <1>2, <2>1
<1>5. ASSUME NEW c \in Clients, NEW definitions \in Initial, Start(c, definitions)
      PROVE  session'.output = session.output
  BY <1>2, <1>5 DEF Start
<1>6. ASSUME Stops
      PROVE  session'.output = session.output
  BY <1>2, <1>6 DEF Stops
<1>7. \/ session' = session \/ Stops \/ \E o \in Outcomes : Exit(o)
      \/ \E c \in Clients : \/ StoreFails(c) \/ Install(c) \/ MarkClosed(c) \/ RemoveSession(c)
                            \/ \E definitions \in Initial : Start(c, definitions)
  BY DEF Next, vars, ClientStep, Supervise, Supervising, Tick, Sample, SampleStarted, Operate,
         EndSession, Count, Flag, Inspect, Request, Look, Evaluate, CountPresent, FlagPresent,
         Crash, IdleExit, Restart
<1> QED
  BY <1>3, <1>4, <1>5, <1>6, <1>7

\* What a thread knows of the output after a step that leaves the output.
LEMMA WorkerSees ==
  ASSUME IInv, ReadOK, [Next]_vars
  PROVE  /\ worker'.at = "observe" => worker'.cursor \in Nat /\ worker'.cursor <= Total
         /\ worker'.at = "evaluate" /\ worker'.obs # None => Seen(worker'.obs, session.output)
<1>0. /\ worker.at = "observe" => worker.cursor \in Nat /\ worker.cursor <= Total
      /\ worker.at = "evaluate" /\ worker.obs # None => Seen(worker.obs, session.output)
      /\ Total \in Nat
  BY DEF ReadOK, Dated, Total
<1>1. CASE worker' = worker
  BY <1>0, <1>1
<1>2. CASE Request
  <2> DEFINE k == set.cursor
  <2>1. CASE HasMonitors(set)
    <3>1. worker' = [at |-> "observe", cursor |-> k]
      BY <1>2, <2>1 DEF Request, Supervising
    <3>2. set # None
      BY <2>1 DEF HasMonitors
    <3>3. k \in Nat /\ k <= Total
      <4>1. SetOK(set) /\ Ready(set, session.output)
        BY <3>2 DEF IInv, ReadOK
      <4> QED
        BY <4>1, SetParts DEF SetRecord, Ready, Total
    <3> HIDE DEF k
    <3> QED
      BY <3>1, <3>3
  <2>2. CASE ~HasMonitors(set)
    <3>1. worker' = [at |-> "count"]
      BY <1>2, <2>2 DEF Request, Supervising
    <3> QED
      BY <3>1
  <2> QED
    BY <2>1, <2>2
<1>3. CASE Look
  <2> DEFINE obs == Observation(worker.cursor)
  <2>1. worker' = [at |-> "evaluate", obs |-> obs]
    BY <1>3 DEF Look, Supervising
  <2>2. obs # None => Seen(obs, session.output)
    BY <1>0, <1>3, ObservationSeen DEF Look
  <2> HIDE DEF obs
  <2> QED
    BY <2>1, <2>2
<1>4. ASSUME NEW answers \in Answers, Evaluate(answers)
      PROVE  worker'.at = "count"
  BY <1>4 DEF Evaluate, Supervising
<1>5. CASE CountPresent
  <2> DEFINE found == HasMonitors(set)
  <2>1. worker' = [at |-> "flag", found |-> found]
    BY <1>5 DEF CountPresent, Supervising
  <2> HIDE DEF found
  <2> QED
    BY <2>1
<1>6. CASE FlagPresent \/ Stops
  BY <1>6 DEF FlagPresent, Supervising, Stops, IdleWorker
<1>7. \/ worker' = worker \/ Request \/ Look \/ CountPresent \/ FlagPresent \/ Stops
      \/ \E answers \in Answers : Evaluate(answers)
  BY DEF Next, vars, ClientStep, Supervise, Tick, Output, Exit, Start, Sample, MarkClosed,
         SampleStarted, Install, Operate, RemoveSession, EndSession, Count, Flag, StoreFails,
         Inspect, Crash, IdleExit, Restart
<1> QED
  BY <1>1, <1>2, <1>3, <1>4, <1>5, <1>6, <1>7

LEMMA ClientSees ==
  ASSUME HostOK, ReadOK, [Next]_vars, NEW k \in Clients, client'[k].at = "operate"
  PROVE  client'[k].cursor <= Total
<1>0. /\ client = [c \in Clients |-> client[c]]
      /\ client[k].at = "operate" => client[k].cursor <= Total
      /\ Total \in Nat
  BY DEF HostOK, ReadOK, Dated, Total
<1>1. ASSUME NEW c \in Clients, NEW state, GoTo(c, state),
             state.at = "operate" => state.cursor <= Total
      PROVE  client'[k].cursor <= Total
  BY <1>0, <1>1 DEF GoTo
<1>2. CASE client' = client
  BY <1>0, <1>2
<1>3. ASSUME NEW c \in Clients, NEW op \in Operations, Sample(c, op)
      PROVE  client'[k].cursor <= Total
  <2> DEFINE state == [at |-> "operate", op |-> op, lifecycle |-> session.life, cursor |-> Total]
  <2>1. GoTo(c, state) /\ state.cursor = Total
    BY <1>3 DEF Sample
  <2> HIDE DEF state
  <2> QED
    BY <1>0, <1>1, <2>1
<1>4. ASSUME NEW c \in Clients,
             \/ \E definitions \in Initial : Start(c, definitions)
             \/ MarkClosed(c) \/ StoreFails(c) \/ ClientStep(c)
      PROVE  client'[k].cursor <= Total
  <2>1. \E state : GoTo(c, state) /\ state.at # "operate"
    <3>1. IdleClient.at # "operate"
      BY DEF IdleClient
    <3>2. ASSUME NEW definitions \in Initial, Start(c, definitions)
          PROVE  \E state : GoTo(c, state) /\ state.at # "operate"
      <4>1. GoTo(c, [at |-> "started", definitions |-> definitions, installedAt |-> now])
        BY <3>2 DEF Start
      <4> QED
        BY <4>1
    <3>3. CASE MarkClosed(c)
      <4>1. GoTo(c, [at |-> IF InMap THEN "remove" ELSE "end"])
        BY <3>3 DEF MarkClosed
      <4> QED
        BY <4>1
    <3>4. CASE SampleStarted(c)
      <4> DEFINE install == [at |-> "install", definitions |-> client[c].definitions,
                             view |-> [lifecycle |-> session.life, cursor |-> 0,
                                       now |-> client[c].installedAt]]
                 state == IF InMap THEN install ELSE IdleClient
      <4>1. GoTo(c, state)
        BY <3>4 DEF SampleStarted
      <4>2. install.at = "install"
        OBVIOUS
      <4> HIDE DEF install
      <4>3. state.at # "operate"
        BY <3>1, <4>2
      <4> HIDE DEF state
      <4> QED
        BY <4>1, <4>3
    <3>5. CASE Install(c) \/ Operate(c) \/ RemoveSession(c) \/ EndSession(c) \/ StoreFails(c)
               \/ Flag(c)
      <4>1. GoTo(c, IdleClient) \/ GoTo(c, [at |-> "count"]) \/ GoTo(c, [at |-> "end"])
        <5>1. CASE Install(c)
          BY <5>1, Zenon DEF Install
        <5>2. CASE Operate(c)
          BY <5>2, Zenon DEF Operate
        <5>3. CASE RemoveSession(c) \/ EndSession(c) \/ StoreFails(c) \/ Flag(c)
          BY <5>3 DEF RemoveSession, EndSession, StoreFails, Flag
        <5> QED
          BY <3>5, <5>1, <5>2, <5>3
      <4>2. [at |-> "count"].at # "operate" /\ [at |-> "end"].at # "operate"
        OBVIOUS
      <4> QED
        BY <3>1, <4>1, <4>2
    <3>6. CASE Count(c)
      <4> DEFINE found == HasMonitors(set)
                 state == [at |-> "flag", found |-> found]
      <4>1. GoTo(c, state)
        BY <3>6 DEF Count
      <4> HIDE DEF found
      <4>2. state.at # "operate"
        OBVIOUS
      <4> HIDE DEF state
      <4> QED
        BY <4>1, <4>2
    <3> QED
      BY <1>4, <3>2, <3>3, <3>4, <3>5, <3>6 DEF ClientStep
  <2>2. PICK state : GoTo(c, state) /\ state.at # "operate"
    BY <2>1
  <2> QED
    BY <1>1, <2>2
<1>5. CASE Stops
  BY <1>5 DEF Stops, IdleClient
<1>6. \/ client' = client \/ Stops
      \/ \E c \in Clients : \/ \E definitions \in Initial : Start(c, definitions)
                            \/ MarkClosed(c) \/ StoreFails(c) \/ ClientStep(c)
      \/ \E c \in Clients : \E op \in Operations : Sample(c, op)
  BY DEF Next, vars, Supervise, Supervising, Tick, Output, Exit, Inspect, Request, Look,
         Evaluate, CountPresent, FlagPresent, Crash, IdleExit, Restart
<1> QED
  BY <1>2, <1>3, <1>4, <1>5, <1>6

LEMMA ReadStarted ==
  ASSUME Init
  PROVE  ReadOK
<1>1. session.output = << >> /\ Len(session.output) = 0
  BY EmptySeq DEF Init
<1>2. Dated(session.output, now)
  BY <1>1 DEF Dated
<1>3. set = None /\ worker.at = "wait" /\ \A c \in Clients : client[c].at = "idle"
  BY DEF Init, IdleWorker, IdleClient
<1> QED
  BY <1>2, <1>3 DEF ReadOK

LEMMA ReadKept ==
  ASSUME IInv, ReadOK, [Next]_vars
  PROVE  ReadOK'
<1> DEFINE out == session.output
           more == session'.output
<1>0. /\ HostOK /\ now \in Nat /\ Dated(out, now) /\ Len(out) \in Nat /\ Total = Len(out)
      /\ set # None => SetOK(set) /\ Ready(set, out)
  BY HostAssumption DEF IInv, HostOK, ReadOK, Dated, Total
<1>1. ASSUME NEW b \in Bytes, Output(b)
      PROVE  ReadOK'
  <2> DEFINE e == [byte |-> b, at |-> now]
             S == [byte : Bytes, at : Nat]
  <2>1. UNCHANGED <<now, set, worker, client>> /\ session' = [session EXCEPT !.output = Append(@, e)]
    BY <1>1 DEF Output
  <2>2. more = Append(out, e) /\ out \in Seq(S) /\ e \in S /\ e.at = now
    BY <1>0, <2>1 DEF HostOK
  <2> HIDE DEF out, more, e, S
  <2>3. Len(more) = Len(out) + 1 /\ more[Len(out) + 1] = e
        /\ \A i \in 1 .. Len(out) : more[i] = out[i]
    BY <2>2, AppendProperties
  <2>4. Extends(out, more)
    BY <1>0, <2>3 DEF Extends
  <2>5. Dated(more, now)
    <3>1. Len(more) \in Nat
      BY <1>0, <2>3
    <3>2. ASSUME NEW i \in 1 .. Len(more)
          PROVE  more[i].at \in Nat /\ more[i].at <= now
      <4>1. CASE i = Len(out) + 1
        BY <1>0, <2>2, <2>3, <4>1
      <4>2. CASE i \in 1 .. Len(out)
        BY <1>0, <2>3, <4>2 DEF Dated
      <4> QED
        BY <1>0, <2>3, <4>1, <4>2
    <3> QED
      BY <3>1, <3>2 DEF Dated
  <2>6. set # None => Ready(set, more)
    BY <1>0, <2>4, ExtendsReady
  <2>7. worker.at = "evaluate" /\ worker.obs # None => Seen(worker.obs, more)
    BY <2>4, ExtendsSeen DEF ReadOK, out
  <2>8. Len(out) <= Len(more) /\ Len(more) \in Nat
    BY <2>4 DEF Extends
  <2>9. Total' = Len(more)
    BY DEF Total, more
  <2>10. /\ worker.at = "observe" => worker.cursor \in Nat /\ worker.cursor <= Total'
         /\ \A c \in Clients : client[c].at = "operate" => client[c].cursor <= Total'
    <3>1. \A c \in Clients : client[c].at = "operate" => client[c].cursor \in Nat
      BY <1>0 DEF HostOK, ClientOK
    <3>2. /\ worker.at = "observe" => worker.cursor \in Nat /\ worker.cursor <= Len(out)
          /\ \A c \in Clients : client[c].at = "operate" => client[c].cursor <= Len(out)
      BY <1>0 DEF ReadOK
    <3> QED
      BY <1>0, <2>8, <2>9, <3>1, <3>2
  <2> QED
    BY <2>1, <2>5, <2>6, <2>7, <2>10 DEF ReadOK, more
<1>2. ASSUME \A b \in Bytes : ~Output(b)
      PROVE  ReadOK'
  <2>1. more = out
    BY <1>0, <1>2, OutputKept
  <2>2. Total' = Total
    BY <2>1 DEF Total
  <2>3. now' \in Nat /\ now <= now'
    <3>1. now' = now \/ now' = now + 1
      BY DEF Next, vars, ClientStep, Supervise, Supervising, Tick, Output, Exit, Start, Sample,
             MarkClosed, SampleStarted, Install, Operate, RemoveSession, EndSession, Count, Flag,
             StoreFails, Inspect, Request, Look, Evaluate, CountPresent, FlagPresent, Crash,
             IdleExit, Restart, Stops
    <3> QED
      BY <1>0, <3>1
  <2>4. Dated(out, now')
    BY <1>0, <2>3 DEF Dated
  <2>5. set' # None => Ready(set', out)
    BY <2>1, ReadySet
  <2>6. /\ worker'.at = "observe" => worker'.cursor \in Nat /\ worker'.cursor <= Total
        /\ worker'.at = "evaluate" /\ worker'.obs # None => Seen(worker'.obs, out)
    BY WorkerSees
  <2>7. \A c \in Clients : client'[c].at = "operate" => client'[c].cursor <= Total
    BY <1>0, ClientSees
  <2> QED
    BY <2>1, <2>2, <2>4, <2>5, <2>6, <2>7 DEF ReadOK
<1> QED
  BY <1>1, <1>2

-----------------------------------------------------------------------------
(* What follows from the invariant.                                        *)

LEMMA InvariantParts ==
  ASSUME IInv
  PROVE  /\ Stored = IF set = None THEN {} ELSE Members(set.monitors)
         /\ Events = IF set = None THEN {} ELSE Members(set.events)
<1>1. CASE set = None
  BY <1>1 DEF Stored, Events
<1>2. CASE set # None
  <2>1. SetOK(set)
    BY <1>2 DEF IInv
  <2>2. DOMAIN set.monitors = 1 .. Len(set.monitors)
    <3>1. set.monitors \in Seq(Members(set.monitors))
      BY <2>1, SetParts DEF MonitorsOK
    <3> QED
      BY <3>1, LenProperties
  <2>3. DOMAIN set.events = 1 .. Len(set.events)
    <3>1. set.events \in Seq(Event)
      BY <2>1, SetParts DEF LogOK
    <3> QED
      BY <3>1, LenProperties
  <2> QED
    BY <1>2, <2>2, <2>3 DEF Stored, Events, Members
<1> QED
  BY <1>1, <1>2

LEMMA ValidFollows ==
  ASSUME NEW s, SetOK(s)
  PROVE  Valid(s)
<1>1. /\ MonitorsOK(s.monitors, s.nextMonitor)
      /\ LogOK(s.events, s.nextEvent, s.acked, s.gap)
      /\ s.nextEvent \in Nat \ {0}
  BY SetParts
<1>2. s.acked \in Nat /\ s.gap \in Nat
  BY SetParts DEF SetRecord
<1>3. DOMAIN s.monitors = 1 .. Len(s.monitors)
  <2>1. s.monitors \in Seq(Members(s.monitors))
    BY <1>1 DEF MonitorsOK
  <2> QED
    BY <2>1, LenProperties
<1> DEFINE n == Len(s.events)
           base == s.nextEvent - 1 - n
<1>4. n \in Nat /\ DOMAIN s.events = 1 .. n
  <2>1. s.events \in Seq(Event)
    BY <1>1 DEF LogOK
  <2> QED
    BY <2>1, LenProperties
<1>5. /\ n <= MaxEvents /\ s.acked <= base /\ s.gap <= base
      /\ \A i \in 1 .. n : s.events[i].id = base + i
  BY <1>1 DEF LogOK
<1>6. base \in Int /\ s.nextEvent = base + n + 1
  BY <1>1, <1>4
<1> HIDE DEF base, n
<1>7. s.acked < s.nextEvent /\ s.gap < s.nextEvent
  BY <1>2, <1>4, <1>5, <1>6
<1>8. \A i \in 1 .. n :
        /\ s.events[i].id < s.nextEvent /\ s.events[i].id > s.gap /\ s.events[i].id > s.acked
        /\ i > 1 => s.events[i].id > s.events[i - 1].id
  <2>1. ASSUME NEW i \in 1 .. n
        PROVE  /\ s.events[i].id < s.nextEvent /\ s.events[i].id > s.gap
               /\ s.events[i].id > s.acked
               /\ i > 1 => s.events[i].id > s.events[i - 1].id
    <3>1. s.events[i].id = base + i
      BY <1>5
    <3>2. i > 1 => s.events[i - 1].id = base + (i - 1)
      BY <1>4, <1>5
    <3> QED
      BY <1>2, <1>4, <1>5, <1>6, <3>1, <3>2
  <2> QED
    BY <2>1
<1>9. Len(s.monitors) <= MaxMonitors
      /\ \A i \in 1 .. Len(s.monitors) : s.monitors[i].matched => s.monitors[i].state # "active"
  BY <1>1 DEF MonitorsOK, MonitorOK
<1> QED
  BY <1>3, <1>4, <1>5, <1>7, <1>8, <1>9 DEF Valid, n

LEMMA FewStored ==
  ASSUME NEW s, SetOK(s)
  PROVE  Cardinality(Members(s.monitors)) <= MaxMonitors
<1> DEFINE q == s.monitors
           f == [i \in 1 .. Len(q) |-> q[i]]
<1>1. Len(q) \in Nat /\ Len(q) <= MaxMonitors
  BY SetParts DEF MonitorsOK
<1>2. IsFiniteSet(1 .. Len(q)) /\ Cardinality(1 .. Len(q)) = Len(q)
  <2>1. 1 \in Int /\ Len(q) \in Int
    BY <1>1
  <2>2. IsFiniteSet(1 .. Len(q)) /\ Cardinality(1 .. Len(q)) = IF 1 > Len(q) THEN 0 ELSE Len(q) - 1 + 1
    BY <2>1, FS_Interval, Zenon
  <2> QED
    BY <1>1, <2>2
<1>3. f \in Surjection(1 .. Len(q), Members(q))
  BY DEF Surjection, Members
<1>4. IsFiniteSet(Members(q)) /\ Cardinality(Members(q)) <= Cardinality(1 .. Len(q))
  BY <1>2, <1>3, FS_Surjection
<1>5. Cardinality(Members(q)) \in Nat
  BY <1>4, FS_CardinalityType
<1> QED
  BY <1>1, <1>2, <1>4, <1>5, StoreAssumption

LEMMA TypeFollows ==
  ASSUME IInv
  PROVE  TypeOK
<1>1. set # None => SetOK(set)
  BY DEF IInv
<1>2. Cardinality(Stored) <= MaxMonitors
  <2>1. CASE set = None
    <3>1. Stored = {}
      BY <2>1, InvariantParts
    <3> QED
      BY <3>1, FS_EmptySet, StoreAssumption
  <2>2. CASE set # None
    BY <1>1, <2>2, InvariantParts, FewStored
  <2> QED
    BY <2>1, <2>2
<1>3. \A m \in Stored : m.state \in {"active", "paused", "matched", "degraded"}
  <2>1. CASE set # None
    <3>1. \A i \in 1 .. Len(set.monitors) : MonitorOK(set.monitors[i])
      BY <1>1, <2>1, SetParts
    <3>2. Stored = Members(set.monitors)
      BY <2>1, InvariantParts, Zenon
    <3>3. ASSUME NEW m \in Members(set.monitors)
          PROVE  m.state \in {"active", "paused", "matched", "degraded"}
      <4>1. PICK i \in 1 .. Len(set.monitors) : m = set.monitors[i]
        BY Zenon DEF Members
      <4>2. MonitorOK(m)
        BY <3>1, <4>1, Zenon
      <4> QED
        BY <4>2 DEF MonitorOK
    <3> QED
      BY <3>2, <3>3, Zenon
  <2>2. CASE set = None
    BY <2>2, InvariantParts
  <2> QED
    BY <2>1, <2>2
<1>4. set # None => Valid(set)
  BY <1>1, ValidFollows
<1> QED
  BY <1>2, <1>3, <1>4 DEF TypeOK, IInv, HostOK, WorkerOK, ClientOK

LEMMA LogFollows ==
  ASSUME IInv
  PROVE  EventLogComplete
<1>1. SUFFICES ASSUME set # None, NEW id \in 1 .. (set.nextEvent - 1)
               PROVE  id <= set.acked \/ id <= set.gap \/ \E e \in Events : e.id = id
  BY DEF EventLogComplete
<1> DEFINE n == Len(set.events)
           base == set.nextEvent - 1 - n
<1>2. SetOK(set)
  BY <1>1 DEF IInv
<1>3. n \in Nat
  <2>1. set.events \in Seq(Event)
    BY <1>2, SetParts DEF LogOK
  <2> QED
    BY <2>1, LenProperties
<1>4. /\ set.nextEvent \in Nat /\ base \in {set.acked, set.gap}
      /\ \A i \in 1 .. n : set.events[i].id = base + i
  BY <1>2, SetParts DEF LogOK
<1>5. base \in Int /\ set.nextEvent - 1 = base + n
  BY <1>3, <1>4
<1> HIDE DEF base
<1>6. CASE id <= base
  BY <1>4, <1>6
<1>7. CASE ~(id <= base)
  <2>1. id - base \in 1 .. n /\ base + (id - base) = id
    BY <1>1, <1>3, <1>5, <1>7
  <2>2. set.events[id - base].id = id
    BY <1>4, <2>1
  <2>3. set.events[id - base] \in Events
    BY <1>1, <2>1, InvariantParts DEF Members
  <2> QED
    BY <2>2, <2>3
<1> QED
  BY <1>6, <1>7

LEMMA EndsFollow ==
  ASSUME IInv
  PROVE  EndedForGood
<1>1. SUFFICES ASSUME NEW e \in Events, e.reason \in {"removed", "expired", "session_exit"}
               PROVE  /\ \A f \in Events : f.monitor = e.monitor => f.id <= e.id
                      /\ \A m \in Stored : m.id # e.monitor
  BY DEF EndedForGood
<1>2. set # None /\ SetOK(set) /\ Events = Members(set.events) /\ Stored = Members(set.monitors)
  BY <1>1, InvariantParts DEF IInv
<1>3. e.reason \in Final /\ e \in Members(set.events)
  BY <1>1, <1>2 DEF Final
<1>4. /\ \A f \in Members(set.events) : f.monitor = e.monitor => f.id <= e.id
      /\ e.monitor \notin Ids(set.monitors)
  <2>1. EndsOK(set.events, set.monitors, set.nextMonitor, {})
    BY <1>2, SetParts
  <2> QED
    BY <1>3, <2>1 DEF EndsOK
<1>5. \A m \in Members(set.monitors) : m.id \in Ids(set.monitors)
  BY DEF Members, Ids
<1> QED
  BY <1>2, <1>4, <1>5

LEMMA MatchFollows ==
  ASSUME IInv, ReadOK, NoPause
  PROVE  MatchSound
<1>1. SUFFICES ASSUME NEW m \in Stored, Literal(m), m.matched
               PROVE  OccursIn(Pattern(m), Written(1, Total))
  BY DEF MatchSound
<1> DEFINE out == session.output
           p == Pattern(m)
           text == Written(1, Total)
<1>2. set # None /\ m \in Members(set.monitors) /\ Ready(set, out)
  BY <1>1, InvariantParts DEF ReadOK
<1>3. Holds(p, out)
  <2>1. Fits(m, out, set.cursor)
    BY <1>2 DEF Ready, ReadTo, Fine, AllFit
  <2> QED
    BY <1>1, <2>1 DEF Fits, Listens
<1>4. Total \in Nat /\ Len(out) = Total
  BY DEF ReadOK, Dated, Total
<1>5. Len(text) = Total /\ \A i \in 1 .. Total : text[i] = out[i].byte
  <2>1. Chunk(Written(0 + 1, Total), out, 0, Total)
    BY <1>4, WrittenChunk
  <2>2. 0 + 1 = 1 /\ Total - 0 = Total /\ \A i \in 1 .. Total : 0 + i = i
    BY <1>4
  <2> HIDE DEF out
  <2> QED
    BY <2>1, <2>2 DEF Chunk
<1> DEFINE n == Len(p)
<1>6. n \in Nat
  <2>1. p \in Seq(Range(p))
    <3>1. Fits(m, out, set.cursor)
      BY <1>2 DEF Ready, ReadTo, Fine, AllFit
    <3> QED
      BY <1>1, <3>1 DEF Fits, ConditionOK, Literal, Pattern, Condition
  <2> HIDE DEF p
  <2> QED
    BY <2>1, LenProperties
<1> HIDE DEF out, p, text, n
<1>7. PICK i \in 0 .. (Total - n) : \A k \in 1 .. n : out[i + k].byte = p[k]
  BY <1>3, <1>4 DEF Holds, n
<1>8. \A k \in 1 .. n : i + k \in 1 .. Total
  BY <1>4, <1>6, <1>7
<1>9. \A k \in 1 .. n : text[i + k] = p[k]
  BY <1>5, <1>7, <1>8
<1>10. OccursIn(p, text)
  BY <1>5, <1>7, <1>9 DEF OccursIn, n
<1> QED
  BY <1>10 DEF p, text

LEMMA QuietFollows ==
  ASSUME IInv, ReadOK, NoUpdate
  PROVE  QuietSound
<1>1. SUFFICES ASSUME NEW e \in Events, NEW m \in Stored, e.monitor = m.id,
                      m.definition.condition.kind = "quiet",
                      e.reason \in {"matched", "state_changed", "check"}, e.cursor > 0
               PROVE  session.output[e.cursor].at + m.definition.condition.span <= e.at
  BY DEF QuietSound
<1>2. /\ set # None /\ e \in Members(set.events) /\ m \in Members(set.monitors)
      /\ Ready(set, session.output)
  BY <1>1, InvariantParts DEF ReadOK
<1>3. Reports(set, session.output)
  BY <1>2 DEF Ready, ReadTo, Fine
<1>4. Quiet(m) /\ e.reason \in Three
  BY <1>1 DEF Quiet, Condition, Three
<1> QED
  BY <1>1, <1>2, <1>3, <1>4 DEF Reports, Condition

-----------------------------------------------------------------------------

LEMMA AlwaysInvariant == Spec => []IInv
<1>1. Init => IInv
  BY Started
<1>2. IInv /\ [Next]_vars => IInv'
  BY Invariance
<1> QED
  BY <1>1, <1>2, PTL DEF Spec

\* A stored set is one that validate accepts, so that every save and every
\* load of it succeeds, and threads remember what their next step needs.
THEOREM TypeCorrect == Spec => []TypeOK
BY AlwaysInvariant, TypeFollows, PTL

\* Whatever the ring drops, the gap says so: every event id that was given out
\* is stored, acknowledged or at most the gap.
THEOREM LossesAreTold == Spec => []EventLogComplete
BY AlwaysInvariant, LogFollows, PTL

\* A monitor that was removed, expired or ended is not stored, and its last
\* event is the last of its id.
THEOREM EndsAreFinal == Spec => []EndedForGood
BY AlwaysInvariant, EndsFollow, PTL

\* No step records anything else than its end of a monitor past its lifetime,
\* but for what clients do to it.
THEOREM ExpiredAreSilent == Spec => LateMonitorsOnlyExpire
<1>1. IInv /\ IInv' /\ [Next]_vars =>
        [\A m \in Stored, e \in Recorded :
           e.monitor = m.id /\ Expired(m, e.at) =>
             e.reason \in {"expired", "removed", "updated", "paused", "resumed"}]_vars
  <2>1. SUFFICES ASSUME IInv, IInv', [Next]_vars, NEW m \in Stored, NEW e \in Recorded,
                        e.monitor = m.id, Expired(m, e.at)
                 PROVE  e.reason \in Told
    BY DEF Told
  <2>2. set # None /\ SetOK(set) /\ m \in Members(set.monitors)
    BY <2>1, InvariantParts DEF IInv
  <2>3. e \in Events' /\ e.id >= set.nextEvent
    BY <2>1, <2>2 DEF Recorded
  <2>4. set' # None /\ e \in Members(set'.events)
    <3>1. Events' = IF set' = None THEN {} ELSE {set'.events[i] : i \in DOMAIN set'.events}
      BY DEF Events
    <3>2. set' # None
      BY <2>3, <3>1
    <3>3. DOMAIN set'.events = 1 .. Len(set'.events)
      <4>1. SetOK(set')
        BY <2>1, <3>2 DEF IInv
      <4>2. set'.events \in Seq(Event)
        BY <4>1, SetParts DEF LogOK
      <4> QED
        BY <4>2, LenProperties
    <3> QED
      BY <2>3, <3>1, <3>2, <3>3 DEF Members
  <2>5. SetMoves(set, set')
    BY <2>1, SetStep
  <2>6. set' # set
    <3>1. \A f \in Members(set.events) : f.id \in Nat /\ f.id < set.nextEvent
      BY <2>2, SetParts
    <3>2. set.nextEvent \in Nat
      BY <2>2, SetParts
    <3> QED
      BY <2>3, <2>4, <3>1, <3>2
  <2>7. e.reason \in Told \/ OnlyExpires(set, e)
    BY <2>2, <2>3, <2>4, <2>5, <2>6 DEF SetMoves
  <2> QED
    BY <2>1, <2>2, <2>7 DEF OnlyExpires, Told
<1>2. IInv /\ [Next]_vars => IInv'
  BY Invariance
<1> QED
  BY <1>1, <1>2, AlwaysInvariant, PTL DEF Spec, LateMonitorsOnlyExpire

LEMMA AlwaysRead == Spec => []ReadOK
<1>1. Init => ReadOK
  BY ReadStarted
<1>2. IInv /\ ReadOK /\ [Next]_vars => ReadOK'
  BY ReadKept
<1> QED
  BY <1>1, <1>2, AlwaysInvariant, PTL DEF Spec

\* Where no client pauses a monitor, one on output_contains that reports a match
\* has one: its pattern is in the output in one piece, whatever chunks the
\* supervisor saw it in, whatever the buffer dropped and whichever write of the
\* set failed.  (A paused monitor is not fed, and resumed it goes on from the
\* prefixes it had.)
THEOREM MatchesAreReal ==
  ASSUME "pause" \notin Kinds
  PROVE  Spec => []MatchSound
<1>1. IInv /\ ReadOK => MatchSound
  BY MatchFollows DEF NoPause
<1> QED
  BY <1>1, AlwaysInvariant, AlwaysRead, PTL

\* Where no client changes the condition of a monitor, one on quiet that reports
\* has heard nothing for its span, as far as the output goes that its event covers.
\* (The events of a monitor that was changed are those of the condition it had.)
THEOREM QuietIsReal ==
  ASSUME "update" \notin Kinds
  PROVE  Spec => []QuietSound
<1>1. IInv /\ ReadOK => QuietSound
  BY QuietFollows DEF NoUpdate
<1> QED
  BY <1>1, AlwaysInvariant, AlwaysRead, PTL

===============================================================================
