---------------------------- MODULE ServicesProofs ----------------------------
(***************************************************************************)
(* Proofs about what fx talks to, each part for any values of its          *)
(* constants.  Credentials: a refresh token is in one place, so that no    *)
(* two processes spend the same one, and what is listed is accepted.       *)
(* McpClient: no server, and no tool of one, is silently missing.          *)
(* GatewayStream: an answer is what was streamed, of one delivery.         *)
(***************************************************************************)
EXTENDS MCServices, SubagentProofs

-----------------------------------------------------------------------------
(* Credentials: the inductive invariant.                                   *)

WorkerStages == {"idle", "lock", "held", "login", "ambient", "expired", "answered", "authed", "fetched",
        "accepted"}

WorkerRecord ==
  [op : {"none", "login", "logout", "gateway", "refresh"}, at : WorkerStages, on : Providers,
   cred : Credential, catalog : Catalogs \cup {{}}]

StoreTypes ==
  /\ file \in [Providers -> Credential]
  /\ worker \in [Workers -> WorkerRecord]
  /\ holder \in [Providers -> Workers \cup {Nobody}]
  /\ live \subseteq Token /\ stale \subseteq Token /\ next \in Token \ {0}
  /\ uses \in 0 .. MaxUses /\ losses \in 0 .. MaxLosses

\* A lease is with the one worker that is in it.
Leased == {"held", "expired", "answered"}
LeaseOK ==
  \A w \in Workers, p \in Providers :
    holder[p] = w <=> worker[w].at \in Leased /\ worker[w].on = p

\* What the worker with the lease read is what the file has, and what it refreshes
\* had to be refreshed.
ReadOK ==
  \A w \in Workers :
    /\ worker[w].at = "held" /\ worker[w].op # "login" => worker[w].cred = file[worker[w].on]
    /\ worker[w].at = "expired" => worker[w].cred = file[worker[w].on]
    /\ worker[w].at \in {"expired", "answered"} =>
         file[worker[w].on] # None /\ file[worker[w].on].access \in stale

\* The worker has tokens that the file has not: of a login or of a refresh.
Holds(r) == r.at = "answered" \/ (r.op = "login" /\ r.at \in {"lock", "held"})

\* The next token is new.
FreshOK ==
  /\ \A x \in live : x < next
  /\ \A p \in Providers : file[p].refresh < next
  /\ \A w \in Workers : worker[w].cred.refresh < next

\* A refresh token is in one place, but for one that the server left as it was.
PlaceOK ==
  /\ \A p \in Providers : file[p] # None => file[p].refresh # 0
  /\ \A p, q \in Providers : p # q /\ file[p] # None => file[p].refresh # file[q].refresh
  /\ \A w \in Workers : Holds(worker[w]) =>
       /\ worker[w].cred.refresh \in live /\ worker[w].cred.refresh # 0
       /\ \A v \in Workers : v # w /\ Holds(worker[v]) =>
            worker[v].cred.refresh # worker[w].cred.refresh
       /\ \A p \in Providers :
            worker[w].cred.refresh = file[p].refresh => worker[w].at = "answered" /\ worker[w].on = p

StoreOK == StoreTypes /\ LeaseOK /\ ReadOK /\ FreshOK /\ PlaceOK

\* What has been accepted stays accepted.
RegistryOK ==
  /\ listed \subseteq accepted /\ Default \in listed
  /\ \A w \in Workers : worker[w].at = "accepted" => worker[w].catalog \subseteq accepted

CredentialsInv == StoreOK /\ SavedTokenIsLive /\ RegistryOK

-----------------------------------------------------------------------------
(* The steps of a worker, by what they do with its lease and its tokens.   *)

LEMMA IdleType ==
  /\ None \in Credential /\ Idle \in WorkerRecord
  /\ Idle.at = "idle" /\ Idle.op = "none" /\ Idle.on = "codex" /\ Idle.cred = None
  /\ None.refresh = 0 /\ 0 \in Token
<1>1. 0 \in Token
  BY CredentialsAssumption DEF Token
<1>2. None \in Credential /\ None.refresh = 0
  BY <1>1 DEF None, Credential
<1> QED
  BY <1>1, <1>2 DEF Idle, WorkerRecord, WorkerStages, Providers

\* The worker w goes on as r.
LEMMA Moves ==
  ASSUME StoreTypes, NEW w \in Workers, NEW r \in WorkerRecord, worker' = [worker EXCEPT ![w] = r]
  PROVE  /\ worker' \in [Workers -> WorkerRecord] /\ worker'[w] = r
         /\ \A v \in Workers : v # w => worker'[v] = worker[v]
BY DEF StoreTypes

\* The fields of a worker.
LEMMA WorkerTypes ==
  ASSUME StoreTypes, NEW w \in Workers
  PROVE  /\ worker[w] \in WorkerRecord /\ worker[w].at \in WorkerStages /\ worker[w].on \in Providers
         /\ worker[w].cred \in Credential /\ worker[w].catalog \in Catalogs \cup {{}}
         /\ worker[w].op \in {"none", "login", "logout", "gateway", "refresh"}
<1>1. worker[w] \in WorkerRecord
  BY DEF StoreTypes
<1> QED
  BY <1>1 DEF WorkerRecord

\* What is left of the leases when w leaves its own, if it has one.
Without(w) == [p \in Providers |-> IF holder[p] = w THEN Nobody ELSE holder[p]]

LEMMA Released ==
  ASSUME StoreTypes, LeaseOK, NEW w \in Workers
  PROVE  /\ worker[w].at \in Leased => [holder EXCEPT ![worker[w].on] = Nobody] = Without(w)
         /\ worker[w].at \notin Leased => holder = Without(w)
<1>1. holder \in [Providers -> Workers \cup {Nobody}]
  BY DEF StoreTypes
<1>2. \A p \in Providers : holder[p] = w <=> worker[w].at \in Leased /\ worker[w].on = p
  BY DEF LeaseOK
<1> QED
  BY <1>1, <1>2 DEF Without

\* A worker without a lease leaves the store alone.
LEMMA LeavesOK ==
  ASSUME StoreOK, SavedTokenIsLive,
         NEW w \in Workers, NEW r \in WorkerRecord, r.at \notin Leased, ~Holds(r),
         r.cred = worker[w].cred \/ r.cred = None,
         worker' = [worker EXCEPT ![w] = r], holder' = Without(w),
         UNCHANGED <<file, live, stale, next>>,
         uses' \in 0 .. MaxUses, losses' \in 0 .. MaxLosses,
         losses' = 0 => losses = 0 /\ worker[w].at # "answered" /\ ~rejected'
  PROVE  StoreOK' /\ SavedTokenIsLive'
<1>0. StoreTypes /\ LeaseOK /\ ReadOK /\ FreshOK /\ PlaceOK
  BY DEF StoreOK
<1>1. /\ worker' \in [Workers -> WorkerRecord] /\ worker'[w] = r
      /\ \A v \in Workers : v # w => worker'[v] = worker[v]
  BY <1>0, Moves
<1>2. \A p \in Providers : holder'[p] = IF holder[p] = w THEN Nobody ELSE holder[p]
  BY DEF Without
<1>3. StoreTypes'
  <2>1. holder' \in [Providers -> Workers \cup {Nobody}]
    BY <1>0 DEF Without, StoreTypes
  <2> QED
    BY <1>0, <1>1, <2>1 DEF StoreTypes
<1>4. LeaseOK'
  <2> SUFFICES ASSUME NEW v \in Workers, NEW p \in Providers
               PROVE  holder'[p] = v <=> worker'[v].at \in Leased /\ worker'[v].on = p
    BY DEF LeaseOK
  <2>1. Nobody # v
    BY CredentialsAssumption
  <2> QED
    BY <1>0, <1>1, <1>2, <2>1 DEF LeaseOK
<1>5. ReadOK'
  BY <1>0, <1>1 DEF ReadOK, Leased
<1>6. FreshOK'
  <2>1. worker'[w].cred.refresh < next
    <3>1. None.refresh = 0 /\ 0 < next
      BY <1>0, IdleType, CredentialsAssumption DEF StoreTypes, Token
    <3> QED
      BY <1>0, <1>1, <3>1 DEF FreshOK
  <2> QED
    BY <1>0, <1>1, <2>1 DEF FreshOK
<1>7. PlaceOK'
  BY <1>0, <1>1 DEF PlaceOK
<1>8. SavedTokenIsLive'
  <2> SUFFICES ASSUME losses' = 0
               PROVE  /\ ~rejected'
                      /\ \A p \in Providers :
                           \/ file'[p] = None \/ file'[p].refresh \in live'
                           \/ \E v \in Workers : holder'[p] = v /\ worker'[v].at = "answered"
    BY DEF SavedTokenIsLive
  <2>1. ASSUME NEW p \in Providers, file[p] # None, file[p].refresh \notin live
        PROVE  \E v \in Workers : holder'[p] = v /\ worker'[v].at = "answered"
    <3>1. PICK v \in Workers : holder[p] = v /\ worker[v].at = "answered"
      BY <2>1 DEF SavedTokenIsLive
    <3> QED
      BY <1>1, <1>2, <3>1
  <2> QED
    BY <2>1
<1> QED
  BY <1>3, <1>4, <1>5, <1>6, <1>7, <1>8 DEF StoreOK

\* The lease is used to write: nothing, or what the worker carried, which is then
\* the file's.
LEMMA WritesOK ==
  ASSUME StoreOK, SavedTokenIsLive,
         NEW w \in Workers, NEW r \in WorkerRecord, r.at \notin Leased, ~Holds(r),
         r.cred = worker[w].cred \/ r.cred = None,
         worker' = [worker EXCEPT ![w] = r], holder' = Without(w),
         worker[w].at \in Leased,
         NEW c, c = None \/ (Holds(worker[w]) /\ c = worker[w].cred),
         file' = [file EXCEPT ![worker[w].on] = c],
         UNCHANGED <<live, stale, next, rejected, uses, losses>>
  PROVE  StoreOK' /\ SavedTokenIsLive'
<1>0. StoreTypes /\ LeaseOK /\ ReadOK /\ FreshOK /\ PlaceOK
  BY DEF StoreOK
<1>1. /\ worker' \in [Workers -> WorkerRecord] /\ worker'[w] = r
      /\ \A v \in Workers : v # w => worker'[v] = worker[v]
  BY <1>0, Moves
<1>2. \A p \in Providers : holder'[p] = IF holder[p] = w THEN Nobody ELSE holder[p]
  BY DEF Without
<1> DEFINE on == worker[w].on
<1>3. /\ on \in Providers /\ holder[on] = w /\ c \in Credential
      /\ file' \in [Providers -> Credential] /\ file'[on] = c
      /\ \A p \in Providers : p # on => file'[p] = file[p]
  <2>1. c \in Credential
    BY <1>0, WorkerTypes, IdleType
  <2> QED
    BY <1>0, <2>1, WorkerTypes DEF StoreTypes, LeaseOK
<1>4. StoreTypes'
  <2>1. holder' \in [Providers -> Workers \cup {Nobody}]
    BY <1>0 DEF Without, StoreTypes
  <2> QED
    BY <1>0, <1>1, <1>3, <2>1 DEF StoreTypes
<1>5. LeaseOK'
  <2> SUFFICES ASSUME NEW v \in Workers, NEW p \in Providers
               PROVE  holder'[p] = v <=> worker'[v].at \in Leased /\ worker'[v].on = p
    BY DEF LeaseOK
  <2>1. Nobody # v
    BY CredentialsAssumption
  <2> QED
    BY <1>0, <1>1, <1>2, <2>1 DEF LeaseOK
<1>6. ReadOK'
  <2> SUFFICES ASSUME NEW v \in Workers, worker'[v].at \in Leased
               PROVE  v # w /\ file'[worker'[v].on] = file[worker[v].on]
    BY <1>0, <1>1 DEF ReadOK, Leased
  <2>1. v # w /\ worker'[v] = worker[v]
    BY <1>1
  <2>2. worker[v].on # on
    BY <1>0, <1>3, <2>1 DEF LeaseOK
  <2> QED
    BY <1>0, <1>3, <2>1, <2>2, WorkerTypes
<1>7. FreshOK'
  <2>1. None.refresh = 0 /\ 0 < next
    BY <1>0, IdleType, CredentialsAssumption DEF StoreTypes, Token
  <2>2. c.refresh < next /\ r.cred.refresh < next
    BY <1>0, <2>1 DEF FreshOK
  <2> QED
    BY <1>0, <1>1, <1>3, <2>2 DEF FreshOK
<1>8. PlaceOK'
  <2>1. ASSUME NEW p \in Providers, file'[p] # None
        PROVE  file'[p].refresh # 0 /\ \A q \in Providers : p # q => file'[p].refresh # file'[q].refresh
    <3>1. CASE c = None
      <4>1. p # on /\ None.refresh = 0
        BY <1>3, <2>1, <3>1, IdleType
      <4> QED
        BY <1>0, <1>3, <2>1, <3>1, <4>1 DEF PlaceOK
    <3>2. CASE Holds(worker[w]) /\ c = worker[w].cred
      <4>1. c.refresh # 0 /\ \A q \in Providers : q # on => file[q].refresh # c.refresh
        BY <1>0, <3>2 DEF PlaceOK
      <4> QED
        BY <1>0, <1>3, <2>1, <4>1 DEF PlaceOK
    <3> QED
      BY <3>1, <3>2
  <2>2. ASSUME NEW v \in Workers, Holds(worker'[v])
        PROVE  /\ worker'[v].cred.refresh \in live' /\ worker'[v].cred.refresh # 0
               /\ \A u \in Workers : u # v /\ Holds(worker'[u]) =>
                    worker'[u].cred.refresh # worker'[v].cred.refresh
               /\ \A p \in Providers : worker'[v].cred.refresh = file'[p].refresh =>
                    worker'[v].at = "answered" /\ worker'[v].on = p
    <3>1. v # w /\ worker'[v] = worker[v]
      BY <1>1, <2>2
    <3>2. /\ worker[v].cred.refresh \in live /\ worker[v].cred.refresh # 0
          /\ \A u \in Workers : u # v /\ Holds(worker[u]) =>
               worker[u].cred.refresh # worker[v].cred.refresh
          /\ \A p \in Providers : worker[v].cred.refresh = file[p].refresh =>
               worker[v].at = "answered" /\ worker[v].on = p
      BY <1>0, <2>2, <3>1 DEF PlaceOK
    <3>3. worker[v].cred.refresh # c.refresh
      BY <3>1, <3>2, IdleType
    <3> QED
      BY <1>1, <1>3, <3>1, <3>2, <3>3
  <2> QED
    BY <2>1, <2>2 DEF PlaceOK
<1>9. SavedTokenIsLive'
  <2> SUFFICES ASSUME losses' = 0
               PROVE  /\ ~rejected'
                      /\ \A p \in Providers :
                           \/ file'[p] = None \/ file'[p].refresh \in live'
                           \/ \E v \in Workers : holder'[p] = v /\ worker'[v].at = "answered"
    BY DEF SavedTokenIsLive
  <2>1. ~rejected'
    BY DEF SavedTokenIsLive
  <2>2. ASSUME NEW p \in Providers, file'[p] # None, file'[p].refresh \notin live
        PROVE  \E v \in Workers : holder'[p] = v /\ worker'[v].at = "answered"
    <3>1. p # on
      BY <1>0, <1>3, <2>2 DEF PlaceOK
    <3>2. file[p] = file'[p]
      BY <1>3, <3>1
    <3>3. PICK v \in Workers : holder[p] = v /\ worker[v].at = "answered"
      BY <2>2, <3>2 DEF SavedTokenIsLive
    <3>4. v # w
      BY <1>0, <3>1, <3>3 DEF LeaseOK
    <3> QED
      BY <1>1, <1>2, <3>3, <3>4
  <2> QED
    BY <2>1, <2>2
<1> QED
  BY <1>4, <1>5, <1>6, <1>7, <1>8, <1>9 DEF StoreOK

\* The worker r is worker[w] at another place.
LEMMA Placed ==
  ASSUME StoreTypes, NEW w \in Workers, NEW place \in WorkerStages
  PROVE  LET r == [worker[w] EXCEPT !.at = place]
         IN  /\ r \in WorkerRecord /\ r.at = place /\ r.op = worker[w].op /\ r.on = worker[w].on
             /\ r.cred = worker[w].cred /\ r.catalog = worker[w].catalog
BY WorkerTypes DEF WorkerRecord

\* A worker that keeps its tokens takes the lease or keeps it.
LEMMA AcquireOK ==
  ASSUME StoreOK, SavedTokenIsLive, NEW w \in Workers, Acquire(w)
  PROVE  StoreOK' /\ SavedTokenIsLive' /\ worker' \in [Workers -> WorkerRecord]
         /\ worker'[w].at = "held" /\ \A v \in Workers : v # w => worker'[v] = worker[v]
<1>0. StoreTypes /\ LeaseOK /\ ReadOK /\ FreshOK /\ PlaceOK
  BY DEF StoreOK
<1> DEFINE on == worker[w].on
           c == IF worker[w].op = "login" THEN worker[w].cred ELSE file[on]
           r == [worker[w] EXCEPT !.at = "held", !.cred = c]
<1>1. /\ on \in Providers /\ c \in Credential /\ worker[w].at = "lock" /\ holder[on] = Nobody
      /\ holder' = [holder EXCEPT ![on] = w]
      /\ UNCHANGED <<file, live, stale, next, rejected, uses, losses>>
  BY <1>0, WorkerTypes DEF Acquire, StoreTypes, server, bounds
<1>2. worker' = [worker EXCEPT ![w] = r]
  BY <1>0 DEF Acquire, Read, StoreTypes, WorkerRecord
<1>3. /\ r \in WorkerRecord /\ r.at = "held" /\ r.op = worker[w].op /\ r.on = on /\ r.cred = c
  <2>1. "held" \in WorkerStages
    BY DEF WorkerStages
  <2> HIDE DEF c
  <2>2. r = [worker[w] EXCEPT !.at = "held", !.cred = c]
    OBVIOUS
  <2> HIDE DEF r
  <2> QED
    BY <1>0, <1>1, <2>1, <2>2, WorkerTypes DEF WorkerRecord
<1> HIDE DEF r
<1>4. /\ worker' \in [Workers -> WorkerRecord] /\ worker'[w] = r
      /\ \A v \in Workers : v # w => worker'[v] = worker[v]
  BY <1>0, <1>2, <1>3, Moves
<1>5. StoreTypes'
  <2>1. holder' \in [Providers -> Workers \cup {Nobody}]
    BY <1>0, <1>1 DEF StoreTypes
  <2> QED
    BY <1>0, <1>1, <1>4, <2>1 DEF StoreTypes
<1>6. LeaseOK'
  <2> SUFFICES ASSUME NEW v \in Workers, NEW p \in Providers
               PROVE  holder'[p] = v <=> worker'[v].at \in Leased /\ worker'[v].on = p
    BY DEF LeaseOK
  <2>1. Nobody # v
    BY CredentialsAssumption
  <2>2. holder'[p] = IF p = on THEN w ELSE holder[p]
    BY <1>0, <1>1 DEF StoreTypes
  <2>3. holder[p] = v <=> worker[v].at \in Leased /\ worker[v].on = p
    BY <1>0 DEF LeaseOK
  <2>4. worker[w].at \notin Leased /\ "held" \in Leased
    BY <1>1 DEF Leased
  <2>5. CASE v = w
    <3>1. worker'[v].at \in Leased /\ worker'[v].on = on
      BY <1>3, <1>4, <2>4, <2>5
    <3>2. holder[p] # w
      BY <2>3, <2>4, <2>5
    <3> QED
      BY <2>2, <2>5, <3>1, <3>2
  <2>6. CASE v # w
    <3>1. worker'[v] = worker[v]
      BY <1>4, <2>6
    <3>2. p = on => holder[p] # v
      BY <1>1, <2>1
    <3> QED
      BY <2>2, <2>3, <2>6, <3>1, <3>2
  <2> QED
    BY <2>5, <2>6
<1>7. ReadOK'
  BY <1>0, <1>1, <1>3, <1>4 DEF ReadOK
<1>8. c = worker[w].cred \/ c = file[on]
  OBVIOUS
<1>9. Holds(r) <=> Holds(worker[w])
  BY <1>1, <1>3 DEF Holds
<1>10. Holds(r) => c = worker[w].cred
  BY <1>1, <1>3 DEF Holds
<1> HIDE DEF c
<1>11. FreshOK'
  BY <1>0, <1>1, <1>3, <1>4, <1>8 DEF FreshOK
<1>12. PlaceOK'
  <2>1. \A v \in Workers : Holds(worker'[v]) <=> Holds(worker[v])
    BY <1>4, <1>9
  <2>2. \A v \in Workers : Holds(worker[v]) => worker'[v].cred = worker[v].cred
    BY <1>3, <1>4, <1>9, <1>10
  <2>3. \A v \in Workers : worker[v].at = "answered" => worker'[v] = worker[v]
    BY <1>1, <1>4
  <2> QED
    BY <1>0, <1>1, <2>1, <2>2, <2>3 DEF PlaceOK
<1>13. SavedTokenIsLive'
  <2>1. \A p \in Providers, v \in Workers : holder[p] = v /\ worker[v].at = "answered" =>
          holder'[p] = v /\ worker'[v].at = "answered"
    <3>1. \A p \in Providers : holder'[p] = IF p = on THEN w ELSE holder[p]
      BY <1>0, <1>1 DEF StoreTypes
    <3>2. Nobody \notin Workers
      BY CredentialsAssumption
    <3> QED
      BY <1>1, <1>4, <3>1, <3>2
  <2> QED
    BY <1>1, <2>1 DEF SavedTokenIsLive
<1> QED
  BY <1>3, <1>4, <1>5, <1>6, <1>7, <1>11, <1>12, <1>13 DEF StoreOK

\* The tokens in the file have to be refreshed.
LEMMA ExpiredOK ==
  ASSUME StoreOK, SavedTokenIsLive, NEW w \in Workers,
         worker[w].op \in {"gateway", "refresh"}, worker[w].at = "held",
         worker[w].cred # None, worker[w].cred.access \in stale, At(w, "expired"),
         UNCHANGED <<file, holder, live, stale, next, rejected, uses, losses>>
  PROVE  StoreOK' /\ SavedTokenIsLive' /\ worker' \in [Workers -> WorkerRecord]
         /\ worker'[w].at = "expired" /\ \A v \in Workers : v # w => worker'[v] = worker[v]
<1>0. StoreTypes /\ LeaseOK /\ ReadOK /\ FreshOK /\ PlaceOK
  BY DEF StoreOK
<1> DEFINE r == [worker[w] EXCEPT !.at = "expired"]
<1>1. /\ r \in WorkerRecord /\ r.at = "expired" /\ r.op = worker[w].op /\ r.on = worker[w].on
      /\ r.cred = worker[w].cred
  BY <1>0, Placed DEF WorkerStages
<1>2. worker' = [worker EXCEPT ![w] = r]
  BY DEF At
<1> HIDE DEF r
<1>3. /\ worker' \in [Workers -> WorkerRecord] /\ worker'[w] = r
      /\ \A v \in Workers : v # w => worker'[v] = worker[v]
  BY <1>0, <1>1, <1>2, Moves
<1>4. StoreTypes'
  BY <1>0, <1>3 DEF StoreTypes
<1>5. LeaseOK'
  BY <1>0, <1>1, <1>3 DEF LeaseOK, Leased
<1>6. ReadOK'
  BY <1>0, <1>1, <1>3 DEF ReadOK
<1>7. FreshOK'
  BY <1>0, <1>1, <1>3 DEF FreshOK
<1>8. PlaceOK'
  <2>1. ~Holds(r) /\ ~Holds(worker[w])
    BY <1>1 DEF Holds
  <2> QED
    BY <1>0, <1>3, <2>1 DEF PlaceOK
<1>9. SavedTokenIsLive'
  BY <1>3 DEF SavedTokenIsLive
<1> QED
  BY <1>1, <1>3, <1>4, <1>5, <1>6, <1>7, <1>8, <1>9 DEF StoreOK

LEMMA NextToken ==
  ASSUME StoreTypes, next <= MaxTokens
  PROVE  /\ next \in Nat \ {0} /\ next + 1 \in Token \ {0} /\ [access |-> next, refresh |-> next] \in Credential
         /\ next \in Token /\ Token \subseteq Nat
BY CredentialsAssumption DEF StoreTypes, Token, Credential

\* New tokens, that nobody has.
LEMMA IssueOK ==
  ASSUME StoreOK, SavedTokenIsLive, NEW w \in Workers,
         worker[w].at = "login", Issue(w)
  PROVE  StoreOK' /\ SavedTokenIsLive' /\ worker' \in [Workers -> WorkerRecord]
         /\ worker'[w].at = "lock" /\ \A v \in Workers : v # w => worker'[v] = worker[v]
<1>0. StoreTypes /\ LeaseOK /\ ReadOK /\ FreshOK /\ PlaceOK
  BY DEF StoreOK
<1> DEFINE c == [access |-> next, refresh |-> next]
           r == [worker[w] EXCEPT !.at = "lock", !.cred = c]
<1>1. /\ next <= MaxTokens /\ next' = next + 1 /\ live' = live \cup {next}
      /\ worker' = [worker EXCEPT ![w] = r]
      /\ UNCHANGED <<file, holder, stale, rejected, uses, losses>>
  BY <1>0 DEF Issue, bounds, StoreTypes, WorkerRecord
<1>2. /\ next \in Nat \ {0} /\ next + 1 \in Token \ {0} /\ c \in Credential /\ next \in Token
      /\ Token \subseteq Nat
  BY <1>0, <1>1, NextToken
<1>3. /\ r \in WorkerRecord /\ r.at = "lock" /\ r.op = worker[w].op /\ r.on = worker[w].on
      /\ r.cred = c /\ c.refresh = next
  <2>1. "lock" \in WorkerStages /\ c.refresh = next
    BY DEF WorkerStages
  <2> HIDE DEF c
  <2>2. r = [worker[w] EXCEPT !.at = "lock", !.cred = c]
    OBVIOUS
  <2> HIDE DEF r
  <2> QED
    BY <1>0, <1>2, <2>1, <2>2, WorkerTypes DEF WorkerRecord
<1> HIDE DEF r, c
<1>4. /\ worker' \in [Workers -> WorkerRecord] /\ worker'[w] = r
      /\ \A v \in Workers : v # w => worker'[v] = worker[v]
  BY <1>0, <1>1, <1>3, Moves
<1>5. StoreTypes'
  BY <1>0, <1>1, <1>2, <1>4 DEF StoreTypes
<1>6. LeaseOK'
  BY <1>0, <1>1, <1>3, <1>4 DEF LeaseOK, Leased
<1>7. ReadOK'
  BY <1>0, <1>1, <1>3, <1>4 DEF ReadOK
<1>8. /\ \A x \in live : x < next /\ x \in Nat
      /\ \A p \in Providers : file[p].refresh < next /\ file[p].refresh \in Nat
      /\ \A v \in Workers : worker[v].cred.refresh < next /\ worker[v].cred.refresh \in Nat
  <2>1. \A k \in Credential : k.refresh \in Nat
    BY <1>2 DEF Credential
  <2>2. \A v \in Workers : worker[v].cred \in Credential
    BY <1>0, WorkerTypes
  <2>3. \A p \in Providers : file[p] \in Credential
    BY <1>0 DEF StoreTypes
  <2> QED
    BY <1>0, <1>2, <2>1, <2>2, <2>3 DEF FreshOK, StoreTypes
<1>9. FreshOK'
  <2>1. \A x \in live' : x < next'
    BY <1>1, <1>2, <1>8
  <2>2. \A p \in Providers : file'[p].refresh < next'
    BY <1>1, <1>2, <1>8
  <2>3. \A v \in Workers : worker'[v].cred.refresh < next'
    BY <1>1, <1>2, <1>3, <1>4, <1>8
  <2> QED
    BY <2>1, <2>2, <2>3 DEF FreshOK
<1>10. PlaceOK'
  <2>1. \A p \in Providers : file[p].refresh # next
    BY <1>2, <1>8
  <2>2. \A v \in Workers : worker[v].cred.refresh # next
    BY <1>2, <1>8
  <2>3. /\ \A p \in Providers : file[p] # None => file[p].refresh # 0
        /\ \A p, q \in Providers : p # q /\ file[p] # None => file[p].refresh # file[q].refresh
    BY <1>0 DEF PlaceOK
  <2>4. ASSUME NEW v \in Workers, Holds(worker'[v])
        PROVE  /\ worker'[v].cred.refresh \in live' /\ worker'[v].cred.refresh # 0
               /\ \A u \in Workers : u # v /\ Holds(worker'[u]) =>
                    worker'[u].cred.refresh # worker'[v].cred.refresh
               /\ \A p \in Providers : worker'[v].cred.refresh = file'[p].refresh =>
                    worker'[v].at = "answered" /\ worker'[v].on = p
    <3>1. CASE v = w
      BY <1>1, <1>2, <1>3, <1>4, <2>1, <2>2, <3>1
    <3>2. CASE v # w
      <4>1. worker'[v] = worker[v] /\ Holds(worker[v])
        BY <1>4, <2>4, <3>2
      <4>2. /\ worker[v].cred.refresh \in live /\ worker[v].cred.refresh # 0
            /\ \A u \in Workers : u # v /\ Holds(worker[u]) =>
                 worker[u].cred.refresh # worker[v].cred.refresh
            /\ \A p \in Providers : worker[v].cred.refresh = file[p].refresh =>
                 worker[v].at = "answered" /\ worker[v].on = p
        BY <1>0, <4>1 DEF PlaceOK
      <4> QED
        BY <1>1, <1>3, <1>4, <2>2, <4>1, <4>2
    <3> QED
      BY <3>1, <3>2
  <2> QED
    BY <1>1, <2>3, <2>4 DEF PlaceOK
<1>11. SavedTokenIsLive'
  <2>1. \A v \in Workers : worker[v].at = "answered" => worker'[v].at = "answered"
    BY <1>4
  <2> QED
    BY <1>1, <2>1 DEF SavedTokenIsLive
<1> QED
  BY <1>3, <1>4, <1>5, <1>6, <1>7, <1>9, <1>10, <1>11 DEF StoreOK

\* The server takes the token of the file, and the worker has its successor.
LEMMA RefreshedOK ==
  ASSUME StoreOK, SavedTokenIsLive, NEW w \in Workers, Refreshed(w)
  PROVE  StoreOK' /\ SavedTokenIsLive' /\ worker' \in [Workers -> WorkerRecord]
         /\ worker'[w].at = "answered" /\ \A v \in Workers : v # w => worker'[v] = worker[v]
<1>0. StoreTypes /\ LeaseOK /\ ReadOK /\ FreshOK /\ PlaceOK
  BY DEF StoreOK
<1> DEFINE old == worker[w].cred.refresh
           on == worker[w].on
<1>1. PICK new \in {old, next} :
        /\ next <= MaxTokens /\ next' = next + 1 /\ worker[w].at = "expired" /\ old \in live
        /\ live' = (live \ {old}) \cup {new}
        /\ worker' = [worker EXCEPT ![w].at = "answered",
                                    ![w].cred = [access |-> next, refresh |-> new]]
        /\ UNCHANGED <<file, holder, stale, rejected, uses, losses>>
  BY DEF Refreshed, RefreshTokens, bounds
<1>2. /\ next \in Nat \ {0} /\ next + 1 \in Token \ {0} /\ next \in Token /\ Token \subseteq Nat
      /\ new \in Token
  BY <1>0, <1>1, NextToken DEF StoreTypes
<1> DEFINE c == [access |-> next, refresh |-> new]
           r == [worker[w] EXCEPT !.at = "answered", !.cred = c]
<1>3. /\ r \in WorkerRecord /\ r.at = "answered" /\ r.op = worker[w].op /\ r.on = on
      /\ r.cred = c /\ c.refresh = new
  <2>1. c \in Credential /\ c.refresh = new /\ "answered" \in WorkerStages
    BY <1>2 DEF Credential, WorkerStages
  <2> HIDE DEF c
  <2>2. r = [worker[w] EXCEPT !.at = "answered", !.cred = c]
    OBVIOUS
  <2> HIDE DEF r
  <2> QED
    BY <1>0, <2>1, <2>2, WorkerTypes DEF WorkerRecord
<1>4. worker' = [worker EXCEPT ![w] = r]
  BY <1>0, <1>1 DEF StoreTypes, WorkerRecord
<1> HIDE DEF r, c
<1>5. /\ worker' \in [Workers -> WorkerRecord] /\ worker'[w] = r
      /\ \A v \in Workers : v # w => worker'[v] = worker[v]
  BY <1>0, <1>3, <1>4, Moves
<1>6. StoreTypes'
  BY <1>0, <1>1, <1>2, <1>5 DEF StoreTypes
<1>7. LeaseOK'
  BY <1>0, <1>1, <1>3, <1>5 DEF LeaseOK, Leased
<1>8. /\ on \in Providers /\ worker[w].cred = file[on] /\ file[on] # None /\ file[on].access \in stale
  BY <1>0, <1>1, WorkerTypes DEF ReadOK
<1>9. ReadOK'
  BY <1>0, <1>1, <1>3, <1>5, <1>8 DEF ReadOK
<1>10. /\ \A x \in live : x < next /\ x \in Nat
       /\ \A p \in Providers : file[p].refresh < next /\ file[p].refresh \in Nat
       /\ \A v \in Workers : worker[v].cred.refresh < next /\ worker[v].cred.refresh \in Nat
  <2>1. \A k \in Credential : k.refresh \in Nat
    BY <1>2 DEF Credential
  <2>2. \A v \in Workers : worker[v].cred \in Credential
    BY <1>0, WorkerTypes
  <2>3. \A p \in Providers : file[p] \in Credential
    BY <1>0 DEF StoreTypes
  <2> QED
    BY <1>0, <1>2, <2>1, <2>2, <2>3 DEF FreshOK, StoreTypes
<1>11. FreshOK'
  <2>0. new < next + 1 /\ next + 1 = next' /\ new \in Nat
    BY <1>1, <1>2, <1>10
  <2>1. \A x \in live' : x < next'
    <3> SUFFICES ASSUME NEW x \in live'
                 PROVE  x < next'
      OBVIOUS
    <3>1. x \in live \/ x = new
      BY <1>1
    <3> QED
      BY <1>2, <1>10, <2>0, <3>1
  <2>2. \A p \in Providers : file'[p].refresh < next'
    BY <1>1, <1>2, <1>10
  <2>3. \A v \in Workers : worker'[v].cred.refresh < next'
    BY <1>2, <1>3, <1>5, <1>10, <2>0
  <2> QED
    BY <2>1, <2>2, <2>3 DEF FreshOK
<1>12. /\ new # 0 /\ new \in live'
       /\ \A v \in Workers : v # w /\ Holds(worker[v]) =>
            worker[v].cred.refresh # new /\ worker[v].cred.refresh \in live'
       /\ \A p \in Providers : file[p].refresh = new => p = on
  <2>1. \A v \in Workers : v # w /\ Holds(worker[v]) =>
          worker[v].cred.refresh # old /\ worker[v].cred.refresh \in live
    <3> SUFFICES ASSUME NEW v \in Workers, v # w, Holds(worker[v])
                 PROVE  worker[v].cred.refresh # old /\ worker[v].cred.refresh \in live
      OBVIOUS
    <3>1. worker[v].cred.refresh \in live
      BY <1>0 DEF PlaceOK
    <3>2. worker[v].cred.refresh = file[on].refresh => worker[v].at = "answered" /\ worker[v].on = on
      BY <1>0, <1>8 DEF PlaceOK
    <3>3. ~(worker[v].at = "answered" /\ worker[v].on = on)
      BY <1>0, <1>1, <1>8 DEF LeaseOK, Leased
    <3> QED
      BY <1>8, <3>1, <3>2, <3>3
  <2>2. old # 0 /\ \A p \in Providers : file[p].refresh = old => p = on
    BY <1>0, <1>8 DEF PlaceOK
  <2>3. next # 0 /\ (\A p \in Providers : file[p].refresh # next)
                 /\ (\A v \in Workers : worker[v].cred.refresh # next)
    BY <1>2, <1>10
  <2> QED
    BY <1>1, <2>1, <2>2, <2>3
<1>13. PlaceOK'
  <2>1. ASSUME NEW v \in Workers, Holds(worker'[v])
        PROVE  /\ worker'[v].cred.refresh \in live' /\ worker'[v].cred.refresh # 0
               /\ \A u \in Workers : u # v /\ Holds(worker'[u]) =>
                    worker'[u].cred.refresh # worker'[v].cred.refresh
               /\ \A p \in Providers : worker'[v].cred.refresh = file'[p].refresh =>
                    worker'[v].at = "answered" /\ worker'[v].on = p
    <3>1. CASE v = w
      BY <1>1, <1>3, <1>5, <1>12, <3>1
    <3>2. CASE v # w
      <4>1. worker'[v] = worker[v] /\ Holds(worker[v])
        BY <1>5, <2>1, <3>2
      <4>2. /\ worker[v].cred.refresh # 0
            /\ \A u \in Workers : u # v /\ Holds(worker[u]) =>
                 worker[u].cred.refresh # worker[v].cred.refresh
            /\ \A p \in Providers : worker[v].cred.refresh = file[p].refresh =>
                 worker[v].at = "answered" /\ worker[v].on = p
        BY <1>0, <4>1 DEF PlaceOK
      <4> QED
        BY <1>1, <1>3, <1>5, <1>12, <3>2, <4>1, <4>2
    <3> QED
      BY <3>1, <3>2
  <2>2. /\ \A p \in Providers : file[p] # None => file[p].refresh # 0
        /\ \A p, q \in Providers : p # q /\ file[p] # None => file[p].refresh # file[q].refresh
    BY <1>0 DEF PlaceOK
  <2>3. file' = file
    BY <1>1
  <2>4. /\ \A p \in Providers : file'[p] # None => file'[p].refresh # 0
        /\ \A p, q \in Providers : p # q /\ file'[p] # None => file'[p].refresh # file'[q].refresh
    BY <2>2, <2>3, Zenon
  <2>5. ASSUME NEW v \in Workers, Holds(worker'[v])
        PROVE  /\ worker'[v].cred.refresh \in live' /\ worker'[v].cred.refresh # 0
               /\ \A u \in Workers : u # v /\ Holds(worker'[u]) =>
                    worker'[u].cred.refresh # worker'[v].cred.refresh
               /\ \A p \in Providers : worker'[v].cred.refresh = file'[p].refresh =>
                    worker'[v].at = "answered" /\ worker'[v].on = p
    BY <2>1, <2>5, Zenon
  <2> QED
    BY <2>4, <2>5, Zenon DEF PlaceOK
<1>14. SavedTokenIsLive'
  <2> SUFFICES ASSUME losses' = 0
               PROVE  /\ ~rejected'
                      /\ \A p \in Providers :
                           \/ file'[p] = None \/ file'[p].refresh \in live'
                           \/ \E v \in Workers : holder'[p] = v /\ worker'[v].at = "answered"
    BY DEF SavedTokenIsLive
  <2>1. ~rejected'
    BY <1>1 DEF SavedTokenIsLive
  <2>2. ASSUME NEW p \in Providers, file'[p] # None, file'[p].refresh \notin live'
        PROVE  \E v \in Workers : holder'[p] = v /\ worker'[v].at = "answered"
    <3>1. CASE p = on
      <4>1. holder[on] = w
        BY <1>0, <1>1, <1>8 DEF LeaseOK, Leased
      <4> QED
        BY <1>1, <1>3, <1>5, <3>1, <4>1
    <3>2. CASE p # on
      <4>1. file[p].refresh # old
        BY <1>0, <1>8, <3>2 DEF PlaceOK
      <4>2. file[p] # None /\ file[p].refresh \notin live
        BY <1>1, <2>2, <4>1
      <4>3. PICK v \in Workers : holder[p] = v /\ worker[v].at = "answered"
        BY <1>1, <4>2 DEF SavedTokenIsLive
      <4> QED
        BY <1>1, <1>5, <4>3
    <3> QED
      BY <3>1, <3>2
  <2> QED
    BY <2>1, <2>2
<1> QED
  BY <1>3, <1>5, <1>6, <1>7, <1>9, <1>11, <1>13, <1>14 DEF StoreOK

LEMMA ExpireOK ==
  ASSUME StoreOK, SavedTokenIsLive, NEW p \in Providers, Expire(p)
  PROVE  StoreOK' /\ SavedTokenIsLive' /\ UNCHANGED worker
<1>0. StoreTypes /\ LeaseOK /\ ReadOK /\ FreshOK /\ PlaceOK
  BY DEF StoreOK
<1>1. /\ UNCHANGED <<file, holder, worker, live, next, rejected, uses, losses>>
      /\ stale' = stale \cup {file[p].access}
  BY DEF Expire, bounds
<1>2. file[p].access \in Token
  BY <1>0 DEF StoreTypes, Credential
<1>3. StoreTypes'
  BY <1>0, <1>1, <1>2 DEF StoreTypes
<1>4. LeaseOK' /\ FreshOK' /\ PlaceOK' /\ SavedTokenIsLive'
  BY <1>0, <1>1 DEF LeaseOK, FreshOK, PlaceOK, SavedTokenIsLive
<1>5. ReadOK'
  BY <1>0, <1>1 DEF ReadOK
<1> QED
  BY <1>1, <1>3, <1>4, <1>5 DEF StoreOK

-----------------------------------------------------------------------------
(* The steps of a worker.                                                  *)

\* The step is one of the worker w, which has not accepted a catalog with it.
Steps(w) ==
  /\ StoreOK' /\ SavedTokenIsLive'
  /\ \A v \in Workers : v # w => worker'[v] = worker[v]
  /\ worker'[w].at # "accepted"

\* What a worker may be when it leaves the store alone.
Away(w, r) ==
  /\ r \in WorkerRecord /\ r.at \notin Leased /\ ~Holds(r)
  /\ r.cred = worker[w].cred \/ r.cred = None
  /\ worker' = [worker EXCEPT ![w] = r]

\* The lease, if it had one, is dropped.
Drops(w) ==
  /\ worker[w].at \in Leased => Release(w)
  /\ worker[w].at \notin Leased => UNCHANGED holder

LEMMA DropsOK ==
  ASSUME StoreOK, NEW w \in Workers, Drops(w)
  PROVE  holder' = Without(w)
BY Released DEF Drops, Release, StoreOK

\* The bounds count what they bound.
LEMMA BoundsOK ==
  ASSUME StoreOK
  PROVE  /\ uses \in 0 .. MaxUses /\ losses \in 0 .. MaxLosses
         /\ Fault => uses' \in 0 .. MaxUses /\ losses' \in 0 .. MaxLosses /\ losses' # 0
         /\ uses < MaxUses /\ uses' = uses + 1 => uses' \in 0 .. MaxUses
BY CredentialsAssumption DEF StoreOK, StoreTypes, Fault

\* The worker ends.
LEMMA EndedAway ==
  ASSUME NEW w \in Workers, Ended(w)
  PROVE  Away(w, Idle) /\ Idle.at # "accepted"
BY IdleType DEF Ended, Away, Leased, Holds

\* The worker ends, or goes on to log out of the next provider.
LEMMA FailedAway ==
  ASSUME StoreOK, NEW w \in Workers, Failed(w)
  PROVE  \E r \in WorkerRecord : Away(w, r) /\ r.at # "accepted"
<1>1. CASE worker[w].op = "logout" /\ worker[w].on = "codex"
  <2> DEFINE r == [worker[w] EXCEPT !.at = "lock", !.on = "vercel"]
  <2>1. /\ r \in WorkerRecord /\ r.at = "lock" /\ r.op = "logout" /\ r.cred = worker[w].cred
        /\ worker' = [worker EXCEPT ![w] = r]
    <3>1. worker[w] \in WorkerRecord /\ worker \in [Workers -> WorkerRecord]
      BY WorkerTypes DEF StoreOK, StoreTypes
    <3>2. worker' = [worker EXCEPT ![w].at = "lock", ![w].on = "vercel"]
      BY <1>1 DEF Failed
    <3>3. worker' = [worker EXCEPT ![w] = r]
      BY <3>1, <3>2 DEF WorkerRecord
    <3> QED
      BY <1>1, <3>1, <3>3 DEF WorkerRecord, WorkerStages, Providers
  <2> HIDE DEF r
  <2> QED
    BY <2>1 DEF Away, Leased, Holds
<1>2. CASE ~(worker[w].op = "logout" /\ worker[w].on = "codex")
  <2>1. Ended(w)
    BY <1>2 DEF Failed
  <2> QED
    BY <2>1, EndedAway, IdleType
<1> QED
  BY <1>1, <1>2

\* The worker goes on elsewhere, without the lease and with its tokens at most.
LEMMA PlacedAway ==
  ASSUME StoreOK, NEW w \in Workers, NEW place \in WorkerStages, place \notin Leased, place \notin {"lock", "login"},
         worker' = [worker EXCEPT ![w].at = place]
  PROVE  \E r \in WorkerRecord : Away(w, r) /\ r.at = place
<1> DEFINE r == [worker[w] EXCEPT !.at = place]
<1>1. /\ r \in WorkerRecord /\ r.at = place /\ r.op = worker[w].op /\ r.cred = worker[w].cred
  BY Placed DEF StoreOK
<1>2. worker' = [worker EXCEPT ![w] = r]
  OBVIOUS
<1> HIDE DEF r
<1> QED
  BY <1>1, <1>2 DEF Away, Holds, Leased

\* What LeavesOK says of such a step.
LEMMA AwaySteps ==
  ASSUME StoreOK, SavedTokenIsLive, NEW w \in Workers,
         NEW r \in WorkerRecord, Away(w, r), r.at # "accepted", holder' = Without(w),
         UNCHANGED <<file, live, stale, next>>,
         uses' \in 0 .. MaxUses, losses' \in 0 .. MaxLosses,
         losses' = 0 => losses = 0 /\ worker[w].at # "answered" /\ ~rejected'
  PROVE  Steps(w)
<1>1. StoreOK' /\ SavedTokenIsLive'
  BY LeavesOK DEF Away
<1>2. worker'[w] = r /\ \A v \in Workers : v # w => worker'[v] = worker[v]
  BY Moves DEF Away, StoreOK
<1> QED
  BY <1>1, <1>2 DEF Steps

\* As AwaySteps, of a step without losses.
LEMMA PlainSteps ==
  ASSUME StoreOK, SavedTokenIsLive, NEW w \in Workers,
         NEW r \in WorkerRecord, Away(w, r), r.at # "accepted", Drops(w),
         UNCHANGED <<file, live, stale, next, rejected, uses, losses>>, worker[w].at # "answered"
  PROVE  Steps(w)
<1>1. losses' = 0 => losses = 0 /\ worker[w].at # "answered" /\ ~rejected'
  BY DEF SavedTokenIsLive
<1>2. uses' \in 0 .. MaxUses /\ losses' \in 0 .. MaxLosses
  BY BoundsOK
<1> QED
  BY <1>1, <1>2, DropsOK, AwaySteps

LEMMA BeginSteps ==
  ASSUME StoreOK, SavedTokenIsLive, NEW w \in Workers, NEW p \in Providers,
         NEW op \in {"login", "logout", "gateway", "refresh"}, Begin(w, op, p)
  PROVE  Steps(w)
<1> DEFINE place == IF op = "login" THEN "login" ELSE "lock"
           r == [Idle EXCEPT !.op = op, !.on = p, !.at = place]
<1>1. place \in WorkerStages
  BY DEF WorkerStages
<1>2. worker' = [worker EXCEPT ![w] = r]
  BY DEF Begin
<1>3. r.at = place /\ r.op = op /\ r.cred = None /\ r \in WorkerRecord
  <2> HIDE DEF place
  <2> QED
    BY <1>1, IdleType DEF Idle, WorkerRecord
<1>4. Away(w, r) /\ r.at # "accepted"
  <2> HIDE DEF r
  <2> QED
    BY <1>2, <1>3 DEF Away, Leased, Holds
<1> HIDE DEF r
<1>5. /\ worker[w].at = "idle" /\ uses < MaxUses /\ uses' = uses + 1
      /\ UNCHANGED <<file, holder, live, stale, next, rejected, losses>>
  BY DEF Begin, server
<1>6. holder' = Without(w)
  BY <1>5, DropsOK DEF Drops, Leased
<1>7. uses' \in 0 .. MaxUses /\ losses' \in 0 .. MaxLosses
  BY <1>5, BoundsOK
<1>8. losses' = 0 => losses = 0 /\ worker[w].at # "answered" /\ ~rejected'
  BY <1>5 DEF SavedTokenIsLive
<1> QED
  BY <1>3, <1>4, <1>5, <1>6, <1>7, <1>8, AwaySteps

LEMMA LockTimeoutSteps ==
  ASSUME StoreOK, SavedTokenIsLive, NEW w \in Workers, LockTimeout(w)
  PROVE  Steps(w)
<1>1. PICK r \in WorkerRecord : Away(w, r) /\ r.at # "accepted"
  BY FailedAway DEF LockTimeout
<1>2. /\ worker[w].at = "lock" 
      /\ UNCHANGED <<file, holder, live, stale, next, rejected, uses, losses>>
  BY DEF LockTimeout, server, bounds
<1>3. Drops(w)
  BY <1>2 DEF Drops, Leased
<1> QED
  BY <1>1, <1>2, <1>3, PlainSteps

LEMMA StoreFailsSteps ==
  ASSUME StoreOK, SavedTokenIsLive, NEW w \in Workers,
         StoreFails(w) \/ RefreshedLost(w)
  PROVE  Steps(w)
<1>1. PICK r \in WorkerRecord : Away(w, r) /\ r.at # "accepted"
  BY FailedAway, EndedAway, IdleType DEF StoreFails, RefreshedLost
<1>2. /\ worker[w].at \in Leased /\ Fault /\ Release(w)
      /\ UNCHANGED <<file, live, stale, next>>
  BY DEF StoreFails, RefreshedLost, server, Leased
<1>3. holder' = Without(w)
  BY <1>2, DropsOK DEF Drops
<1>4. uses' \in 0 .. MaxUses /\ losses' \in 0 .. MaxLosses /\ losses' # 0
  BY <1>2, BoundsOK
<1> QED
  BY <1>1, <1>2, <1>3, <1>4, AwaySteps

LEMMA KilledSteps ==
  ASSUME StoreOK, SavedTokenIsLive, NEW w \in Workers, Killed(w)
  PROVE  Steps(w)
<1>1. Away(w, Idle) /\ Idle.at # "accepted" /\ Idle \in WorkerRecord
  BY EndedAway, IdleType DEF Killed
<1>2. Fault /\ holder' = Without(w) /\ UNCHANGED <<file, live, stale, next>>
  BY DEF Killed, server, Without
<1>3. uses' \in 0 .. MaxUses /\ losses' \in 0 .. MaxLosses /\ losses' # 0
  BY <1>2, BoundsOK
<1> QED
  BY <1>1, <1>2, <1>3, AwaySteps

\* The other steps that end the worker.
LEMMA EndsSteps ==
  ASSUME StoreOK, SavedTokenIsLive, NEW w \in Workers,
         CallbackFails(w) \/ DeviceFails(w) \/ Ambient(w) \/ List(w)
  PROVE  Steps(w)
<1>1. Away(w, Idle) /\ Idle.at # "accepted" /\ Idle \in WorkerRecord
  BY EndedAway, IdleType DEF CallbackFails, DeviceFails, LoginFails, Ambient, List
<1>2. /\ worker[w].at \in {"login", "ambient", "accepted"}
      /\ UNCHANGED <<file, holder, live, stale, next, rejected, uses, losses>>
  BY DEF CallbackFails, DeviceFails, LoginFails, Ambient, List, server, bounds
<1>3. Drops(w)
  BY <1>2 DEF Drops, Leased
<1> QED
  BY <1>1, <1>2, <1>3, PlainSteps

LEMMA ResolveSteps ==
  ASSUME StoreOK, SavedTokenIsLive, NEW w \in Workers, Resolve(w)
  PROVE  Steps(w)
<1>1. /\ worker[w].op \in {"gateway", "refresh"} /\ worker[w].at = "held"
      /\ UNCHANGED <<file, live, stale, next, rejected, uses, losses>>
  BY DEF Resolve, server, bounds
<1>2. CASE worker[w].cred # None /\ worker[w].cred.access \in stale
  <2>1. At(w, "expired") /\ UNCHANGED holder
    BY <1>2 DEF Resolve
  <2>2. /\ StoreOK' /\ SavedTokenIsLive' /\ worker'[w].at = "expired"
        /\ \A v \in Workers : v # w => worker'[v] = worker[v]
    BY <1>1, <1>2, <2>1, ExpiredOK
  <2> QED
    BY <2>2 DEF Steps
<1>3. CASE ~(worker[w].cred # None /\ worker[w].cred.access \in stale)
  <2>1. Release(w) /\ (At(w, "ambient") \/ Ended(w) \/ At(w, "authed"))
    BY <1>3 DEF Resolve
  <2>2. PICK r \in WorkerRecord : Away(w, r) /\ r.at # "accepted"
    <3>1. CASE Ended(w)
      BY <3>1, EndedAway, IdleType
    <3>2. CASE At(w, "ambient") \/ At(w, "authed")
      <4>1. PICK place \in {"ambient", "authed"} : At(w, place)
        BY <3>2
      <4>2. place \in WorkerStages /\ place \notin Leased /\ place \notin {"lock", "login"} /\ place # "accepted"
        BY DEF WorkerStages, Leased
      <4> QED
        BY <4>1, <4>2, PlacedAway DEF At
    <3> QED
      BY <2>1, <3>1, <3>2
  <2>3. Drops(w)
    BY <1>1, <2>1 DEF Drops, Leased
  <2> QED
    BY <1>1, <2>2, <2>3, PlainSteps
<1> QED
  BY <1>2, <1>3

\* The server refuses no token that a file has.
LEMMA RefreshFailsSteps ==
  ASSUME StoreOK, SavedTokenIsLive, NEW w \in Workers, RefreshFails(w)
  PROVE  Steps(w)
<1>0. StoreTypes /\ LeaseOK /\ ReadOK
  BY DEF StoreOK
<1>1. Away(w, Idle) /\ Idle.at # "accepted" /\ Idle \in WorkerRecord
  BY EndedAway, IdleType DEF RefreshFails
<1>2. /\ worker[w].at = "expired" /\ Release(w)
      /\ rejected' = (rejected \/ worker[w].cred.refresh \notin live)
      /\ UNCHANGED <<file, live, stale, next, uses, losses>>
  BY DEF RefreshFails, bounds
<1> DEFINE on == worker[w].on
<1>3. on \in Providers /\ worker[w].cred = file[on] /\ file[on] # None /\ holder[on] = w
  BY <1>0, <1>2, WorkerTypes DEF ReadOK, LeaseOK, Leased
<1>4. ASSUME losses = 0
      PROVE  ~rejected'
  <2>1. /\ ~rejected
        /\ file[on].refresh \in live \/ \E v \in Workers : holder[on] = v /\ worker[v].at = "answered"
    BY <1>3, <1>4 DEF SavedTokenIsLive
  <2>2. file[on].refresh \in live
    BY <1>2, <1>3, <2>1
  <2> QED
    BY <1>2, <1>3, <2>1, <2>2
<1>5. holder' = Without(w)
  BY <1>2, DropsOK DEF Drops, Leased
<1>6. uses' \in 0 .. MaxUses /\ losses' \in 0 .. MaxLosses
  BY <1>2, BoundsOK
<1>7. losses' = 0 => losses = 0 /\ worker[w].at # "answered" /\ ~rejected'
  BY <1>2, <1>4
<1> QED
  BY <1>1, <1>2, <1>5, <1>6, <1>7, AwaySteps

LEMMA FetchedSteps ==
  ASSUME StoreOK, SavedTokenIsLive, NEW w \in Workers,
         NEW models \in Catalogs, Fetched(w, models)
  PROVE  Steps(w)
<1>1. /\ worker[w].at = "authed"
      /\ UNCHANGED <<file, holder, live, stale, next, rejected, uses, losses>>
  BY DEF Fetched, server, bounds
<1>2. PICK r \in WorkerRecord : Away(w, r) /\ r.at # "accepted"
  <2>1. CASE Usable(models)
    <3> DEFINE r == [worker[w] EXCEPT !.at = "fetched", !.catalog = models]
    <3>1. worker[w] \in WorkerRecord /\ worker \in [Workers -> WorkerRecord]
      BY WorkerTypes DEF StoreOK, StoreTypes
    <3>2. worker' = [worker EXCEPT ![w].at = "fetched", ![w].catalog = models]
      BY <2>1 DEF Fetched
    <3>3. worker' = [worker EXCEPT ![w] = r]
      BY <3>1, <3>2 DEF WorkerRecord
    <3>4. r \in WorkerRecord /\ r.at = "fetched" /\ r.cred = worker[w].cred
      BY <3>1 DEF WorkerRecord, WorkerStages
    <3> HIDE DEF r
    <3> QED
      BY <3>3, <3>4 DEF Away, Leased, Holds
  <2>2. CASE ~Usable(models)
    <3>1. Ended(w)
      BY <2>2 DEF Fetched
    <3> QED
      BY <3>1, EndedAway, IdleType
  <2> QED
    BY <2>1, <2>2
<1>3. Drops(w)
  BY <1>1 DEF Drops, Leased
<1> QED
  BY <1>1, <1>2, <1>3, PlainSteps

\* A worker that writes.
LEMMA WriteSteps ==
  ASSUME StoreOK, SavedTokenIsLive, NEW w \in Workers,
         NEW r \in WorkerRecord, Away(w, r), r.at # "accepted",
         worker[w].at \in Leased, Release(w),
         NEW c, c = None \/ (Holds(worker[w]) /\ c = worker[w].cred),
         file' = [file EXCEPT ![worker[w].on] = c],
         UNCHANGED <<live, stale, next, rejected, uses, losses>>
  PROVE  Steps(w)
<1>1. holder' = Without(w)
  BY DropsOK DEF Drops
<1>2. StoreOK' /\ SavedTokenIsLive'
  BY <1>1, WritesOK DEF Away
<1>3. worker'[w] = r /\ \A v \in Workers : v # w => worker'[v] = worker[v]
  BY Moves DEF Away, StoreOK
<1> QED
  BY <1>2, <1>3 DEF Steps

LEMMA LogoutSteps ==
  ASSUME StoreOK, SavedTokenIsLive, NEW w \in Workers, Logout(w)
  PROVE  Steps(w)
<1>1. PICK r \in WorkerRecord : Away(w, r) /\ r.at # "accepted"
  BY FailedAway DEF Logout
<1>2. /\ worker[w].at \in Leased /\ Release(w)
      /\ file' = [file EXCEPT ![worker[w].on] = None]
      /\ UNCHANGED <<live, stale, next, rejected, uses, losses>>
  BY DEF Logout, server, bounds, Leased
<1> QED
  BY <1>1, <1>2, WriteSteps

LEMMA SaveLoginSteps ==
  ASSUME StoreOK, SavedTokenIsLive, NEW w \in Workers, SaveLogin(w)
  PROVE  Steps(w)
<1> DEFINE q == [Idle EXCEPT !.op = "refresh", !.on = "vercel", !.at = "lock"]
           r == IF w \in Here /\ worker[w].on = "vercel" THEN q ELSE Idle
<1>1. q \in WorkerRecord /\ q.at = "lock" /\ q.op = "refresh" /\ q.cred = None
  BY IdleType DEF Idle, WorkerRecord, WorkerStages, Providers
<1>2. worker' = [worker EXCEPT ![w] = r]
  BY DEF SaveLogin, StoreOK, StoreTypes
<1>3. r \in WorkerRecord /\ Away(w, r) /\ r.at # "accepted"
  <2> HIDE DEF q
  <2>1. r = q \/ r = Idle
    OBVIOUS
  <2> HIDE DEF r
  <2> QED
    BY <1>1, <1>2, <2>1, IdleType DEF Away, Leased, Holds
<1> HIDE DEF r
<1>4. /\ worker[w].at \in Leased /\ Release(w) /\ Holds(worker[w])
      /\ file' = [file EXCEPT ![worker[w].on] = worker[w].cred]
      /\ UNCHANGED <<live, stale, next, rejected, uses, losses>>
  BY DEF SaveLogin, Replace, server, bounds, Leased, Holds
<1> QED
  BY <1>3, <1>4, WriteSteps

LEMMA SaveRefreshedSteps ==
  ASSUME StoreOK, SavedTokenIsLive, NEW w \in Workers, SaveRefreshed(w)
  PROVE  Steps(w)
<1>1. PICK r \in WorkerRecord : Away(w, r) /\ r.at # "accepted"
  <2>1. CASE Ended(w)
    BY <2>1, EndedAway, IdleType
  <2>2. CASE At(w, "authed")
    <3>1. "authed" \in WorkerStages /\ "authed" \notin Leased
      BY DEF WorkerStages, Leased
    <3> QED
      BY <2>2, <3>1, PlacedAway DEF At
  <2> QED
    BY <2>1, <2>2 DEF SaveRefreshed
<1>2. /\ worker[w].at \in Leased /\ Release(w) /\ Holds(worker[w])
      /\ file' = [file EXCEPT ![worker[w].on] = worker[w].cred]
      /\ UNCHANGED <<live, stale, next, rejected, uses, losses>>
  BY DEF SaveRefreshed, Replace, server, bounds, Leased, Holds
<1> QED
  BY <1>1, <1>2, WriteSteps

\* Acquire, the two logins and the answer of the server.
LEMMA TokenSteps ==
  ASSUME StoreOK, SavedTokenIsLive, NEW w \in Workers,
         Acquire(w) \/ BrowserLogin(w) \/ DeviceLogin(w) \/ Refreshed(w)
  PROVE  Steps(w)
<1>1. CASE Acquire(w)
  BY <1>1, AcquireOK DEF Steps
<1>2. CASE BrowserLogin(w) \/ DeviceLogin(w)
  <2>1. worker[w].at = "login" /\ Issue(w)
    BY <1>2 DEF BrowserLogin, DeviceLogin
  <2>2. /\ StoreOK' /\ SavedTokenIsLive' /\ worker'[w].at = "lock"
        /\ \A v \in Workers : v # w => worker'[v] = worker[v]
    BY <2>1, IssueOK
  <2> QED
    BY <2>2 DEF Steps
<1>3. CASE Refreshed(w)
  BY <1>3, RefreshedOK DEF Steps
<1> QED
  BY <1>1, <1>2, <1>3

LEMMA AcceptOK ==
  ASSUME StoreOK, SavedTokenIsLive, RegistryOK,
         NEW w \in Workers, Accept(w)
  PROVE  StoreOK' /\ SavedTokenIsLive' /\ RegistryOK'
<1>1. /\ worker[w].at = "fetched" /\ At(w, "accepted")
      /\ accepted' = accepted \cup worker[w].catalog
      /\ UNCHANGED <<file, holder, live, stale, next, rejected, listed, uses, losses>>
  BY DEF Accept, server, bounds
<1>2. PICK r \in WorkerRecord : Away(w, r) /\ r.at = "accepted" /\ r = [worker[w] EXCEPT !.at = "accepted"]
  <2> DEFINE r == [worker[w] EXCEPT !.at = "accepted"]
  <2>1. "accepted" \in WorkerStages
    BY DEF WorkerStages
  <2>2. r \in WorkerRecord /\ r.at = "accepted" /\ r.cred = worker[w].cred
    BY <2>1, Placed DEF StoreOK
  <2>3. worker' = [worker EXCEPT ![w] = r]
    BY <1>1 DEF At
  <2>4. Away(w, r)
    <3> HIDE DEF r
    <3> QED
      BY <2>2, <2>3 DEF Away, Leased, Holds
  <2> QED
    BY <2>2, <2>4
<1>3. Drops(w)
  BY <1>1 DEF Drops, Leased
<1>4. holder' = Without(w)
  BY <1>3, DropsOK
<1>5. losses' = 0 => losses = 0 /\ worker[w].at # "answered" /\ ~rejected'
  BY <1>1 DEF SavedTokenIsLive
<1>6. uses' \in 0 .. MaxUses /\ losses' \in 0 .. MaxLosses
  BY <1>1, BoundsOK
<1>7. StoreOK' /\ SavedTokenIsLive'
  BY <1>1, <1>2, <1>4, <1>5, <1>6, LeavesOK DEF Away
<1>8. worker'[w] = r /\ \A v \in Workers : v # w => worker'[v] = worker[v]
  BY <1>2, Moves DEF Away, StoreOK
<1>9. r.catalog = worker[w].catalog
  BY <1>2, WorkerTypes DEF WorkerRecord, StoreOK
<1>10. RegistryOK'
  BY <1>1, <1>8, <1>9 DEF RegistryOK
<1> QED
  BY <1>7, <1>10

-----------------------------------------------------------------------------
(* The registry, and the invariant.                                        *)

\* A worker that has not accepted a catalog leaves the registry as it was.
LEMMA RegistryKept ==
  ASSUME RegistryOK, NEW w \in Workers, Steps(w), UNCHANGED registry
  PROVE  RegistryOK'
BY DEF RegistryOK, Steps, registry

\* The default model is in every catalog the registry lists.
LEMMA ListOK ==
  ASSUME StoreOK, SavedTokenIsLive, RegistryOK,
         NEW w \in Workers, List(w)
  PROVE  Steps(w) /\ RegistryOK'
<1>1. Steps(w)
  BY EndsSteps
<1>2. /\ worker[w].at = "accepted" /\ UNCHANGED accepted
      /\ listed' = IF Default \in worker[w].catalog THEN worker[w].catalog ELSE listed
  BY DEF List
<1> QED
  BY <1>1, <1>2 DEF RegistryOK, Steps

LEMMA Initially ==
  ASSUME CredentialsInit
  PROVE  CredentialsInv
<1>1. Token = 0 .. MaxTokens + 1 /\ {0, 1, 2, 3} \subseteq Token
  BY CredentialsAssumption DEF Token
<1> DEFINE one == [access |-> 1, refresh |-> 1]
           two == [access |-> 2, refresh |-> 2]
<1>2. /\ one \in Credential /\ two \in Credential /\ one.refresh = 1 /\ two.refresh = 2
      /\ one # None /\ two # None
  BY <1>1 DEF Credential, None
<1>3. file \in [Providers -> Credential] /\ file["codex"] = one /\ file["vercel"] = two
  <2> HIDE DEF one, two
  <2>1. file = [p \in Providers |-> IF p = "codex" THEN one ELSE two]
    BY DEF CredentialsInit, one, two
  <2> QED
    BY <1>2, <2>1 DEF Providers
<1> HIDE DEF one, two
<1>4. \A p \in Providers : p = "codex" \/ p = "vercel"
  BY DEF Providers
<1>5. /\ worker \in [Workers -> WorkerRecord] /\ \A w \in Workers : worker[w] = Idle
  BY IdleType DEF CredentialsInit
<1>6. /\ holder \in [Providers -> Workers \cup {Nobody}]
      /\ \A p \in Providers : holder[p] = Nobody /\ Nobody \notin Workers
  BY CredentialsAssumption DEF CredentialsInit
<1>7. /\ live = {1, 2} /\ stale = {} /\ next = 3 /\ ~rejected
      /\ listed = BuiltIn /\ accepted = BuiltIn /\ uses = 0 /\ losses = 0
  BY DEF CredentialsInit, Registered
<1>8. StoreTypes
  <2>1. uses \in 0 .. MaxUses /\ losses \in 0 .. MaxLosses
    BY <1>7, CredentialsAssumption
  <2> QED
    BY <1>1, <1>3, <1>5, <1>6, <1>7, <2>1 DEF StoreTypes
<1>9. LeaseOK /\ ReadOK
  BY <1>5, <1>6, IdleType DEF LeaseOK, ReadOK, Leased
<1>10. FreshOK
  BY <1>2, <1>3, <1>4, <1>5, <1>7, IdleType DEF FreshOK
<1>11. PlaceOK
  <2>1. \A w \in Workers : ~Holds(worker[w])
    BY <1>5, IdleType DEF Holds
  <2>2. /\ \A p \in Providers : file[p].refresh # 0
        /\ \A p, q \in Providers : p # q => file[p].refresh # file[q].refresh
    BY <1>2, <1>3, <1>4
  <2> QED
    BY <2>1, <2>2 DEF PlaceOK
<1>12. SavedTokenIsLive
  BY <1>2, <1>3, <1>4, <1>7 DEF SavedTokenIsLive
<1>13. RegistryOK
  BY <1>5, <1>7, IdleType, CredentialsAssumption DEF RegistryOK
<1> QED
  BY <1>8, <1>9, <1>10, <1>11, <1>12, <1>13 DEF CredentialsInv, StoreOK

\* What a step other than Accept and List is.
LEMMA StoreQuiet ==
  ASSUME StoreOK, SavedTokenIsLive, NEW w \in Workers,
         \/ \E p \in Providers : Begin(w, "gateway", p) \/ Begin(w, "login", p)
         \/ Begin(w, "logout", "codex") \/ Begin(w, "refresh", "vercel")
         \/ (Step(w) /\ ~Accept(w) /\ ~List(w))
         \/ StoreFails(w) \/ RefreshedLost(w) \/ Killed(w)
  PROVE  Steps(w) /\ UNCHANGED registry
<1>1. CASE \/ \E p \in Providers : Begin(w, "gateway", p) \/ Begin(w, "login", p)
           \/ Begin(w, "logout", "codex") \/ Begin(w, "refresh", "vercel")
  <2>1. PICK op \in {"login", "logout", "gateway", "refresh"}, p \in Providers : Begin(w, op, p)
    BY <1>1 DEF Providers
  <2> QED
    BY <2>1, BeginSteps DEF Begin
<1>2. CASE Acquire(w) \/ BrowserLogin(w) \/ DeviceLogin(w) \/ Refreshed(w)
  BY <1>2, TokenSteps DEF Acquire, BrowserLogin, DeviceLogin, Issue, Refreshed, registry
<1>3. CASE LockTimeout(w)
  BY <1>3, LockTimeoutSteps DEF LockTimeout
<1>4. CASE Logout(w)
  BY <1>4, LogoutSteps DEF Logout
<1>5. CASE CallbackFails(w) \/ DeviceFails(w) \/ Ambient(w)
  BY <1>5, EndsSteps DEF CallbackFails, DeviceFails, LoginFails, Ambient
<1>6. CASE SaveLogin(w)
  BY <1>6, SaveLoginSteps DEF SaveLogin
<1>7. CASE Resolve(w)
  BY <1>7, ResolveSteps DEF Resolve
<1>8. CASE RefreshFails(w)
  BY <1>8, RefreshFailsSteps DEF RefreshFails
<1>9. CASE SaveRefreshed(w)
  BY <1>9, SaveRefreshedSteps DEF SaveRefreshed
<1>10. CASE \E models \in Catalogs : Fetched(w, models)
  BY <1>10, FetchedSteps DEF Fetched
<1>11. CASE StoreFails(w) \/ RefreshedLost(w)
  BY <1>11, StoreFailsSteps DEF StoreFails, RefreshedLost
<1>12. CASE Killed(w)
  BY <1>12, KilledSteps DEF Killed
<1> QED
  BY <1>1, <1>2, <1>3, <1>4, <1>5, <1>6, <1>7, <1>8, <1>9, <1>10, <1>11, <1>12 DEF Step

LEMMA Preserved ==
  ASSUME CredentialsInv, [CredentialsNext]_credentialVars
  PROVE  CredentialsInv'
<1>0. StoreOK /\ SavedTokenIsLive /\ RegistryOK
  BY DEF CredentialsInv
<1>1. CASE UNCHANGED credentialVars
  BY <1>0, <1>1 DEF CredentialsInv, StoreOK, StoreTypes, LeaseOK, ReadOK, FreshOK, PlaceOK, SavedTokenIsLive,
       RegistryOK, credentialVars
<1>2. CASE \E p \in Providers : Expire(p)
  <2>1. PICK p \in Providers : Expire(p)
    BY <1>2
  <2>2. StoreOK' /\ SavedTokenIsLive' /\ UNCHANGED worker
    BY <1>0, <2>1, ExpireOK
  <2>3. RegistryOK'
    BY <1>0, <2>1, <2>2 DEF RegistryOK, Expire, registry
  <2> QED
    BY <2>2, <2>3 DEF CredentialsInv
<1>3. ASSUME NEW w \in Workers, Accept(w)
      PROVE  CredentialsInv'
  BY <1>0, <1>3, AcceptOK DEF CredentialsInv
<1>4. ASSUME NEW w \in Workers, List(w)
      PROVE  CredentialsInv'
  BY <1>0, <1>4, ListOK DEF CredentialsInv, Steps
<1>5. ASSUME NEW w \in Workers,
             \/ \E p \in Providers : Begin(w, "gateway", p) \/ Begin(w, "login", p)
             \/ Begin(w, "logout", "codex") \/ Begin(w, "refresh", "vercel")
             \/ (Step(w) /\ ~Accept(w) /\ ~List(w))
             \/ StoreFails(w) \/ RefreshedLost(w) \/ Killed(w)
      PROVE  CredentialsInv'
  <2>1. Steps(w) /\ UNCHANGED registry
    BY <1>0, <1>5, StoreQuiet
  <2> QED
    BY <1>0, <2>1, RegistryKept DEF CredentialsInv, Steps
<1> QED
  BY <1>1, <1>2, <1>3, <1>4, <1>5 DEF CredentialsNext, Step

LEMMA Invariance == CredentialsSpec => []CredentialsInv
<1>1. CredentialsInit => CredentialsInv
  BY Initially
<1>2. CredentialsInv /\ [CredentialsNext]_credentialVars => CredentialsInv'
  BY Preserved
<1> QED
  BY <1>1, <1>2, PTL DEF CredentialsSpec

-----------------------------------------------------------------------------
(* The theorems.                                                           *)

\* The store, the workers and the registry have their types in every reachable state,
\* and a lease is held by the worker that is in it.
THEOREM StoreTyped == CredentialsSpec => []CredentialsTypeOK
<1>1. ASSUME CredentialsInv
      PROVE  CredentialsTypeOK
  <2>1. StoreTypes /\ LeaseOK
    BY <1>1 DEF CredentialsInv, StoreOK
  <2>2. \A w \in Workers :
          /\ worker[w].at \in WorkerStages /\ worker[w].on \in Providers /\ worker[w].cred \in Credential
          /\ worker[w].at \in Leased => holder[worker[w].on] = w
    BY <2>1, WorkerTypes DEF LeaseOK
  <2>3. \A w \in Workers : worker[w].at \in {"held", "expired", "answered"} => holder[worker[w].on] = w
    BY <2>2 DEF Leased
  <2> QED
    BY <2>1, <2>2, <2>3 DEF CredentialsTypeOK, StoreTypes, WorkerStages
<1> QED
  BY <1>1, Invariance, PTL

\* The saved refresh token of a provider is one that the server takes, or the worker with
\* the lease has its successor, however many processes log in, log out, refresh and die:
\* the tokens are in one place each (PlaceOK), and the worker that refreshes has read the
\* file under the lease (ReadOK).
THEOREM TokensAreLive == CredentialsSpec => []SavedTokenIsLive
<1>1. CredentialsInv => SavedTokenIsLive
  BY DEF CredentialsInv
<1> QED
  BY <1>1, Invariance, PTL

\* What replace_provider_models lists is a subset of what the provider accepts, with the
\* default model in it, through refreshes that overtake each other.
THEOREM ListedCanBeUsed == CredentialsSpec => []ListedIsAccepted
<1>1. CredentialsInv => ListedIsAccepted
  BY DEF CredentialsInv, RegistryOK, ListedIsAccepted
<1> QED
  BY <1>1, Invariance, PTL

\* resolve_auth saves the tokens of a refresh over the expired credential that it has
\* read, never over a later login and never where a logout left none.
THEOREM RefreshesReplaceTheirOwn == CredentialsSpec => RefreshReplacesItsOwn
<1> DEFINE Own == \A w \in Workers :
                    worker[w].at = "answered" /\ file'[worker[w].on] # file[worker[w].on]
                      /\ file'[worker[w].on] = worker[w].cred
                      => file[worker[w].on] # None /\ file[worker[w].on].access \in stale
<1>1. CredentialsInv /\ [CredentialsNext]_credentialVars => [Own]_credentialVars
  BY DEF CredentialsInv, StoreOK, ReadOK
<1> QED
  BY <1>1, Invariance, PTL DEF CredentialsSpec, RefreshReplacesItsOwn

-----------------------------------------------------------------------------
(* McpClient.                                                              *)

Listed == UNION {ToSet(page) : page \in McpPages}
McpStages == {"start", "list", "register", "registered", "ready", "failed"}
McpTypes ==
  /\ turn \in 0 .. Len(McpServers) /\ stage \in McpStages
  /\ stage \in {"start", "list", "register", "registered"} => turn < Len(McpServers)
  /\ stage = "ready" => turn = Len(McpServers)
  /\ offered \in [ToSet(McpServers) -> SUBSET Listed] /\ listing \in Seq(Listed)
  /\ services \subseteq ToSet(McpServers)

\* The servers that have been dealt with: each runs or is warned of.
Dealt == {McpServers[k] : k \in 1 .. turn}
DealtOK ==
  /\ stage # "failed" => services \cup warned = Dealt /\ Required \cap Dealt \subseteq services
  /\ services \cap warned = {} /\ (features \subseteq services \/ stage = "failed")

\* A tool has a name, or is still to be registered; a server at whose turn we are not yet
\* has listed nothing.
Named(s, tool) == \E n \in DOMAIN mcpTools : mcpTools[n] = [server |-> s, tool |-> tool.name]
NamedOK ==
  /\ \A s \in services : \A tool \in offered[s] : Named(s, tool)
  /\ stage = "register" => \A tool \in offered[current] : Named(current, tool) \/ tool \in ToSet(listing)
  /\ \A k \in turn + 1 .. Len(McpServers) :
       k # turn + 1 \/ stage # "register" => offered[McpServers[k]] = {}

\* The names are no more than the servers may have listed so far.
Room(n) == n * MaxListed
RoomOK ==
  /\ IsFiniteSet(DOMAIN mcpTools) /\ Len(listing) <= MaxListed
  /\ stage = "start" => listing = <<>>
  /\ IF stage = "register" THEN Cardinality(DOMAIN mcpTools) + Len(listing) <= Room(turn + 1)
     ELSE Cardinality(DOMAIN mcpTools) <= Room(turn)

McpInv == McpTypes /\ DealtOK /\ NamedOK /\ RoomOK
McpSpec == McpInit /\ [][McpNext]_mcpVars

-----------------------------------------------------------------------------
LEMMA ServersInTurn ==
  ASSUME NEW n \in 0 .. Len(McpServers)
  PROVE  /\ Len(McpServers) \in Nat /\ DOMAIN McpServers = 1 .. Len(McpServers)
         /\ \A k \in 1 .. Len(McpServers) : McpServers[k] \in ToSet(McpServers)
         /\ \A j, k \in 1 .. Len(McpServers) : McpServers[j] = McpServers[k] => j = k
         /\ Len(McpServers) > 0
<1>1. McpServers \in Seq(ToSet(McpServers)) /\ McpServers # <<>> /\ IsInjective(McpServers)
  BY McpAssumption DEF McpAssumption
<1>2. Len(McpServers) \in Nat /\ DOMAIN McpServers = 1 .. Len(McpServers)
  BY <1>1, LenProperties
<1>3. Len(McpServers) # 0
  BY <1>1, EmptySeq
<1> QED
  BY <1>1, <1>2, <1>3 DEF IsInjective, ToSet

LEMMA Rooms ==
  ASSUME NEW n \in Nat
  PROVE  Room(n) \in Nat /\ Room(n + 1) = Room(n) + MaxListed
<1>1. MaxListed \in Nat
  BY McpAssumption DEF McpAssumption
<1>2. \A a, b \in Nat : a * b \in Nat /\ (a + 1) * b = a * b + b
  OBVIOUS
<1> QED
  BY <1>1, <1>2 DEF Room

LEMMA RoomsGrow ==
  ASSUME NEW n \in Nat, NEW m \in Nat, n <= m
  PROVE  Room(n) <= Room(m)
<1>1. MaxListed \in Nat
  BY McpAssumption DEF McpAssumption
<1>2. PICK d \in Nat : m = n + d
  <2>1. m - n \in Nat /\ m = n + (m - n)
    OBVIOUS
  <2> QED
    BY <2>1
<1>3. \A a, b, c \in Nat : (a + b) * c = a * c + b * c /\ a * c \in Nat /\ b * c \in Nat
  OBVIOUS
<1>4. (n + d) * MaxListed = n * MaxListed + d * MaxListed /\ n * MaxListed \in Nat /\ d * MaxListed \in Nat
  BY <1>1, <1>3
<1> QED
  BY <1>2, <1>4 DEF Room

\* What is known at the turn of a server.
LEMMA AtTurn ==
  ASSUME McpInv, stage \in {"start", "list", "register", "registered"}
  PROVE  /\ turn \in Nat /\ turn + 1 \in 1 .. Len(McpServers) /\ current \in ToSet(McpServers)
         /\ current \notin Dealt /\ services \cup warned = Dealt
         /\ \A k \in turn + 2 .. Len(McpServers) : McpServers[k] # current
<1>1. turn \in Nat /\ turn < Len(McpServers) /\ turn \in 0 .. Len(McpServers)
  BY DEF McpInv, McpTypes
<1>2. Len(McpServers) \in Nat
  BY <1>1, ServersInTurn
<1>3. turn + 1 \in 1 .. Len(McpServers)
  BY <1>1, <1>2
<1>4. \A k \in 1 .. turn : k \in 1 .. Len(McpServers) /\ k # turn + 1
  BY <1>1, <1>2
<1>5. current \notin Dealt
  BY <1>1, <1>3, <1>4, ServersInTurn DEF Dealt, current
<1>6. \A k \in turn + 2 .. Len(McpServers) : McpServers[k] # current
  <2>1. \A k \in turn + 2 .. Len(McpServers) : k \in 1 .. Len(McpServers) /\ k # turn + 1
    BY <1>1, <1>2
  <2> QED
    BY <1>1, <1>3, <2>1, ServersInTurn DEF current
<1>7. services \cup warned = Dealt
  BY DEF McpInv, DealtOK
<1> QED
  BY <1>1, <1>3, <1>5, <1>6, <1>7, ServersInTurn DEF current

\* The turn goes to the next server, or all have had theirs.
LEMMA TurnPasses ==
  ASSUME McpInv, stage \in {"start", "list", "register", "registered"},
         turn' = turn + 1, stage' \in {Advance, "failed"}, listing' = <<>>, UNCHANGED <<mcpTools, offered>>,
         services' \subseteq services \cup {current},
         stage' = "failed" => services' = {},
         stage' # "failed" =>
           services' \cup warned' = Dealt \cup {current} /\ services \subseteq services',
         stage' # "failed" /\ current \in Required => current \in services',
         services' \cap warned' = {}, features' \subseteq services' \/ stage' = "failed",
         \A tool \in offered[current] : current \in services' => Named(current, tool)
  PROVE  McpInv'
<1>1. /\ turn \in Nat /\ turn + 1 \in 1 .. Len(McpServers) /\ current \in ToSet(McpServers)
      /\ current \notin Dealt /\ McpTypes /\ DealtOK /\ NamedOK /\ RoomOK
  BY AtTurn DEF McpInv
<1>2. Len(McpServers) \in Nat
  BY <1>1, ServersInTurn DEF McpTypes
<1>3. stage' \in McpStages /\ stage' \in {"start", "ready", "failed"}
      /\ (stage' = "ready" => turn + 1 = Len(McpServers)) /\ (stage' = "start" => turn + 1 < Len(McpServers))
  BY <1>1, <1>2 DEF Advance, McpStages
<1>4. McpTypes'
  <2>1. <<>> \in Seq(Listed) /\ services' \subseteq ToSet(McpServers)
    BY <1>1 DEF McpTypes
  <2> QED
    BY <1>1, <1>2, <1>3, <2>1 DEF McpTypes, Listed
<1>5. DealtOK'
  <2>1. Dealt' = Dealt \cup {current}
    <3>1. 1 .. turn + 1 = (1 .. turn) \cup {turn + 1}
      BY <1>1
    <3> QED
      BY <3>1 DEF Dealt, current
  <2>2. stage # "failed"
    OBVIOUS
  <2>3. stage' # "failed" => Required \cap (Dealt \cup {current}) \subseteq services'
    BY <1>1, <2>2 DEF DealtOK
  <2> QED
    BY <2>1, <2>3 DEF DealtOK
<1>6. NamedOK'
  <2>1. \A s : \A tool : Named(s, tool) => Named(s, tool)'
    BY DEF Named
  <2>2. ASSUME NEW s \in services', NEW tool \in offered[s]
        PROVE  Named(s, tool)
    BY <1>1, <2>2 DEF NamedOK
  <2>3. ASSUME NEW k \in turn + 2 .. Len(McpServers)
        PROVE  offered[McpServers[k]] = {}
    BY <1>1, <1>2 DEF NamedOK
  <2>4. turn' + 1 = turn + 2
    BY <1>1
  <2>5. stage' # "register"
    BY <1>3
  <2> QED
    BY <2>1, <2>2, <2>3, <2>4, <2>5 DEF NamedOK
<1>7. RoomOK'
  <2>1. IsFiniteSet(DOMAIN mcpTools) /\ Cardinality(DOMAIN mcpTools) \in Nat /\ Len(listing) \in Nat
    BY <1>1, FS_CardinalityType, LenProperties DEF RoomOK, McpTypes
  <2>2. Room(turn) \in Nat /\ Room(turn + 1) = Room(turn) + MaxListed /\ MaxListed \in Nat
    BY <1>1, Rooms, McpAssumption DEF McpAssumption
  <2>3. Cardinality(DOMAIN mcpTools) <= Room(turn + 1)
    BY <1>1, <2>1, <2>2 DEF RoomOK
  <2>4. Len(<<>>) = 0
    OBVIOUS
  <2> QED
    BY <1>3, <2>1, <2>2, <2>3, <2>4 DEF RoomOK
<1> QED
  BY <1>4, <1>5, <1>6, <1>7 DEF McpInv

LEMMA UnavailableKeeps ==
  ASSUME McpInv, stage \in {"start", "list", "register"}, Unavailable
  PROVE  McpInv'
<1>1. current \notin Dealt /\ services \cup warned = Dealt /\ DealtOK
  BY AtTurn DEF McpInv
<1>2. turn' = turn + 1 /\ listing' = <<>> /\ UNCHANGED <<mcpTools, offered, features>>
  BY DEF Unavailable
<1>3. CASE current \in Required
  <2>1. stage' = "failed" /\ services' = {}
    BY <1>3 DEF Unavailable
  <2> QED
    BY <1>2, <2>1, TurnPasses
<1>4. CASE current \notin Required
  <2>1. stage' = Advance /\ warned' = warned \cup {current} /\ services' = services
    BY <1>4 DEF Unavailable
  <2>2. Advance # "failed"
    BY DEF Advance
  <2>3. services' \cap warned' = {} /\ features' \subseteq services' /\ current \notin services'
    BY <1>1, <1>2, <2>1 DEF DealtOK
  <2> QED
    BY <1>1, <1>2, <1>4, <2>1, <2>2, <2>3, TurnPasses
<1> QED
  BY <1>3, <1>4

LEMMA ConnectedKeeps ==
  ASSUME McpInv, ServerReady
  PROVE  McpInv'
<1>1. stage \in {"register", "registered"} /\ Connected
  BY DEF ServerReady
<1>2. /\ current \notin Dealt /\ services \cup warned = Dealt /\ DealtOK /\ NamedOK /\ turn \in Nat
      /\ turn + 1 \in 1 .. Len(McpServers)
  BY <1>1, AtTurn DEF McpInv
<1>3. /\ turn' = turn + 1 /\ listing' = <<>> /\ UNCHANGED <<mcpTools, offered, warned>>
      /\ stage' = Advance /\ services' = services \cup {current} /\ features' \subseteq features \cup {current}
  BY <1>1 DEF Connected
<1>4. Advance # "failed"
  BY DEF Advance
<1>5. services' \cap warned' = {} /\ features' \subseteq services'
  BY <1>1, <1>2, <1>3 DEF DealtOK
<1>6. \A tool \in offered[current] : Named(current, tool)
  <2>1. CASE stage = "registered"
    <3>1. turn + 1 \in turn + 1 .. Len(McpServers)
      BY <1>2
    <3> QED
      BY <1>2, <2>1, <3>1 DEF NamedOK, current
  <2>2. CASE stage = "register" /\ listing = <<>>
    <3>1. ToSet(<<>>) = {}
      BY DEF ToSet
    <3> QED
      BY <1>2, <2>2, <3>1 DEF NamedOK
  <2> QED
    BY <2>1, <2>2 DEF ServerReady
<1> QED
  BY <1>1, <1>2, <1>3, <1>4, <1>5, <1>6, TurnPasses

LEMMA PageKeeps ==
  ASSUME McpInv, NEW page \in McpPages, NEW cursor, Page(page, cursor)
  PROVE  McpInv'
<1>1. stage = "list" /\ McpTypes /\ DealtOK /\ NamedOK /\ RoomOK
  BY DEF McpInv, Page
<1>2. /\ turn \in Nat /\ turn + 1 \in 1 .. Len(McpServers) /\ current \in ToSet(McpServers)
      /\ \A k \in turn + 2 .. Len(McpServers) : McpServers[k] # current /\ McpServers[k] \in ToSet(McpServers)
  <2>1. /\ turn \in Nat /\ turn + 1 \in 1 .. Len(McpServers) /\ current \in ToSet(McpServers)
        /\ \A k \in turn + 2 .. Len(McpServers) : McpServers[k] # current
    BY <1>1, AtTurn
  <2>2. \A k \in turn + 2 .. Len(McpServers) : k \in 1 .. Len(McpServers)
    BY <2>1
  <2>3. turn \in 0 .. Len(McpServers)
    BY <1>1 DEF McpTypes
  <2> QED
    BY <2>1, <2>2, <2>3, ServersInTurn
<1>3. page \in Seq(Listed) /\ ToSet(page) \subseteq Listed /\ listing \in Seq(Listed)
  BY <1>1, McpAssumption DEF McpAssumption, Listed, McpTypes
<1>4. /\ listing \o page \in Seq(Listed) /\ Len(listing \o page) = Len(listing) + Len(page)
      /\ Len(listing) \in Nat /\ Len(page) \in Nat
  BY <1>3, ConcatProperties, LenProperties
<1>5. CASE Len(listing) + Len(page) > MaxListed \/ cursor = "bad" \/ cursor \in seen
  BY <1>1, <1>5, UnavailableKeeps DEF Page
<1>6. CASE ~(Len(listing) + Len(page) > MaxListed \/ cursor = "bad" \/ cursor \in seen)
  <2>1. /\ listing' = listing \o page /\ stage' = (IF cursor = "none" THEN "register" ELSE "list")
        /\ offered' = (IF cursor = "none" THEN [offered EXCEPT ![current] = ToSet(listing')] ELSE offered)
        /\ UNCHANGED <<turn, mcpTools, services, warned, features>>
    BY <1>6 DEF Page
  <2>2. Len(listing') <= MaxListed /\ listing' \in Seq(Listed)
    <3>1. MaxListed \in Nat
      BY McpAssumption DEF McpAssumption
    <3> QED
      BY <1>4, <1>6, <2>1, <3>1
  <2>3. ToSet(listing') \subseteq Listed
    BY <2>2, ElementOfSeq, LenProperties DEF ToSet
  <2>4. stage' \in {"register", "list"} /\ (stage' = "register" <=> cursor = "none")
    BY <2>1
  <2>5. /\ offered' \in [ToSet(McpServers) -> SUBSET Listed]
        /\ cursor = "none" => offered'[current] = ToSet(listing')
        /\ \A s \in ToSet(McpServers) : s # current => offered'[s] = offered[s]
        /\ cursor # "none" => offered' = offered
    BY <1>1, <1>2, <2>1, <2>3 DEF McpTypes
  <2> HIDE DEF current
  <2>6. McpTypes'
    BY <1>1, <2>1, <2>2, <2>4, <2>5 DEF McpTypes, McpStages, Listed
  <2>7. DealtOK' /\ current' = current
    BY <1>1, <2>1, <2>4 DEF DealtOK, Dealt, current
  <2>8. NamedOK'
    <3>1. \A s : \A tool : Named(s, tool) => Named(s, tool)'
      BY <2>1 DEF Named
    <3>2. current \notin services
      BY <1>1, AtTurn
    <3>3. \A s \in services' : \A tool \in offered'[s] : Named(s, tool)'
      BY <1>1, <2>1, <2>5, <3>1, <3>2 DEF NamedOK, McpTypes
    <3>4. stage' = "register" => \A tool \in offered'[current] : tool \in ToSet(listing')
      BY <2>4, <2>5
    <3>5. ASSUME NEW k \in turn + 1 .. Len(McpServers), k # turn + 1 \/ stage' # "register"
          PROVE  offered'[McpServers[k]] = {}
      <4>1. offered[McpServers[k]] = {}
        BY <1>1 DEF NamedOK
      <4>2. CASE k = turn + 1
        BY <2>4, <2>5, <3>5, <4>1, <4>2
      <4>3. CASE k # turn + 1
        <5>1. k \in turn + 2 .. Len(McpServers)
          BY <1>2, <4>3
        <5> QED
          BY <1>2, <2>5, <4>1, <5>1
      <4> QED
        BY <4>2, <4>3
    <3>6. turn' = turn
      BY <2>1
    <3> QED
      BY <2>7, <3>3, <3>4, <3>5, <3>6 DEF NamedOK
  <2>9. RoomOK'
    <3>1. Cardinality(DOMAIN mcpTools) \in Nat /\ IsFiniteSet(DOMAIN mcpTools) /\ MaxListed \in Nat
      BY <1>1, FS_CardinalityType, McpAssumption DEF RoomOK, McpAssumption
    <3>2. Room(turn + 1) = Room(turn) + MaxListed /\ Room(turn) \in Nat /\ Cardinality(DOMAIN mcpTools) <= Room(turn)
      BY <1>1, <1>2, Rooms DEF RoomOK
    <3>3. Len(listing') \in Nat /\ turn' = turn /\ mcpTools' = mcpTools
      BY <1>4, <2>1
    <3> QED
      BY <2>2, <2>4, <3>1, <3>2, <3>3 DEF RoomOK
  <2> QED
    BY <2>6, <2>7, <2>8, <2>9 DEF McpInv
<1> QED
  BY <1>5, <1>6

\* There is a suffix that is not taken: the names are fewer than the suffixes.
LEMMA SuffixIsFree ==
  ASSUME McpInv, stage = "register", listing # <<>>, NEW tool
  PROVE  Allocate(tool) \notin DOMAIN mcpTools
<1> DEFINE base == McpBase(current, tool)
           many == Len(McpServers) * MaxListed + 1
           free == {k \in 1 .. many : <<base, k>> \notin DOMAIN mcpTools}
<1>1. /\ turn \in Nat /\ turn + 1 \in 1 .. Len(McpServers) /\ McpTypes /\ RoomOK
      /\ Len(McpServers) \in Nat
  <2>1. turn \in Nat /\ turn + 1 \in 1 .. Len(McpServers) /\ McpTypes /\ RoomOK
    BY AtTurn DEF McpInv
  <2> QED
    BY <2>1, ServersInTurn DEF McpTypes
<1>2. /\ Room(turn + 1) \in Nat /\ Room(Len(McpServers)) \in Nat /\ Room(turn + 1) <= Room(Len(McpServers))
  BY <1>1, Rooms, RoomsGrow
<1>3. many = Room(Len(McpServers)) + 1 /\ many \in Nat
  BY <1>2 DEF Room
<1>4. IsFiniteSet(DOMAIN mcpTools) /\ Cardinality(DOMAIN mcpTools) \in Nat
  BY <1>1, FS_CardinalityType DEF RoomOK
<1>5. Cardinality(DOMAIN mcpTools) < many
  <2>1. Len(listing) \in Nat
    BY <1>1, LenProperties DEF McpTypes
  <2>2. Cardinality(DOMAIN mcpTools) + Len(listing) <= Room(turn + 1)
    BY <1>1 DEF RoomOK
  <2> QED
    BY <1>2, <1>3, <1>4, <2>1, <2>2
<1> HIDE DEF many, base
<1>6. free # {}
  <2>1. SUFFICES ASSUME free = {}
                 PROVE  FALSE
    OBVIOUS
  <2> DEFINE f == [k \in 1 .. many |-> <<base, k>>]
  <2>2. f \in [1 .. many -> DOMAIN mcpTools]
    BY <2>1
  <2>3. IsFiniteSet(1 .. many) /\ Cardinality(1 .. many) = many
    <3>1. 1 \in Int /\ many \in Int
      BY <1>3
    <3>2. IsFiniteSet(1 .. many) /\ Cardinality(1 .. many) = IF 1 > many THEN 0 ELSE many - 1 + 1
      BY <3>1, FS_Interval
    <3> QED
      BY <1>3, <3>2
  <2>4. \E j, k \in 1 .. many : j # k /\ f[j] = f[k]
    <3> HIDE DEF f
    <3> QED
      BY <1>4, <1>5, <2>2, <2>3, FS_PigeonHole
  <2> QED
    BY <2>4
<1>7. \E k \in free : \A j \in free : k <= j
  <2>1. free \in SUBSET Nat
    BY <1>3
  <2> HIDE DEF free
  <2> QED
    BY <1>6, <2>1, LeastNatural
<1>8. (CHOOSE k \in free : \A j \in free : k <= j) \in free
  <2> HIDE DEF free
  <2> QED
    BY <1>7
<1>9. Allocate(tool) = <<base, CHOOSE k \in free : \A j \in free : k <= j>>
  BY DEF Allocate, base, many
<1> QED
  BY <1>8, <1>9

LEMMA RegisterKeeps ==
  ASSUME McpInv, Register
  PROVE  McpInv'
<1> DEFINE tool == Head(listing)
           name == Allocate(tool.name)
<1>1. stage = "register" /\ listing # <<>> /\ McpTypes /\ DealtOK /\ NamedOK /\ RoomOK
  BY DEF McpInv, Register
<1>2. CASE ~tool.acceptable
  BY <1>1, <1>2, UnavailableKeeps DEF Register
<1>3. CASE tool.acceptable
  <2>1. /\ mcpTools' = [n \in DOMAIN mcpTools \cup {name} |->
                          IF n = name THEN [server |-> current, tool |-> tool.name] ELSE mcpTools[n]]
        /\ listing' = Tail(listing) /\ UNCHANGED <<turn, stage, services, warned, features, offered>>
    BY <1>3 DEF Register
  <2>2. name \notin DOMAIN mcpTools
    BY <1>1, SuffixIsFree
  <2>3. /\ listing' \in Seq(Listed) /\ Len(listing') = Len(listing) - 1 /\ Len(listing) \in Nat
        /\ \A e \in ToSet(listing) : e = tool \/ e \in ToSet(listing')
    <3>1. listing \in Seq(Listed)
      BY <1>1 DEF McpTypes
    <3>2. /\ Tail(listing) \in Seq(Listed) /\ Len(Tail(listing)) = Len(listing) - 1 /\ Len(listing) \in Nat
          /\ Head(listing) = listing[1]
          /\ \A i \in 1 .. Len(Tail(listing)) : Tail(listing)[i] = listing[i + 1]
      BY <1>1, <3>1, HeadTailProperties, LenProperties
    <3>3. DOMAIN listing = 1 .. Len(listing) /\ DOMAIN Tail(listing) = 1 .. Len(Tail(listing))
      BY <3>1, <3>2, LenProperties
    <3>4. ASSUME NEW i \in DOMAIN listing, i # 1
          PROVE  listing[i] \in ToSet(Tail(listing))
      <4>1. i - 1 \in 1 .. Len(Tail(listing)) /\ i - 1 + 1 = i
        BY <3>2, <3>3, <3>4
      <4>2. Tail(listing)[i - 1] = listing[i]
        BY <3>2, <4>1
      <4> QED
        BY <3>3, <4>1, <4>2 DEF ToSet
    <3> QED
      BY <2>1, <3>2, <3>4 DEF ToSet
  <2> HIDE DEF name, tool
  <2>4. /\ DOMAIN mcpTools' = DOMAIN mcpTools \cup {name}
        /\ mcpTools'[name] = [server |-> current, tool |-> tool.name]
        /\ \A n \in DOMAIN mcpTools : mcpTools'[n] = mcpTools[n]
    BY <2>1, <2>2
  <2>5. McpTypes'
    BY <1>1, <2>1, <2>3 DEF McpTypes, Listed
  <2>6. DealtOK' /\ current' = current
    BY <1>1, <2>1 DEF DealtOK, Dealt, current
  <2>7. NamedOK'
    <3>1. \A s : \A e : Named(s, e) => Named(s, e)'
      BY <2>4 DEF Named
    <3>2. \E n \in DOMAIN mcpTools' : mcpTools'[n] = [server |-> current, tool |-> tool.name]
      BY <2>4
    <3>7. \A s : \A e : Named(s, e) => \E n \in DOMAIN mcpTools' : mcpTools'[n] = [server |-> s, tool |-> e.name]
      BY <2>4 DEF Named
    <3>3. \A e \in offered[current] : Named(current, e) \/ e \in ToSet(listing)
      BY <1>1 DEF NamedOK
    <3>4. \A s \in services : \A e \in offered[s] : Named(s, e)'
      BY <1>1, <3>1 DEF NamedOK
    <3> HIDE DEF current
    <3>5. \A e \in offered'[current'] :
             \/ \E n \in DOMAIN mcpTools' : mcpTools'[n] = [server |-> current', tool |-> e.name]
             \/ e \in ToSet(listing')
      <4>1. offered'[current'] = offered[current]
        BY <2>1, <2>6
      <4>2. ASSUME NEW e \in offered[current]
            PROVE  \/ \E n \in DOMAIN mcpTools' : mcpTools'[n] = [server |-> current, tool |-> e.name]
                   \/ e \in ToSet(listing')
        <5>1. CASE Named(current, e)
          BY <3>7, <5>1
        <5>2. CASE e \in ToSet(listing)
          <6>1. e = tool \/ e \in ToSet(listing')
            BY <2>1, <2>3, <5>2
          <6> QED
            BY <3>2, <6>1
        <5> QED
          BY <3>3, <5>1, <5>2
      <4> QED
        BY <2>6, <4>1, <4>2
    <3>6. \A k \in turn + 1 .. Len(McpServers) : k # turn + 1 \/ stage # "register" => offered[McpServers[k]] = {}
      BY <1>1 DEF NamedOK
    <3> QED
      BY <2>1, <2>6, <3>4, <3>5, <3>6 DEF NamedOK, Named
  <2>8. RoomOK'
    <3>1. IsFiniteSet(DOMAIN mcpTools) /\ Cardinality(DOMAIN mcpTools) \in Nat
          /\ Cardinality(DOMAIN mcpTools) + Len(listing) <= Room(turn + 1) /\ Len(listing) <= MaxListed
      BY <1>1, FS_CardinalityType DEF RoomOK
    <3>2. IsFiniteSet(DOMAIN mcpTools') /\ Cardinality(DOMAIN mcpTools') = Cardinality(DOMAIN mcpTools) + 1
      BY <2>2, <2>4, <3>1, FS_AddElement
    <3>3. MaxListed \in Nat /\ Room(turn + 1) \in Nat
      <4>1. turn \in Nat /\ turn + 1 \in Nat
        BY <1>1 DEF McpTypes
      <4> QED
        BY <4>1, Rooms, McpAssumption DEF McpAssumption
    <3> QED
      BY <1>1, <2>1, <2>3, <3>1, <3>2, <3>3 DEF RoomOK
  <2> QED
    BY <2>5, <2>6, <2>7, <2>8 DEF McpInv
<1> QED
  BY <1>2, <1>3

LEMMA McpSteps ==
  ASSUME McpInv, [McpNext]_mcpVars
  PROVE  McpInv'
<1>1. ASSUME UNCHANGED <<turn, listing, mcpTools, services, warned, features, offered>>,
             stage' = stage \/ (stage = "start" /\ stage' \in {"list", "registered"})
      PROVE  McpInv'
  <2>1. McpTypes /\ DealtOK /\ NamedOK /\ RoomOK
    BY DEF McpInv
  <2>2. McpTypes'
    BY <1>1, <2>1 DEF McpTypes, McpStages, Listed
  <2>3. DealtOK'
    BY <1>1, <2>1 DEF DealtOK, Dealt
  <2>4. NamedOK'
    BY <1>1, <2>1 DEF NamedOK, Named, current
  <2>5. RoomOK'
    BY <1>1, <2>1 DEF RoomOK
  <2> QED
    BY <2>2, <2>3, <2>4, <2>5 DEF McpInv
<1>2. CASE StartFails \/ ListFails
  BY <1>2, UnavailableKeeps DEF StartFails, ListFails
<1>3. CASE Handshake
  BY <1>1, <1>3 DEF Handshake, kept
<1>4. ASSUME NEW page \in McpPages, NEW cursor, Page(page, cursor)
      PROVE  McpInv'
  BY <1>4, PageKeeps
<1>5. ASSUME NEW name \in DOMAIN mcpTools, Invoke(name)
      PROVE  McpInv'
  BY <1>1, <1>5 DEF Invoke, kept
<1>6. ASSUME NEW k \in DOMAIN mcpCalls, Run(k) \/ Answer(k) \/ CallFails(k) \/ CallTimesOut(k) \/ CallCancelled(k)
      PROVE  McpInv'
  BY <1>1, <1>6 DEF Run, Answer, CallFails, CallTimesOut, CallCancelled, EndCall, kept
<1>7. ASSUME NEW s \in services, Lose(s)
      PROVE  McpInv'
  BY <1>1, <1>7 DEF Lose, kept
<1>8. CASE UNCHANGED mcpVars
  BY <1>1, <1>8 DEF mcpVars
<1>9. CASE McpNext
  BY <1>2, <1>3, <1>4, <1>5, <1>6, <1>7, <1>9, RegisterKeeps, ConnectedKeeps, Zenon DEF McpNext
<1> QED
  BY <1>8, <1>9

LEMMA McpInvariance == McpSpec => []McpInv
<1>1. McpInit => McpInv
  <2>1. SUFFICES ASSUME McpInit
                 PROVE  McpInv
    OBVIOUS
  <2>2. /\ turn = 0 /\ stage = "start" /\ listing = <<>> /\ mcpTools = <<>> /\ services = {} /\ warned = {}
        /\ features = {} /\ offered = [s \in ToSet(McpServers) |-> {}]
    BY <2>1 DEF McpInit
  <2>3. Len(McpServers) \in Nat /\ Len(McpServers) > 0 /\ \A k \in 1 .. Len(McpServers) : McpServers[k] \in ToSet(McpServers)
    <3>1. McpServers \in Seq(ToSet(McpServers))
      BY McpAssumption DEF McpAssumption
    <3>2. Len(McpServers) \in Nat
      BY <3>1, LenProperties
    <3>3. 0 \in 0 .. Len(McpServers)
      BY <3>2
    <3> QED
      BY <3>3, ServersInTurn
  <2>4. McpTypes
    <3>1. <<>> \in Seq(Listed)
      OBVIOUS
    <3> QED
      BY <2>2, <2>3, <3>1 DEF McpTypes, McpStages
  <2>5. DealtOK
    <3>1. Dealt = {}
      BY <2>2 DEF Dealt
    <3> QED
      BY <2>2, <3>1 DEF DealtOK
  <2>6. NamedOK
    BY <2>2, <2>3 DEF NamedOK
  <2>7. RoomOK
    <3>1. Room(0) \in Nat /\ MaxListed \in Nat
      BY Rooms, McpAssumption DEF McpAssumption
    <3>2. DOMAIN mcpTools = {} /\ Len(<<>>) = 0
      BY <2>2
    <3> QED
      BY <2>2, <3>1, <3>2, FS_EmptySet DEF RoomOK
  <2> QED
    BY <2>4, <2>5, <2>6, <2>7 DEF McpInv
<1>2. McpInv /\ [McpNext]_mcpVars => McpInv'
  BY McpSteps
<1> QED
  BY <1>1, <1>2, PTL DEF McpSpec

\* Once the servers are dealt with, each runs with all its tools named, or is warned of.
THEOREM McpIsComplete == McpSpec => []McpComplete
<1>1. McpInv => McpComplete
  <2>1. SUFFICES ASSUME McpInv
                 PROVE  McpComplete
    OBVIOUS
  <2>2. EveryToolNamed
    BY <2>1 DEF McpInv, NamedOK, EveryToolNamed, Named
  <2>3. ASSUME stage = "ready"
        PROVE  Dealt = ToSet(McpServers)
    <3>1. turn = Len(McpServers) /\ turn \in 0 .. Len(McpServers)
      BY <2>1, <2>3 DEF McpInv, McpTypes
    <3> QED
      BY <3>1, ServersInTurn DEF Dealt, ToSet
  <2>4. NothingSilentlyMissing
    <3>1. Required \subseteq ToSet(McpServers)
      BY McpAssumption DEF McpAssumption
    <3> QED
      BY <2>1, <2>3, <3>1 DEF McpInv, DealtOK, NothingSilentlyMissing
  <2> QED
    BY <2>2, <2>4 DEF McpComplete
<1> QED
  BY <1>1, McpInvariance, PTL

LEMMA McpTypeSteps ==
  ASSUME McpInv, McpInv', McpTypeOK, [McpNext]_mcpVars
  PROVE  McpTypeOK'
<1> DEFINE All == ToSet(McpServers)
           Rest == seen \subseteq Cursors /\ warned \cup features \cup lost \subseteq All
<1>1. Rest /\ services \subseteq All
  BY DEF McpTypeOK
<1>2. stage \in {"start", "list", "register", "registered"} => current \in All
  BY AtTurn
<1>3. ASSUME seen' \subseteq Cursors, lost' \subseteq lost \cup services,
             warned' \cup features' \subseteq warned \cup features \cup All
      PROVE  McpTypeOK'
  <2>1. warned' \cup features' \cup lost' \subseteq All
    BY <1>1, <1>3
  <2> QED
    BY <1>3, <2>1 DEF McpInv, McpTypes, McpStages, RoomOK, McpTypeOK
<1>4. ASSUME Unavailable, stage \in {"start", "list", "register", "registered"}
      PROVE  McpTypeOK'
  BY <1>1, <1>2, <1>3, <1>4 DEF Unavailable, running
<1>5. CASE StartFails \/ ListFails
  BY <1>4, <1>5 DEF StartFails, ListFails
<1>6. CASE Handshake
  BY <1>1, <1>3, <1>6 DEF Handshake, kept, running
<1>7. ASSUME NEW page, NEW cursor \in Cursors \cup {"none", "bad"}, Page(page, cursor)
      PROVE  McpTypeOK'
  <2>1. CASE Unavailable
    BY <1>4, <1>7, <2>1 DEF Page
  <2>2. CASE ~Unavailable
    <3>1. /\ cursor # "bad" /\ seen' = IF cursor = "none" THEN seen ELSE seen \cup {cursor}
          /\ UNCHANGED <<warned, features, lost>>
      BY <1>7, <2>2 DEF Page, running
    <3> QED
      BY <1>1, <1>3, <3>1
  <2> QED
    BY <2>1, <2>2
<1>8. CASE Register
  <2>1. stage = "register"
    BY <1>8 DEF Register
  <2>2. CASE Unavailable
    BY <1>4, <2>1, <2>2
  <2>3. CASE ~Unavailable
    <3>1. UNCHANGED <<seen, warned, features, lost>>
      BY <1>8, <2>3 DEF Register, running
    <3> QED
      BY <1>1, <1>3, <3>1
  <2> QED
    BY <2>2, <2>3
<1>9. CASE ServerReady
  BY <1>1, <1>2, <1>3, <1>9 DEF ServerReady, Connected, running
<1>10. ASSUME UNCHANGED <<seen, warned, features>>, lost' \subseteq lost \cup services
       PROVE  McpTypeOK'
  BY <1>1, <1>3, <1>10
<1>11. ASSUME NEW name, Invoke(name)
       PROVE  McpTypeOK'
  BY <1>10, <1>11 DEF Invoke, kept
<1>12. ASSUME NEW k, Run(k) \/ Answer(k) \/ CallFails(k) \/ CallTimesOut(k) \/ CallCancelled(k)
       PROVE  McpTypeOK'
  BY <1>10, <1>12 DEF Run, Answer, CallFails, CallTimesOut, CallCancelled, EndCall, kept
<1>13. ASSUME NEW s \in services, Lose(s)
       PROVE  McpTypeOK'
  BY <1>10, <1>13 DEF Lose, kept
<1>14. CASE UNCHANGED mcpVars
  BY <1>10, <1>14 DEF mcpVars
<1> QED
  BY <1>5, <1>6, <1>7, <1>8, <1>9, <1>11, <1>12, <1>13, <1>14 DEF McpNext

LEMMA McpTyped == McpSpec => []McpTypeOK
<1>1. McpInit => McpTypeOK
  <2>1. McpServers \in Seq(ToSet(McpServers)) /\ MaxListed \in Nat
    BY McpAssumption DEF McpAssumption
  <2>2. Len(McpServers) \in Nat
    BY <2>1, LenProperties
  <2> QED
    BY <2>1, <2>2 DEF McpInit, McpTypeOK
<1>2. McpInv /\ McpInv' /\ McpTypeOK /\ [McpNext]_mcpVars => McpTypeOK'
  BY McpTypeSteps
<1> QED
  BY <1>1, <1>2, McpInvariance, PTL DEF McpSpec

-----------------------------------------------------------------------------
(* GatewayStream.                                                          *)

Kinds == {"codex", "vercel"}
Styles == [streamed : BOOLEAN, renamed : BOOLEAN, equal : BOOLEAN]
StreamStages == {"none", "open", "ended", "done"}
Results == {"none", "response", "invalid"} \cup SendErrors
SinkEvents == Items \X (0 .. 2)
TextPieces == Texts \X (1 .. 2)
PendingRecord == [item : Functions, n : 0 .. 2, ended : BOOLEAN]
CallRecord ==
  [item : Functions, id : Functions \X BOOLEAN, n : 0 .. 2, valid : BOOLEAN, provisional : BOOLEAN,
   local : BOOLEAN, answered : BOOLEAN]
StateRecord ==
  [content : Seq(TextPieces), streamed : BOOLEAN, calls : Seq(CallRecord),
   pending : SUBSET PendingRecord, searches : Seq(Searches), error : BOOLEAN,
   reason : {"none", "toolCalls", "stop", "length", "error"}]
StreamTypes ==
  /\ kind \in Kinds /\ style \in Styles
  /\ kind = "codex" => style.streamed /\ ~style.renamed /\ ~style.equal
  /\ wire \in [Items -> [phase : StreamStages, n : 0 .. 2]]
  /\ state \in StateRecord /\ events \in Seq(SinkEvents)

\* Two inputs that a tool-call event cannot tell apart: they will not be taken any more.
Stuck ==
  /\ style.renamed /\ style.equal
  /\ \E p, q \in state.pending : p # q /\ p.ended /\ q.ended

\* Every input that was started, and has not become a call, is pending with what was streamed.
Fits(p) ==
  /\ p.n = wire[p.item].n /\ (p.ended <=> wire[p.item].phase # "open") /\ (p.ended => p.n = 2)
  /\ wire[p.item].phase # "none" /\ (wire[p.item].phase = "done" => Stuck)
PendingOK ==
  /\ \A p \in state.pending : Fits(p)
  /\ ~style.streamed => state.pending = {}
  /\ \A i \in Functions :
       /\ wire[i].phase = "none" => wire[i].n = 0
       /\ wire[i].phase \in {"open", "ended"} => Of(state, i) # {}

\* A call is that of its item, once, with the arguments that were streamed for it.
CallsAre(calls) ==
  /\ \A j \in DOMAIN calls :
       calls[j].id = Id(calls[j].item, style.renamed) /\ (calls[j].n = 0 => wire[calls[j].item].n = 0)
  /\ \A j, k \in DOMAIN calls : calls[j].item = calls[k].item => j = k
CallsOK ==
  /\ CallsAre(state.calls)
  /\ \A i \in Functions : wire[i].phase = "done" <=> HasCall(state, Id(i, style.renamed))

\* The text is what was sent of it, or a whole message; what was shown is in it.
Shown(s) ==
  /\ Once(s.content)
  /\ \A e \in ToSet(events) : e[2] > 0 => e \in ToSet(s.content) /\ (kind = "codex" => s.streamed)
TextOK ==
  /\ Shown(state)
  /\ \A e \in ToSet(state.content) : wire[e[1]].phase = "done" \/ e[2] <= wire[e[1]].n
  /\ kind = "vercel" => \A i \in Texts : wire[i].phase = "none"

\* A call that was announced was started; it is announced twice only if none is taken.
BegunOK ==
  /\ \A e \in ToSet(events) : e[2] = 0 => e[1] \in Functions /\ wire[e[1]].phase # "none"
  /\ StartsOnce \/ Stuck

LiveOK == StreamTypes /\ PendingOK /\ CallsOK /\ TextOK /\ BegunOK
StreamInv ==
  /\ result \in Results /\ (at = "closed" <=> result # "none")
  /\ at # "closed" => LiveOK
  /\ StreamFaithful

\* Nothing is sent again that may have been delivered.
PostedOK ==
  /\ at \in {"connect", "stream", "closed"} /\ posted \in {0, 1}
  /\ at = "connect" => posted = 0 /\ result = "none"
  /\ at = "stream" => result = "none"
  /\ result = "unsent" => posted = 0

GatewaySpec == GatewayInit /\ [][GatewayNext]_gatewayVars

-----------------------------------------------------------------------------
LEMMA Said ==
  ASSUME NEW S, NEW seq \in Seq(S), NEW x \in S
  PROVE  /\ Append(seq, x) \in Seq(S) /\ seq \o <<x>> = Append(seq, x) /\ seq \o <<>> = seq
         /\ ToSet(Append(seq, x)) = ToSet(seq) \cup {x}
         /\ Len(seq) \in Nat /\ DOMAIN seq = 1 .. Len(seq)
         /\ DOMAIN Append(seq, x) = 1 .. Len(seq) + 1
         /\ \A k \in DOMAIN seq : Append(seq, x)[k] = seq[k]
         /\ Append(seq, x)[Len(seq) + 1] = x
<1>1. Append(seq, x) \in Seq(S) /\ seq \o <<x>> = Append(seq, x) /\ seq \o <<>> = seq
  BY AppendProperties, AppendIsConcat, ConcatEmptySeq
<1>2. /\ Len(seq) \in Nat /\ DOMAIN seq = 1 .. Len(seq)
      /\ DOMAIN Append(seq, x) = 1 .. Len(seq) + 1
      /\ \A k \in DOMAIN seq : Append(seq, x)[k] = seq[k]
      /\ Append(seq, x)[Len(seq) + 1] = x
  BY <1>1, AppendProperties, LenProperties
<1>3. ToSet(Append(seq, x)) = ToSet(seq) \cup {x}
  <2>1. \A k \in 1 .. Len(seq) + 1 : k \in 1 .. Len(seq) \/ k = Len(seq) + 1
    BY <1>2
  <2>2. Len(seq) + 1 \in 1 .. Len(seq) + 1 /\ \A k \in 1 .. Len(seq) : k \in 1 .. Len(seq) + 1
    BY <1>2
  <2> QED
    BY <1>2, <2>1, <2>2 DEF ToSet
<1> QED
  BY <1>1, <1>2, <1>3

LEMMA OnceMore ==
  ASSUME NEW S, NEW seq \in Seq(S), NEW x \in S, Once(seq), x \notin ToSet(seq)
  PROVE  Once(Append(seq, x))
<1>1. \A k \in 1 .. Len(seq) : seq[k] # x
  BY LenProperties DEF ToSet
<1>2. \A k \in 1 .. Len(seq) + 1 : k \in 1 .. Len(seq) \/ k = Len(seq) + 1
  BY LenProperties
<1> QED
  BY <1>1, <1>2, Said DEF Once

LEMMA Apart ==
  /\ \A i \in Functions : i \in Items /\ i \notin Texts /\ i \notin Searches
  /\ \A i \in Texts : i \in Items /\ i \notin Functions /\ i \notin Searches
  /\ \A i \in Searches : i \in Items /\ i \notin Functions /\ i \notin Texts
  /\ \A i \in Items : i \in Functions \/ i \in Texts \/ i \in Searches
BY GatewayAssumption DEF GatewayAssumption, Items

LEMMA LiveTypes ==
  ASSUME LiveOK
  PROVE  /\ state \in StateRecord /\ kind \in Kinds /\ style \in Styles
         /\ wire \in [Items -> [phase : StreamStages, n : 0 .. 2]] /\ events \in Seq(SinkEvents)
         /\ state.content \in Seq(TextPieces) /\ state.calls \in Seq(CallRecord)
         /\ state.pending \in SUBSET PendingRecord
         /\ \A e \in ToSet(events) : e \in SinkEvents
         /\ \A e \in ToSet(state.content) : e \in TextPieces
         /\ \A c \in ToSet(state.calls) : c \in CallRecord
         /\ DOMAIN events = 1 .. Len(events) /\ DOMAIN state.calls = 1 .. Len(state.calls)
<1>1. /\ state \in StateRecord /\ kind \in Kinds /\ style \in Styles
      /\ wire \in [Items -> [phase : StreamStages, n : 0 .. 2]] /\ events \in Seq(SinkEvents)
  BY DEF LiveOK, StreamTypes
<1>2. /\ state.content \in Seq(TextPieces) /\ state.calls \in Seq(CallRecord)
      /\ state.pending \in SUBSET PendingRecord
  BY <1>1 DEF StateRecord
<1>3. \A S : \A seq \in Seq(S) : DOMAIN seq = 1 .. Len(seq) /\ \A e \in ToSet(seq) : e \in S
  BY LenProperties, ElementOfSeq DEF ToSet
<1> QED
  BY <1>1, <1>2, <1>3

\* A call is known by its id exactly if it is known by its item.
LEMMA KnownCalls ==
  ASSUME LiveOK, NEW i \in Functions
  PROVE  HasCall(state, Id(i, style.renamed)) <=> \E c \in ToSet(state.calls) : c.item = i
BY DEF LiveOK, CallsOK, CallsAre, HasCall, Id, ToSet

-----------------------------------------------------------------------------
(* What a step leaves alone.                                               *)

LEMMA TextKept ==
  ASSUME LiveOK, state'.content = state.content, state'.streamed = state.streamed, kind' = kind,
         \A e \in ToSet(events') : e[2] > 0 => e \in ToSet(events),
         \A i \in Texts : wire'[i] = wire[i]
  PROVE  TextOK'
<1>1. TextOK /\ \A e \in ToSet(state.content) : e[1] \in Texts
  BY LiveTypes DEF LiveOK, TextPieces
<1>2. Shown(state)'
  <2>1. \A e \in ToSet(events') : e[2] > 0 => e \in ToSet(state.content) /\ (kind = "codex" => state.streamed)
    BY <1>1 DEF TextOK, Shown
  <2>2. Once(state'.content)
    BY <1>1 DEF TextOK, Shown
  <2> QED
    BY <2>1, <2>2 DEF Shown
<1>3. \A i \in Texts : wire'[i].phase = wire[i].phase /\ wire'[i].n = wire[i].n
  OBVIOUS
<1> QED
  BY <1>1, <1>2, <1>3 DEF TextOK

LEMMA CallsKept ==
  ASSUME LiveOK, state'.calls = state.calls, style' = style,
         \A i \in Functions :
           wire'[i] = wire[i] \/ (wire[i].phase # "done" /\ wire'[i].phase # "done")
  PROVE  CallsOK'
<1>1. CallsOK /\ \A j \in DOMAIN state.calls : state.calls[j].item \in Functions
  <2>1. \A j \in DOMAIN state.calls : state.calls[j] \in CallRecord
    BY LiveTypes, ElementOfSeq
  <2> QED
    BY <2>1 DEF LiveOK, CallRecord
<1>2. \A j \in DOMAIN state.calls : wire'[state.calls[j].item] = wire[state.calls[j].item]
  <2>1. ASSUME NEW j \in DOMAIN state.calls
        PROVE  wire[state.calls[j].item].phase = "done"
    <3>1. HasCall(state, Id(state.calls[j].item, style.renamed))
      BY <1>1, <2>1 DEF CallsOK, CallsAre, HasCall, ToSet
    <3> QED
      BY <1>1, <3>1 DEF CallsOK
  <2> QED
    BY <1>1, <2>1
<1>3. CallsAre(state.calls)'
  BY <1>1, <1>2 DEF CallsOK, CallsAre, Id
<1>4. \A i \in Functions : wire'[i].phase = "done" <=> wire[i].phase = "done"
  OBVIOUS
<1>5. \A i \in Functions : HasCall(state, Id(i, style.renamed))' <=> HasCall(state, Id(i, style.renamed))
  BY DEF HasCall, Id
<1> QED
  BY <1>1, <1>3, <1>4, <1>5 DEF CallsOK

LEMMA BegunKept ==
  ASSUME LiveOK, events' = events, Stuck => Stuck',
         \A i \in Functions : wire[i].phase # "none" => wire'[i].phase # "none"
  PROVE  BegunOK'
BY DEF LiveOK, BegunOK, StartsOnce

\* A start is announced: for the first time, or never mind.
LEMMA BegunOnce ==
  ASSUME LiveOK, NEW i \in Functions, events' = events \o <<<<i, 0>>>>, Stuck => Stuck',
         wire'[i].phase # "none", wire[i].phase = "none" \/ Stuck',
         \A j \in Functions : wire[j].phase # "none" => wire'[j].phase # "none"
  PROVE  BegunOK' /\ events' \in Seq(SinkEvents)
         /\ \A e \in ToSet(events') : e[2] > 0 => e \in ToSet(events)
<1> DEFINE x == <<i, 0>>
<1>1. events \in Seq(SinkEvents) /\ x \in SinkEvents /\ BegunOK
  BY Apart, LiveTypes DEF LiveOK, SinkEvents
<1>2. /\ events' \in Seq(SinkEvents) /\ ToSet(events') = ToSet(events) \cup {x}
      /\ Len(events) \in Nat /\ DOMAIN events = 1 .. Len(events)
      /\ DOMAIN events' = 1 .. Len(events) + 1
      /\ \A k \in DOMAIN events : events'[k] = events[k]
      /\ events'[Len(events) + 1] = x
  <2>1. events' = Append(events, x)
    BY <1>1, Said
  <2>2. /\ Append(events, x) \in Seq(SinkEvents) /\ ToSet(Append(events, x)) = ToSet(events) \cup {x}
        /\ Len(events) \in Nat /\ DOMAIN events = 1 .. Len(events)
        /\ DOMAIN Append(events, x) = 1 .. Len(events) + 1
        /\ \A k \in DOMAIN events : Append(events, x)[k] = events[k]
        /\ Append(events, x)[Len(events) + 1] = x
    <3> HIDE DEF x
    <3> QED
      BY <1>1, Said
  <2> HIDE DEF x
  <2> QED
    BY <2>1, <2>2
<1>3. x[1] = i /\ x[2] = 0
  OBVIOUS
<1>6. \A e \in ToSet(events') : e[2] = 0 => e[1] \in Functions /\ wire'[e[1]].phase # "none"
  <2> HIDE DEF x
  <2> QED
    BY <1>1, <1>2, <1>3 DEF BegunOK
<1>7. \A e \in ToSet(events') : e[2] > 0 => e \in ToSet(events)
  <2> HIDE DEF x
  <2> QED
    BY <1>2, <1>3
<1>4. CASE wire[i].phase = "none" /\ ~Stuck
  <2>1. \A k \in 1 .. Len(events) : events[k] # x
    BY <1>1, <1>2, <1>3, <1>4 DEF BegunOK, ToSet
  <2>2. \A k \in 1 .. Len(events) + 1 : k \in 1 .. Len(events) \/ k = Len(events) + 1
    BY <1>2
  <2>3. StartsOnce
    BY <1>1, <1>4 DEF BegunOK
  <2>4. StartsOnce'
    <3> HIDE DEF x
    <3> SUFFICES ASSUME NEW j \in DOMAIN events', NEW k \in DOMAIN events',
                        events'[j][2] = 0, events'[j] = events'[k]
                 PROVE  j = k
      BY DEF StartsOnce
    <3>1. CASE j \in 1 .. Len(events) /\ k \in 1 .. Len(events)
      BY <1>2, <2>3, <3>1 DEF StartsOnce
    <3>2. CASE j = Len(events) + 1 /\ k \in 1 .. Len(events)
      BY <1>2, <2>1, <3>2
    <3>3. CASE k = Len(events) + 1 /\ j \in 1 .. Len(events)
      BY <1>2, <2>1, <3>3
    <3> QED
      BY <1>2, <2>2, <3>1, <3>2, <3>3
  <2> QED
    BY <1>2, <1>6, <1>7, <2>4 DEF BegunOK
<1>5. CASE Stuck'
  BY <1>2, <1>5, <1>6, <1>7 DEF BegunOK
<1> QED
  BY <1>4, <1>5

-----------------------------------------------------------------------------
(* The inputs of the calls: they start, grow, end and become calls.        *)

LEMMA Opened ==
  ASSUME LiveOK, NEW i \in Functions, wire[i].phase = "none", style.streamed,
         state' = [state EXCEPT !.pending = @ \cup {[item |-> i, n |-> 0, ended |-> FALSE]}],
         events' = events \o <<<<i, 0>>>>, wire' = Sends(i, "open"), UNCHANGED <<kind, style>>
  PROVE  LiveOK'
<1> DEFINE p0 == [item |-> i, n |-> 0, ended |-> FALSE]
<1>1. p0 \in PendingRecord /\ p0.item = i /\ p0.n = 0 /\ ~p0.ended
  BY DEF PendingRecord
<1>2. state' \in StateRecord /\ state'.pending = state.pending \cup {p0} /\ state'.content = state.content
      /\ state'.streamed = state.streamed /\ state'.calls = state.calls
  BY <1>1, LiveTypes DEF StateRecord
<1>3. /\ wire' \in [Items -> [phase : StreamStages, n : 0 .. 2]]
      /\ wire'[i].phase = "open" /\ wire'[i].n = wire[i].n /\ \A j \in Items : j # i => wire'[j] = wire[j]
  BY Apart, LiveTypes DEF Sends, StreamStages
<1> HIDE DEF p0
<1>4. Stuck => Stuck'
  BY <1>2 DEF Stuck
<1>5. BegunOK' /\ events' \in Seq(SinkEvents) /\ \A e \in ToSet(events') : e[2] > 0 => e \in ToSet(events)
  BY <1>3, <1>4, Apart, BegunOnce
<1>6. TextOK'
  BY <1>2, <1>3, <1>5, Apart, TextKept
<1>7. CallsOK'
  BY <1>2, <1>3, Apart, CallsKept
<1>8. PendingOK'
  <2>1. PendingOK /\ wire[i].n = 0 /\ \A p \in state.pending : p.item \in Functions
    BY LiveTypes DEF LiveOK, PendingOK, PendingRecord
  <2>2. \A p \in state.pending : p.item # i
    BY <2>1 DEF PendingOK, Fits
  <2>3. \A j \in Functions : Of(state', j) = Of(state, j) \cup {p \in {p0} : p.item = j}
    BY <1>2 DEF Of
  <2>4. p0 \in Of(state', i)
    BY <1>1, <2>3
  <2>5. \A j \in Functions : wire'[j].phase \in {"open", "ended"} => Of(state', j) # {}
    BY <1>3, <2>1, <2>3, <2>4, Apart DEF PendingOK
  <2>6. \A j \in Functions : wire'[j].phase = "none" => wire'[j].n = 0
    BY <1>3, <2>1, Apart DEF PendingOK
  <2>7. \A p \in state'.pending : Fits(p)'
    <3>1. \A p \in state.pending : wire'[p.item] = wire[p.item]
      BY <1>3, <2>1, <2>2, Apart
    <3>2. \A p \in state.pending : Fits(p)'
      BY <1>4, <2>1, <3>1 DEF PendingOK, Fits
    <3>3. Fits(p0)'
      BY <1>1, <1>3, <2>1 DEF Fits
    <3> QED
      BY <1>2, <3>2, <3>3
  <2> QED
    BY <2>5, <2>6, <2>7 DEF PendingOK
<1>9. StreamTypes'
  BY <1>2, <1>3, <1>5, LiveTypes DEF LiveOK, StreamTypes
<1> QED
  BY <1>5, <1>6, <1>7, <1>8, <1>9 DEF LiveOK

\* More of the input of i comes, or its end.
Far(n, over) == [phase |-> IF over THEN "ended" ELSE "open", n |-> n]
Becomes(i, n, over, p, q) ==
  IF p.item = i THEN q = [p EXCEPT !.n = n, !.ended = over] ELSE q = p

Carries(i, n, over, pending) ==
  /\ wire[i].phase = "open" /\ (over => n = 2) /\ state' = [state EXCEPT !.pending = pending]
  /\ \A q \in pending : \E p \in state.pending : Becomes(i, n, over, p, q)
  /\ \A p \in state.pending : \E q \in pending : Becomes(i, n, over, p, q)
  /\ wire' = [wire EXCEPT ![i] = Far(n, over)] /\ UNCHANGED <<kind, style, events>>

LEMMA Carried ==
  ASSUME LiveOK, NEW i \in Functions, NEW n \in 0 .. 2, NEW over \in BOOLEAN, NEW pending,
         Carries(i, n, over, pending)
  PROVE  LiveOK'
<1> USE DEF Carries
<1> DEFINE w == Far(n, over)
<1>0. w.n = n /\ (over <=> w.phase # "open") /\ w.phase \in {"open", "ended"} /\ w \in [phase : StreamStages, n : 0 .. 2]
  BY DEF Far, StreamStages
<1> HIDE DEF w
<1>1. PendingOK /\ \A p \in state.pending : p \in PendingRecord /\ p.item \in Functions
  BY LiveTypes DEF LiveOK, PendingRecord
<1>2. wire' \in [Items -> [phase : StreamStages, n : 0 .. 2]] /\ wire'[i] = w
      /\ \A j \in Items : j # i => wire'[j] = wire[j]
  <2>1. wire' = [wire EXCEPT ![i] = w]
    BY DEF w
  <2> QED
    BY <1>0, <2>1, Apart, LiveTypes
<1>3. ASSUME NEW p \in state.pending, NEW q, Becomes(i, n, over, p, q)
      PROVE  /\ q \in PendingRecord /\ q.item = p.item
             /\ p.item = i => q.n = n /\ q.ended = over
             /\ p.item # i => q = p
  BY <1>1, <1>3 DEF PendingRecord, Becomes
<1>4. /\ state'.pending = pending /\ state'.content = state.content
      /\ state'.streamed = state.streamed /\ state'.calls = state.calls
  BY LiveTypes DEF StateRecord
<1>5. state'.pending \subseteq PendingRecord
  BY <1>3, <1>4
<1>6. state' \in StateRecord
  BY <1>4, <1>5, LiveTypes DEF StateRecord
<1>7. Stuck => Stuck'
  <2> SUFFICES ASSUME style.renamed, style.equal, NEW p \in state.pending, NEW q \in state.pending,
                      p # q, p.ended, q.ended
               PROVE  Stuck'
    BY DEF Stuck
  <2>1. p.item # i /\ q.item # i
    BY <1>1 DEF PendingOK, Fits
  <2>2. p \in state'.pending /\ q \in state'.pending
    BY <2>1, <1>4 DEF Becomes
  <2> QED
    BY <2>2 DEF Stuck
<1>8. BegunOK'
  BY <1>0, <1>2, <1>7, Apart, BegunKept
<1>9. TextOK'
  BY <1>2, <1>4, Apart, TextKept
<1>10. CallsOK'
  BY <1>0, <1>2, <1>4, Apart, CallsKept
<1>11. PendingOK'
  <2>1. \A j \in Functions : wire'[j].phase \in {"open", "ended"} => Of(state', j) # {}
    <3>1. ASSUME NEW j \in Functions, wire'[j].phase \in {"open", "ended"}
          PROVE  Of(state', j) # {}
      <4>1. PICK p \in state.pending : p.item = j
        <5>1. Of(state, j) # {}
          BY <1>1, <1>2, <3>1, Apart DEF PendingOK
        <5> QED
          BY <5>1 DEF Of
      <4>2. PICK q \in pending : Becomes(i, n, over, p, q)
        BY <4>1
      <4>3. q.item = j
        BY <1>3, <4>1, <4>2
      <4> QED
        BY <1>4, <4>3 DEF Of
    <3> QED
      BY <3>1
  <2>2. \A j \in Functions : wire'[j].phase = "none" => wire'[j].n = 0
    BY <1>0, <1>1, <1>2, Apart DEF PendingOK
  <2>3. ASSUME NEW q \in state'.pending
        PROVE  Fits(q)'
    <3>1. PICK p \in state.pending : Becomes(i, n, over, p, q)
      BY <1>4
    <3>2. CASE p.item = i
      <4>1. q.item = i /\ q.n = n /\ q.ended = over /\ wire'[i] = w
        BY <1>2, <1>3, <3>1, <3>2
      <4> QED
        BY <1>0, <4>1 DEF Fits
    <3>3. CASE p.item # i
      <4>1. q = p /\ wire'[p.item] = wire[p.item]
        BY <1>1, <1>2, <1>3, <3>1, <3>3, Apart
      <4>2. Fits(p)
        BY <1>1 DEF PendingOK
      <4> QED
        BY <1>7, <4>1, <4>2 DEF Fits
    <3> QED
      BY <3>2, <3>3
  <2>4. ~style'.streamed => state'.pending = {}
    BY <1>1, <1>4, <1>5 DEF PendingOK
  <2> QED
    BY <2>1, <2>2, <2>3, <2>4 DEF PendingOK
<1>12. StreamTypes'
  BY <1>2, <1>6, LiveTypes DEF LiveOK, StreamTypes
<1> QED
  BY <1>8, <1>9, <1>10, <1>11, <1>12 DEF LiveOK

\* The input of i becomes a call; or it is one of those that are not told apart, and stays.
LEMMA Taken ==
  ASSUME LiveOK, NEW i \in Functions, NEW c \in CallRecord, NEW found,
         wire[i].phase # "done", c.item = i, c.id = Id(i, style.renamed), c.n = 0 => wire[i].n = 0,
         (found = Of(state, i) /\ ~Stuck) \/ (found = {} /\ Stuck),
         Stuck => wire[i].phase # "open",
         state' = [state EXCEPT !.pending = @ \ found, !.calls = Append(@, c)],
         wire' = Sends(i, "done"), UNCHANGED <<kind, style>>,
         events' = events
           \/ (events' = events \o <<<<i, 0>>>> /\ (wire[i].phase = "none" \/ Stuck))
  PROVE  LiveOK'
<1>1. PendingOK /\ CallsOK /\ \A p \in state.pending : p \in PendingRecord /\ p.item \in Functions
  BY LiveTypes DEF LiveOK, PendingRecord
<1>2. /\ wire' \in [Items -> [phase : StreamStages, n : 0 .. 2]]
      /\ wire'[i].phase = "done" /\ wire'[i].n = wire[i].n /\ \A j \in Items : j # i => wire'[j] = wire[j]
  BY Apart, LiveTypes DEF Sends, StreamStages
<1>3. /\ state'.pending = state.pending \ found /\ state'.content = state.content
      /\ state'.streamed = state.streamed /\ state'.calls = Append(state.calls, c)
  BY LiveTypes DEF StateRecord
<1>4. /\ state'.calls \in Seq(CallRecord) /\ ToSet(state'.calls) = ToSet(state.calls) \cup {c}
      /\ Len(state.calls) \in Nat /\ DOMAIN state.calls = 1 .. Len(state.calls)
      /\ DOMAIN state'.calls = 1 .. Len(state.calls) + 1
      /\ \A k \in DOMAIN state.calls : state'.calls[k] = state.calls[k]
      /\ state'.calls[Len(state.calls) + 1] = c
  <2>1. state.calls \in Seq(CallRecord)
    BY LiveTypes
  <2> QED
    BY <1>3, <2>1, Said
<1>5. state' \in StateRecord
  <2>1. state'.pending \in SUBSET PendingRecord
    BY <1>1, <1>3
  <2>2. state' = [state EXCEPT !.pending = state'.pending, !.calls = state'.calls]
    BY <1>3, LiveTypes DEF StateRecord
  <2> QED
    BY <1>4, <2>1, <2>2, LiveTypes DEF StateRecord
<1>6. Stuck => Stuck'
  BY <1>3 DEF Stuck
<1>7. /\ BegunOK' /\ events' \in Seq(SinkEvents)
      /\ \A e \in ToSet(events') : e[2] > 0 => e \in ToSet(events)
  <2>1. \A j \in Functions : wire[j].phase # "none" => wire'[j].phase # "none"
    BY <1>2, Apart
  <2>2. CASE events' = events
    BY <1>6, <2>1, <2>2, BegunKept, LiveTypes
  <2>3. CASE events' = events \o <<<<i, 0>>>> /\ (wire[i].phase = "none" \/ Stuck)
    BY <1>2, <1>6, <2>1, <2>3, BegunOnce
  <2> QED
    BY <2>2, <2>3
<1>8. TextOK'
  BY <1>2, <1>3, <1>7, Apart, TextKept
<1>9. ~\E k \in ToSet(state.calls) : k.item = i
  BY <1>1, KnownCalls DEF CallsOK
<1>10. \A k \in DOMAIN state.calls : state.calls[k].item # i /\ state.calls[k].item \in Functions
  <2>1. \A k \in DOMAIN state.calls : state.calls[k] \in ToSet(state.calls)
    BY DEF ToSet
  <2> QED
    BY <1>9, <2>1, LiveTypes DEF CallRecord
<1>11. CallsOK'
  <2>1. \A k \in 1 .. Len(state.calls) + 1 : k \in 1 .. Len(state.calls) \/ k = Len(state.calls) + 1
    BY <1>4
  <2>2. \A j \in DOMAIN state'.calls :
          /\ state'.calls[j].id = Id(state'.calls[j].item, style.renamed)
          /\ state'.calls[j].n = 0 => wire'[state'.calls[j].item].n = 0
    <3>1. \A j \in DOMAIN state.calls :
            /\ state.calls[j].id = Id(state.calls[j].item, style.renamed)
            /\ state.calls[j].n = 0 => wire'[state.calls[j].item].n = 0
      BY <1>1, <1>2, <1>10, Apart DEF CallsOK, CallsAre
    <3> QED
      BY <1>2, <1>4, <2>1, <3>1
  <2>3. \A j, k \in DOMAIN state'.calls : state'.calls[j].item = state'.calls[k].item => j = k
    <3>1. \A j, k \in DOMAIN state.calls : state.calls[j].item = state.calls[k].item => j = k
      BY <1>1 DEF CallsOK, CallsAre
    <3> QED
      BY <1>4, <1>10, <2>1, <3>1
  <2>4. \A j \in Functions : HasCall(state', Id(j, style.renamed)) <=> (HasCall(state, Id(j, style.renamed)) \/ j = i)
    BY <1>4 DEF HasCall, Id
  <2>5. \A j \in Functions : wire'[j].phase = "done" <=> HasCall(state', Id(j, style.renamed))
    BY <1>1, <1>2, <2>4, Apart DEF CallsOK
  <2> QED
    BY <2>2, <2>3, <2>5 DEF CallsOK, CallsAre
<1>12. PendingOK'
  <2>1. \A j \in Functions : wire'[j].phase \in {"open", "ended"} => Of(state', j) # {}
    <3>1. ASSUME NEW j \in Functions, wire'[j].phase \in {"open", "ended"}
          PROVE  Of(state', j) # {}
      <4>1. j # i /\ wire'[j] = wire[j]
        BY <1>2, <3>1, Apart
      <4>2. PICK p \in state.pending : p.item = j
        <5>1. Of(state, j) # {}
          BY <1>1, <3>1, <4>1 DEF PendingOK
        <5> QED
          BY <5>1 DEF Of
      <4>3. p \notin found
        BY <4>1, <4>2 DEF Of
      <4> QED
        BY <1>3, <4>2, <4>3 DEF Of
    <3> QED
      BY <3>1
  <2>2. \A j \in Functions : wire'[j].phase = "none" => wire'[j].n = 0
    BY <1>1, <1>2, Apart DEF PendingOK
  <2>3. ASSUME NEW p \in state'.pending
        PROVE  Fits(p)'
    <3>1. p \in state.pending /\ p \notin found /\ p.item \in Items
      BY <1>1, <1>3, <2>3, Apart
    <3>2. CASE p.item # i
      BY <1>1, <1>2, <1>6, <3>1, <3>2 DEF PendingOK, Fits
    <3>3. CASE p.item = i
      <4>1. Stuck
        BY <3>1, <3>3 DEF Of
      <4>2. Fits(p)
        BY <1>1, <3>1 DEF PendingOK
      <4> QED
        BY <1>2, <1>6, <3>3, <4>1, <4>2 DEF Fits
    <3> QED
      BY <3>2, <3>3
  <2>4. ~style'.streamed => state'.pending = {}
    BY <1>1, <1>3 DEF PendingOK
  <2> QED
    BY <2>1, <2>2, <2>3, <2>4 DEF PendingOK
<1>13. StreamTypes'
  BY <1>2, <1>5, <1>7, LiveTypes DEF LiveOK, StreamTypes
<1> QED
  BY <1>7, <1>8, <1>11, <1>12, <1>13 DEF LiveOK

\* What is not about a call leaves the calls and their inputs alone.
LEMMA FunctionsKept ==
  ASSUME LiveOK, state'.calls = state.calls, state'.pending = state.pending, style' = style,
         \A i \in Functions : wire'[i] = wire[i]
  PROVE  PendingOK' /\ CallsOK' /\ (Stuck => Stuck')
<1>1. CallsOK'
  BY CallsKept
<1>2. PendingOK /\ \A p \in state.pending : p.item \in Functions
  BY LiveTypes DEF LiveOK, PendingRecord
<1>3. Stuck <=> Stuck'
  BY DEF Stuck
<1>4. \A p \in state.pending : Fits(p)'
  <2>1. ASSUME NEW p \in state.pending
        PROVE  Fits(p)'
    <3>1. Fits(p) /\ wire'[p.item] = wire[p.item]
      BY <1>2 DEF PendingOK
    <3> QED
      BY <1>3, <3>1 DEF Fits
  <2> QED
    BY <2>1
<1>5. \A j \in Functions : Of(state', j) = Of(state, j)
  BY DEF Of
<1> QED
  BY <1>1, <1>2, <1>3, <1>4, <1>5 DEF PendingOK

-----------------------------------------------------------------------------
(* The text.                                                               *)

\* The next piece of a message.
LEMMA Spoken ==
  ASSUME LiveOK, NEW i \in Texts, wire[i].phase # "done", wire[i].n < 2,
         state' \in StateRecord, state'.content = Append(state.content, Piece(i)),
         state'.calls = state.calls, state'.pending = state.pending,
         kind = "codex" => state'.streamed,
         events' = events \o <<Piece(i)>>, wire' = [wire EXCEPT ![i].n = @ + 1],
         UNCHANGED <<kind, style>>
  PROVE  LiveOK'
<1> DEFINE x == Piece(i)
<1>1. /\ wire' \in [Items -> [phase : StreamStages, n : 0 .. 2]]
      /\ wire'[i].phase = wire[i].phase /\ wire'[i].n = wire[i].n + 1
      /\ \A j \in Items : j # i => wire'[j] = wire[j]
  <2>1. i \in Items /\ wire \in [Items -> [phase : StreamStages, n : 0 .. 2]]
    BY Apart, LiveTypes, Zenon
  <2>2. wire[i] \in [phase : StreamStages, n : 0 .. 2]
    BY <2>1, Zenon
  <2>3. PICK w : w = [wire[i] EXCEPT !.n = @ + 1]
    OBVIOUS
  <2>4. wire' = [wire EXCEPT ![i] = w]
    BY <2>3
  <2>5. w \in [phase : StreamStages, n : 0 .. 2] /\ w.phase = wire[i].phase /\ w.n = wire[i].n + 1
    BY <2>2, <2>3
  <2>6. wire' \in [Items -> [phase : StreamStages, n : 0 .. 2]]
    BY <2>1, <2>4, <2>5
  <2>7. wire'[i] = w /\ \A j \in Items : j # i => wire'[j] = wire[j]
    BY <2>1, <2>4
  <2> QED
    BY <2>5, <2>6, <2>7, Zenon
<1>2. wire[i].n + 1 \in 1 .. 2 /\ wire[i].n \in 0 .. 2
  BY Apart, LiveTypes
<1>3. x \in SinkEvents /\ x \in TextPieces /\ x[1] = i /\ x[2] = wire[i].n + 1 /\ x[2] > 0 /\ x[2] # 0
  BY <1>2, Apart DEF SinkEvents, TextPieces, Piece
<1> HIDE DEF x
<1>4. /\ state'.content = Append(state.content, x) /\ events' = events \o <<x>>
  BY DEF x
<1>5. /\ ToSet(state'.content) = ToSet(state.content) \cup {x}
  BY <1>3, <1>4, LiveTypes, Said
<1>6. /\ events' \in Seq(SinkEvents) /\ ToSet(events') = ToSet(events) \cup {x}
      /\ Len(events) \in Nat /\ DOMAIN events = 1 .. Len(events)
      /\ DOMAIN events' = 1 .. Len(events) + 1
      /\ \A k \in DOMAIN events : events'[k] = events[k]
      /\ events'[Len(events) + 1] = x
  <2>1. events \in Seq(SinkEvents)
    BY LiveTypes
  <2>2. events' = Append(events, x)
    BY <1>3, <1>4, <2>1, Said
  <2>3. /\ Append(events, x) \in Seq(SinkEvents) /\ ToSet(Append(events, x)) = ToSet(events) \cup {x}
        /\ Len(events) \in Nat /\ DOMAIN events = 1 .. Len(events)
        /\ DOMAIN Append(events, x) = 1 .. Len(events) + 1
        /\ \A k \in DOMAIN events : Append(events, x)[k] = events[k]
        /\ Append(events, x)[Len(events) + 1] = x
    BY <1>3, <2>1, Said
  <2> QED
    BY <2>2, <2>3
<1>7. \A e \in ToSet(state.content) : e[1] \in Texts /\ e[2] \in 1 .. 2
  BY LiveTypes DEF TextPieces
<1>8. TextOK'
  <2>1. TextOK
    BY DEF LiveOK
  <2>2. x \notin ToSet(state.content)
    BY <1>2, <1>3, <2>1 DEF TextOK
  <2>3. Once(state'.content)
    <3>1. state.content \in Seq(TextPieces) /\ Once(state.content)
      BY <2>1, LiveTypes DEF TextOK, Shown
    <3> QED
      BY <1>3, <1>4, <2>2, <3>1, OnceMore
  <2>4. \A e \in ToSet(events') : e[2] > 0 => e \in ToSet(state'.content) /\ (kind = "codex" => state'.streamed)
    BY <1>5, <1>6, <2>1 DEF TextOK, Shown
  <2>5. \A e \in ToSet(state'.content) : wire'[e[1]].phase = "done" \/ e[2] <= wire'[e[1]].n
    <3>1. wire'[x[1]].phase = "done" \/ x[2] <= wire'[x[1]].n
      BY <1>1, <1>2, <1>3
    <3>2. ASSUME NEW e \in ToSet(state.content)
          PROVE  wire'[e[1]].phase = "done" \/ e[2] <= wire'[e[1]].n
      <4>1. wire[e[1]].phase = "done" \/ e[2] <= wire[e[1]].n
        BY <2>1 DEF TextOK
      <4>2. CASE e[1] = i
        BY <1>1, <1>2, <1>7, <4>1, <4>2
      <4>3. CASE e[1] # i
        BY <1>1, <1>7, <4>1, <4>3, Apart
      <4> QED
        BY <4>2, <4>3
    <3> QED
      BY <1>5, <3>1, <3>2
  <2>6. kind' = "vercel" => \A j \in Texts : wire'[j].phase = "none"
    BY <1>1, <2>1, Apart DEF TextOK
  <2>7. Shown(state)'
    BY <2>3, <2>4 DEF Shown
  <2> QED
    BY <2>5, <2>6, <2>7 DEF TextOK
<1>9. PendingOK' /\ CallsOK' /\ (Stuck => Stuck')
  BY <1>1, Apart, FunctionsKept
<1>10. BegunOK'
  <2>1. BegunOK
    BY DEF LiveOK
  <2>2. \A e \in ToSet(events') : e[2] = 0 => e[1] \in Functions /\ wire'[e[1]].phase # "none"
    BY <1>1, <1>3, <1>6, <2>1, Apart DEF BegunOK
  <2>3. StartsOnce => StartsOnce'
    <3> SUFFICES ASSUME StartsOnce, NEW j \in DOMAIN events', NEW k \in DOMAIN events',
                        events'[j][2] = 0, events'[j] = events'[k]
                 PROVE  j = k
      BY DEF StartsOnce
    <3>1. \A l \in DOMAIN events' : l \in 1 .. Len(events) \/ l = Len(events) + 1
      BY <1>6
    <3>2. j \in 1 .. Len(events) /\ k \in 1 .. Len(events)
      BY <1>3, <1>6, <3>1
    <3> QED
      BY <1>6, <3>2 DEF StartsOnce
  <2> QED
    BY <1>9, <2>1, <2>2, <2>3 DEF BegunOK
<1>11. StreamTypes'
  BY <1>1, <1>6, LiveTypes DEF LiveOK, StreamTypes
<1> QED
  BY <1>8, <1>9, <1>10, <1>11 DEF LiveOK

\* Searches, and what a message's item says of itself: no text comes.
LEMMA Quiet ==
  ASSUME LiveOK, NEW i \in Texts \cup Searches, NEW phase \in {"open", "done"}, kind = "codex",
         i \in Texts => wire[i].phase # "done",
         state' \in StateRecord, state'.content = state.content, state'.streamed = state.streamed,
         state'.calls = state.calls, state'.pending = state.pending,
         wire' = Sends(i, phase), UNCHANGED <<kind, style, events>>
  PROVE  LiveOK'
<1>1. /\ wire' \in [Items -> [phase : StreamStages, n : 0 .. 2]]
      /\ wire'[i].phase = phase /\ wire'[i].n = wire[i].n /\ \A j \in Items : j # i => wire'[j] = wire[j]
  BY Apart, LiveTypes DEF Sends, StreamStages
<1>2. PendingOK' /\ CallsOK' /\ (Stuck => Stuck')
  BY <1>1, Apart, FunctionsKept
<1>3. BegunOK'
  BY <1>1, <1>2, Apart, BegunKept
<1>4. TextOK'
  <2>1. TextOK /\ \A e \in ToSet(state.content) : e[1] \in Texts
    BY LiveTypes DEF LiveOK, TextPieces
  <2>2. Shown(state)'
    BY <2>1 DEF TextOK, Shown, Once
  <2>3. \A e \in ToSet(state.content) : wire'[e[1]].phase = "done" \/ e[2] <= wire'[e[1]].n
    <3>1. ASSUME NEW e \in ToSet(state.content)
          PROVE  wire'[e[1]].phase = "done" \/ e[2] <= wire'[e[1]].n
      <4>1. wire[e[1]].phase = "done" \/ e[2] <= wire[e[1]].n
        BY <2>1 DEF TextOK
      <4>2. CASE e[1] = i
        BY <1>1, <2>1, <4>1, <4>2
      <4>3. CASE e[1] # i
        BY <1>1, <2>1, <4>1, <4>3, Apart
      <4> QED
        BY <4>2, <4>3
    <3> QED
      BY <3>1
  <2> QED
    BY <2>2, <2>3 DEF TextOK
<1>5. StreamTypes'
  BY <1>1, LiveTypes DEF LiveOK, StreamTypes
<1> QED
  BY <1>2, <1>3, <1>4, <1>5 DEF LiveOK

LEMMA WholeText ==
  ASSUME NEW i \in Texts
  PROVE  Whole(i) \in Seq(TextPieces) /\ Once(Whole(i)) /\ \A e \in ToSet(Whole(i)) : e[1] = i
<1>1. <<i, 1>> \in TextPieces /\ <<i, 2>> \in TextPieces
  BY DEF TextPieces
<1>2. Whole(i) = <<<<i, 1>>, <<i, 2>>>>
  BY DEF Whole
<1>3. Len(Whole(i)) = 2 /\ DOMAIN Whole(i) = 1 .. 2 /\ Whole(i)[1] = <<i, 1>> /\ Whole(i)[2] = <<i, 2>>
  BY <1>2
<1>4. \A k \in 1 .. 2 : k = 1 \/ k = 2
  OBVIOUS
<1>5. Once(Whole(i)) /\ \A e \in ToSet(Whole(i)) : e[1] = i
  BY <1>3, <1>4 DEF Once, ToSet
<1> QED
  BY <1>1, <1>2, <1>5

\* capture_message_item, and the item is done.
LEMMA Finishes ==
  ASSUME LiveOK, NEW i \in Texts, kind = "codex", wire[i].phase # "done",
         state' = CaptureMessage(state, i), wire' = Sends(i, "done"), UNCHANGED <<kind, style, events>>
  PROVE  LiveOK'
<1>1. CASE state.streamed
  <2>1. state' = state
    BY <1>1 DEF CaptureMessage
  <2> QED
    BY <2>1, Quiet, LiveTypes
<1>2. CASE ~state.streamed
  <2>1. /\ state' \in StateRecord /\ state'.content = Whole(i) /\ state'.streamed = state.streamed
        /\ state'.calls = state.calls /\ state'.pending = state.pending
    BY <1>2, WholeText, LiveTypes DEF CaptureMessage, StateRecord
  <2>2. /\ wire' \in [Items -> [phase : StreamStages, n : 0 .. 2]]
        /\ wire'[i].phase = "done" /\ \A j \in Items : j # i => wire'[j] = wire[j]
    BY Apart, LiveTypes DEF Sends, StreamStages
  <2>3. PendingOK' /\ CallsOK' /\ (Stuck => Stuck')
    BY <2>1, <2>2, Apart, FunctionsKept
  <2>4. BegunOK'
    BY <2>2, <2>3, Apart, BegunKept
  <2>5. TextOK'
    <3>1. \A e \in ToSet(events) : ~(e[2] > 0)
      BY <1>2 DEF LiveOK, TextOK, Shown
    <3>2. Shown(state)'
      BY <2>1, <3>1, WholeText DEF Shown
    <3> QED
      BY <2>1, <2>2, <3>2, WholeText DEF TextOK
  <2>6. StreamTypes'
    BY <2>1, <2>2, LiveTypes DEF LiveOK, StreamTypes
  <2> QED
    BY <2>3, <2>4, <2>5, <2>6 DEF LiveOK
<1> QED
  BY <1>1, <1>2

-----------------------------------------------------------------------------
(* Which input a call of Vercel's takes.                                   *)

LEMMA Matched ==
  ASSUME LiveOK, NEW i \in Functions, ~HasCall(state, Id(i, style.renamed)),
         wire[i].phase \in (IF style.streamed THEN {"ended", "done"} ELSE {"none", "done"}),
         NEW found, found = Match(state, i, style.renamed)
  PROVE  /\ (found = Of(state, i) /\ ~Stuck) \/ (found = {} /\ Stuck)
         /\ found = {} => wire[i].phase = "none" \/ Stuck
         /\ wire[i].phase \notin {"open", "done"}
<1>1. wire[i].phase \notin {"open", "done"}
  BY DEF LiveOK, CallsOK
<1>2. PendingOK /\ \A p \in state.pending : p \in PendingRecord /\ Fits(p)
  BY LiveTypes DEF LiveOK, PendingOK
<1> DEFINE C == Candidates(state, i, style.renamed)
<1>3. found = IF \E p \in C : C = {p} THEN C ELSE {}
  BY DEF Match
<1>4. CASE ~style.streamed
  <2>1. state.pending = {} /\ wire[i].phase = "none"
    BY <1>1, <1>2, <1>4 DEF PendingOK
  <2>2. Of(state, i) = {} /\ ~Stuck
    BY <2>1 DEF Of, Stuck
  <2>3. C = {}
    BY <2>1, <2>2 DEF Candidates
  <2> QED
    BY <1>1, <1>3, <2>1, <2>2, <2>3
<1>5. CASE style.streamed
  <2>1. wire[i].phase = "ended"
    BY <1>1, <1>5
  <2>2. PICK p0 \in state.pending : p0.item = i
    BY <1>2, <2>1 DEF PendingOK, Of
  <2>3. p0.ended /\ p0.n = 2 /\ p0 \in PendingRecord
    BY <1>2, <2>1, <2>2 DEF Fits
  <2>4. ASSUME NEW q \in Of(state, i)
        PROVE  q = p0
    <3>1. q \in PendingRecord /\ q.item = i /\ Fits(q)
      BY <1>2 DEF Of
    <3>2. q.ended /\ q.n = 2
      BY <2>1, <3>1 DEF Fits
    <3> QED
      BY <2>2, <2>3, <3>1, <3>2 DEF PendingRecord
  <2>5. Of(state, i) = {p0}
    BY <2>2, <2>4 DEF Of
  <2>6. CASE ~style.renamed
    <3>1. C = {p0} /\ ~Stuck
      BY <2>5, <2>6 DEF Candidates, Stuck
    <3> QED
      BY <1>1, <1>3, <2>5, <3>1
  <2>7. CASE style.renamed
    <3>1. C = {p \in state.pending : p.ended /\ Equivalent(i, p)}
      BY <2>7 DEF Candidates
    <3>2. p0 \in C
      BY <2>2, <2>3, <3>1 DEF Equivalent
    <3>3. CASE C = {p0}
      <4>1. ~Stuck
        <5>1. SUFFICES ASSUME style.equal, NEW p \in state.pending, NEW q \in state.pending,
                              p # q, p.ended, q.ended
                       PROVE  FALSE
          BY DEF Stuck
        <5>2. p.n = 2 /\ q.n = 2
          BY <1>2, <5>1 DEF Fits
        <5>3. p \in C /\ q \in C
          BY <3>1, <5>1, <5>2 DEF Equivalent
        <5> QED
          BY <3>3, <5>1, <5>3
      <4> QED
        BY <1>1, <1>3, <2>5, <3>3, <4>1
    <3>4. CASE C # {p0}
      <4>1. PICK q \in C : q # p0
        BY <3>2, <3>4
      <4>2. found = {}
        BY <1>3, <3>2, <4>1
      <4>3. q \in state.pending /\ q.ended /\ Equivalent(i, q)
        BY <3>1, <4>1
      <4>4. q.item # i
        BY <2>5, <4>1, <4>3 DEF Of
      <4>5. style.equal
        BY <4>3, <4>4 DEF Equivalent
      <4>6. Stuck
        BY <2>2, <2>3, <2>7, <4>1, <4>3, <4>5 DEF Stuck
      <4> QED
        BY <1>1, <4>2, <4>6
    <3> QED
      BY <3>3, <3>4
  <2> QED
    BY <2>6, <2>7
<1> QED
  BY <1>4, <1>5

-----------------------------------------------------------------------------
(* The output of Codex's terminal event.                                   *)

\* What the items leave of the answer, taken one after the other.
AnswerOK(s) == s \in StateRecord /\ Shown(s) /\ CallsAre(s.calls)

LEMMA RepeatKeeps ==
  ASSUME StreamTypes, kind = "codex", NEW s, AnswerOK(s), NEW i \in Items
  PROVE  AnswerOK(Repeat(s, i))
<1>1. s \in StateRecord /\ Shown(s) /\ CallsAre(s.calls) /\ s.calls \in Seq(CallRecord)
      /\ ~style.renamed /\ style \in Styles
  BY DEF AnswerOK, StateRecord, StreamTypes
<1>2. CASE i \in Functions /\ ~\E c \in ToSet(s.calls) : c.item = i
  <2> DEFINE c == Call(i, FALSE, 2, FALSE, TRUE)
             r == [s EXCEPT !.pending = @ \ Of(s, i), !.calls = Append(@, c)]
  <2>1. Repeat(s, i) = r
    BY <1>2, Apart DEF Repeat, FinishFunction
  <2>2. c \in CallRecord /\ c.item = i /\ c.n = 2 /\ c.id = Id(i, style.renamed)
    <3>1. style.renamed = FALSE
      BY <1>1 DEF Styles
    <3>3. PICK valid \in BOOLEAN : valid = (2 # 1)
      OBVIOUS
    <3>2. c = [item |-> i, id |-> <<i, FALSE>>, n |-> 2, valid |-> valid, provisional |-> FALSE,
               local |-> TRUE, answered |-> FALSE]
      BY <3>3 DEF Call, Id
    <3>4. i \in Functions /\ 2 \in 0 .. 2
      BY <1>2
    <3> HIDE DEF c
    <3>5. c \in CallRecord
      BY <3>2, <3>3, <3>4 DEF CallRecord
    <3> QED
      BY <3>1, <3>2, <3>5 DEF Id
  <2> HIDE DEF c
  <2>3. /\ Append(s.calls, c) \in Seq(CallRecord)
        /\ Len(s.calls) \in Nat /\ DOMAIN s.calls = 1 .. Len(s.calls)
        /\ DOMAIN Append(s.calls, c) = 1 .. Len(s.calls) + 1
        /\ \A k \in DOMAIN s.calls : Append(s.calls, c)[k] = s.calls[k]
        /\ Append(s.calls, c)[Len(s.calls) + 1] = c
    BY <1>1, <2>2, Said
  <2>4. r \in StateRecord /\ r.calls = Append(s.calls, c) /\ r.content = s.content /\ r.streamed = s.streamed
    <3>1. s.pending \ Of(s, i) \in SUBSET PendingRecord
      BY <1>1 DEF StateRecord
    <3> QED
      BY <1>1, <2>3, <3>1 DEF StateRecord
  <2> HIDE DEF r
  <2>5. \A k \in 1 .. Len(s.calls) : s.calls[k].item # i
    BY <1>2, <2>3 DEF ToSet
  <2>6. CallsAre(r.calls)
    <3>1. \A k \in 1 .. Len(s.calls) + 1 : k \in 1 .. Len(s.calls) \/ k = Len(s.calls) + 1
      BY <2>3
    <3>2. \A j \in DOMAIN r.calls :
            /\ r.calls[j].id = Id(r.calls[j].item, style.renamed)
            /\ r.calls[j].n = 0 => wire[r.calls[j].item].n = 0
      BY <1>1, <2>2, <2>3, <2>4, <3>1 DEF CallsAre
    <3>3. \A j, k \in DOMAIN r.calls : r.calls[j].item = r.calls[k].item => j = k
      BY <1>1, <2>2, <2>3, <2>4, <2>5, <3>1 DEF CallsAre
    <3> QED
      BY <3>2, <3>3 DEF CallsAre
  <2>7. Shown(r)
    BY <1>1, <2>4 DEF Shown
  <2> QED
    BY <2>1, <2>4, <2>6, <2>7 DEF AnswerOK
<1>3. CASE i \in Functions /\ \E c \in ToSet(s.calls) : c.item = i
  BY <1>3, Apart DEF Repeat
<1>4. CASE i \in Searches
  <2>1. Repeat(s, i) = CaptureSearch(s, i)
    BY <1>4, Apart DEF Repeat
  <2>2. CASE i \in ToSet(s.searches)
    BY <2>1, <2>2 DEF CaptureSearch
  <2>3. CASE i \notin ToSet(s.searches)
    <3> DEFINE r == [s EXCEPT !.searches = Append(@, i)]
    <3>1. Append(s.searches, i) \in Seq(Searches)
      BY <1>1, <1>4, AppendProperties DEF StateRecord
    <3>2. r \in StateRecord /\ r.calls = s.calls /\ r.content = s.content /\ r.streamed = s.streamed
      BY <1>1, <3>1 DEF StateRecord
    <3>3. Repeat(s, i) = r
      BY <2>1, <2>3 DEF CaptureSearch
    <3> HIDE DEF r
    <3> QED
      BY <1>1, <3>2, <3>3 DEF AnswerOK, Shown
  <2> QED
    BY <2>2, <2>3
<1>5. CASE i \in Texts
  <2>1. Repeat(s, i) = CaptureMessage(s, i)
    BY <1>5, Apart DEF Repeat
  <2>2. CASE s.streamed
    BY <2>1, <2>2 DEF CaptureMessage
  <2>3. CASE ~s.streamed
    <3> DEFINE r == [s EXCEPT !.content = Whole(i)]
    <3>1. r \in StateRecord /\ r.calls = s.calls /\ r.content = Whole(i)
      BY <1>1, <1>5, WholeText DEF StateRecord
    <3>2. Repeat(s, i) = r
      BY <2>1, <2>3 DEF CaptureMessage
    <3>3. \A e \in ToSet(events) : ~(e[2] > 0)
      BY <1>1, <2>3 DEF Shown
    <3> HIDE DEF r
    <3> QED
      BY <1>1, <1>5, <3>1, <3>2, <3>3, WholeText DEF AnswerOK, Shown
  <2> QED
    BY <2>2, <2>3
<1> QED
  BY <1>2, <1>3, <1>4, <1>5, Apart

LEMMA RepeatedOK ==
  ASSUME StreamTypes, kind = "codex", AnswerOK(state), NEW output \in Outputs
  PROVE  AnswerOK(Repeated(output))
<1> DEFINE after[k \in 0 .. Len(output)] == IF k = 0 THEN state ELSE Repeat(after[k - 1], output[k])
           Of_(g, n) == [k \in 0 .. n |-> IF k = 0 THEN state ELSE Repeat(g[k - 1], output[k])]
           Ns == {n \in Nat : \E g : g = Of_(g, n)}
           Ok == {n \in Nat : n <= Len(output) => AnswerOK(after[n])}
<1>1. output \in Seq(Items) /\ Len(output) \in Nat /\ \A k \in 1 .. Len(output) : output[k] \in Items
  <2>1. output \in Seq(Items)
    BY GatewayAssumption DEF GatewayAssumption, Items
  <2> QED
    BY <2>1, LenProperties, ElementOfSeq
<1>2. Ns = Nat
  <2>1. 0 \in Ns
    <3>1. [k \in 0 .. 0 |-> state] = Of_([k \in 0 .. 0 |-> state], 0)
      OBVIOUS
    <3> QED
      BY <3>1
  <2>2. ASSUME NEW n \in Ns
        PROVE  n + 1 \in Ns
    <3>1. PICK g : g = Of_(g, n)
      OBVIOUS
    <3> DEFINE h == [k \in 0 .. n + 1 |-> IF k = n + 1 THEN Repeat(g[n], output[n + 1]) ELSE g[k]]
    <3>2. ASSUME NEW k \in 0 .. n + 1
          PROVE  h[k] = IF k = 0 THEN state ELSE Repeat(h[k - 1], output[k])
      BY <3>1
    <3>3. h = Of_(h, n + 1)
      BY <3>2
    <3> HIDE DEF h
    <3>4. \E x : x = Of_(x, n + 1)
      BY <3>3
    <3> QED
      BY <3>4
  <2>3. Ns \in SUBSET Nat
    OBVIOUS
  <2> HIDE DEF Ns
  <2> QED
    BY <2>1, <2>2, <2>3, SetInduction
<1>3. after = Of_(after, Len(output))
  <2>1. PICK g : g = Of_(g, Len(output))
    BY <1>1, <1>2
  <2> QED
    BY <2>1
<1>4. Repeated(output) = after[Len(output)]
  BY DEF Repeated
<1>5. \A k \in 0 .. Len(output) : after[k] = IF k = 0 THEN state ELSE Repeat(after[k - 1], output[k])
  BY <1>3
<1> HIDE DEF after
<1>6. Ok = Nat
  <2>1. 0 \in Ok
    BY <1>1, <1>5
  <2>2. ASSUME NEW n \in Ok
        PROVE  n + 1 \in Ok
    <3>1. CASE n + 1 <= Len(output)
      <4>1. n \in 0 .. Len(output) /\ n + 1 \in 1 .. Len(output) /\ n + 1 \in 0 .. Len(output)
            /\ n + 1 # 0 /\ n + 1 - 1 = n /\ n <= Len(output)
        BY <1>1, <3>1
      <4>2. after[n + 1] = Repeat(after[n], output[n + 1])
        BY <1>5, <4>1
      <4>3. AnswerOK(after[n]) /\ output[n + 1] \in Items
        BY <1>1, <4>1
      <4>4. AnswerOK(after[n + 1])
        BY <4>2, <4>3, RepeatKeeps
      <4> QED
        BY <4>4
    <3> QED
      BY <3>1
  <2>3. Ok \in SUBSET Nat
    OBVIOUS
  <2> HIDE DEF Ok
  <2> QED
    BY <2>1, <2>2, <2>3, SetInduction
<1> QED
  BY <1>1, <1>4, <1>6

-----------------------------------------------------------------------------
(* Every step.                                                             *)

\* An event is taken in, or refused, or it is the last one.
LEMMA Received ==
  ASSUME StreamInv, at = "stream", UNCHANGED <<at, result>>, LiveOK'
  PROVE  StreamInv'
BY DEF StreamInv, StreamFaithful, Results

LEMMA Refused ==
  ASSUME StreamInv, NEW sends, Refuse(sends)
  PROVE  StreamInv'
BY DEF StreamInv, Refuse, StreamFaithful, Results

LEMMA Closes ==
  ASSUME StreamInv, NEW s, at = "stream", CloseStream(s),
         result' = "response" => StreamFaithful'
  PROVE  StreamInv'
BY DEF StreamInv, CloseStream, Finished, StreamFaithful, Results, SendErrors

LEMMA NothingSaid ==
  ASSUME LiveOK
  PROVE  events \o <<>> = events
BY LiveTypes, ConcatEmptySeq

LEMMA SearchCaptured ==
  ASSUME LiveOK, NEW i \in Searches, NEW s, s = CaptureSearch(state, i)
  PROVE  /\ s \in StateRecord /\ s.content = state.content /\ s.streamed = state.streamed
         /\ s.calls = state.calls /\ s.pending = state.pending
<1>1. state \in StateRecord /\ state.searches \in Seq(Searches)
  BY LiveTypes DEF StateRecord
<1>2. Append(state.searches, i) \in Seq(Searches)
  BY <1>1, AppendProperties
<1> QED
  BY <1>1, <1>2 DEF CaptureSearch, StateRecord

LEMMA PieceTaken ==
  ASSUME LiveOK, NEW i \in Texts, wire[i].n < 2, NEW s,
         \/ s = [state EXCEPT !.content = Append(@, Piece(i)), !.streamed = TRUE]
         \/ s = [state EXCEPT !.content = Append(@, Piece(i))]
  PROVE  /\ s \in StateRecord /\ s.content = Append(state.content, Piece(i))
         /\ s.calls = state.calls /\ s.pending = state.pending
         /\ s = [state EXCEPT !.content = Append(@, Piece(i)), !.streamed = TRUE] => s.streamed
<1>1. Piece(i) \in TextPieces
  BY Apart, LiveTypes DEF Piece, TextPieces
<1>2. Append(state.content, Piece(i)) \in Seq(TextPieces)
  BY <1>1, LiveTypes, AppendProperties
<1> QED
  BY <1>2, LiveTypes DEF StateRecord

LEMMA AddedOK ==
  ASSUME StreamInv, NEW i \in Items, Added(i)
  PROVE  StreamInv'
<1>0. at = "stream" /\ kind = "codex" /\ wire[i].phase = "none"
  BY Apart DEF Added, Receive
<1>1. LiveOK /\ at = "stream" /\ kind = "codex" /\ wire[i].phase = "none" /\ style.streamed
      /\ events \o <<>> = events
  <2>1. LiveOK
    BY <1>0 DEF StreamInv
  <2> QED
    BY <1>0, <2>1, NothingSaid DEF LiveOK, StreamTypes
<1>2. CASE i \in Functions
  <2>1. Receive([state EXCEPT !.pending = @ \cup {[item |-> i, n |-> 0, ended |-> FALSE]}],
                <<<<i, 0>>>>, Sends(i, "open"))
    BY <1>2, Apart DEF Added
  <2>2. LiveOK'
    BY <1>1, <1>2, <2>1, Opened DEF Receive, thread
  <2> QED
    BY <1>1, <2>1, <2>2, Received DEF Receive, thread
<1>3. CASE i \in Searches
  <2>1. Receive(CaptureSearch(state, i), <<>>, Sends(i, "open"))
    BY <1>3, Apart DEF Added
  <2>2. LiveOK'
    BY <1>1, <1>3, <2>1, SearchCaptured, Quiet, Apart DEF Receive, thread
  <2> QED
    BY <1>1, <2>1, <2>2, Received DEF Receive, thread
<1>4. CASE i \in Texts
  <2>1. Receive(state, <<>>, Sends(i, "open"))
    BY <1>4, Apart DEF Added
  <2>2. LiveOK'
    BY <1>1, <1>4, <2>1, Quiet, LiveTypes, Apart DEF Receive, thread
  <2> QED
    BY <1>1, <2>1, <2>2, Received DEF Receive, thread
<1> QED
  BY <1>2, <1>3, <1>4, Apart

\* More of an input.
LEMMA GrownOK ==
  ASSUME LiveOK, NEW i \in Functions, wire[i].phase = "open", wire[i].n < 2,
         state' = Grown(state, i), wire' = [wire EXCEPT ![i].n = @ + 1],
         UNCHANGED <<kind, style, events>>
  PROVE  LiveOK'
<1>0. PICK n \in 0 .. 2 : n = wire[i].n + 1
  BY Apart, LiveTypes
<1> DEFINE w == Far(n, FALSE)
           pending == {IF p.item = i THEN [p EXCEPT !.n = @ + 1] ELSE p : p \in state.pending}
<1>1. wire' = [wire EXCEPT ![i] = w]
  <2>1. wire[i] \in [phase : StreamStages, n : 0 .. 2] /\ wire[i].phase = "open"
    BY Apart, LiveTypes
  <2>2. [wire[i] EXCEPT !.n = @ + 1] = w
    BY <1>0, <2>1 DEF Far
  <2>3. wire' = [wire EXCEPT ![i] = [wire[i] EXCEPT !.n = @ + 1]]
    OBVIOUS
  <2> QED
    BY <2>1, <2>2, <2>3
<1>2. PICK over \in BOOLEAN : over = FALSE
  OBVIOUS
<1>3. \A p \in state.pending : Becomes(i, n, over, p, IF p.item = i THEN [p EXCEPT !.n = @ + 1] ELSE p)
  <2>1. ASSUME NEW p \in state.pending, p.item = i
        PROVE  [p EXCEPT !.n = @ + 1] = [p EXCEPT !.n = n, !.ended = over]
    <3>1. p \in PendingRecord /\ Fits(p)
      BY LiveTypes DEF LiveOK, PendingOK
    <3>2. p.n = wire[i].n /\ p.ended = over
      BY <1>2, <2>1, <3>1 DEF Fits, PendingRecord
    <3> QED
      BY <1>0, <3>1, <3>2 DEF PendingRecord
  <2> QED
    BY <2>1 DEF Becomes
<1>4. \A q \in pending : \E p \in state.pending : Becomes(i, n, over, p, q)
  BY <1>3
<1>5. \A p \in state.pending : \E q \in pending : Becomes(i, n, over, p, q)
  BY <1>3
<1>6. state' = [state EXCEPT !.pending = pending]
  BY DEF Grown
<1>7. wire' = [wire EXCEPT ![i] = Far(n, over)] /\ (over => n = 2)
  BY <1>1, <1>2
<1> HIDE DEF pending, w
<1>8. Carries(i, n, over, pending)
  BY <1>4, <1>5, <1>6, <1>7 DEF Carries
<1> QED
  BY <1>8, Carried

LEMMA DeltaOK ==
  ASSUME StreamInv, NEW i \in Items, Delta(i)
  PROVE  StreamInv'
<1>1. /\ LiveOK /\ at = "stream" /\ kind = "codex" /\ wire[i].phase = "open" /\ wire[i].n < 2
      /\ i \notin Searches /\ events \o <<>> = events
  BY NothingSaid DEF StreamInv, Delta, Receive
<1>2. CASE i \in Functions
  <2>1. Receive(Grown(state, i), <<>>, [wire EXCEPT ![i].n = @ + 1])
    BY <1>2 DEF Delta
  <2>2. LiveOK'
    BY <1>1, <1>2, <2>1, GrownOK DEF Receive, thread
  <2> QED
    BY <1>1, <2>1, <2>2, Received DEF Receive, thread
<1>3. CASE i \in Texts
  <2>1. Receive([state EXCEPT !.content = Append(@, Piece(i)), !.streamed = TRUE], <<Piece(i)>>,
                [wire EXCEPT ![i].n = @ + 1])
    BY <1>3, Apart DEF Delta
  <2>2. LiveOK'
    BY <1>1, <1>3, <2>1, PieceTaken, Spoken DEF Receive, thread
  <2> QED
    BY <1>1, <2>1, <2>2, Received DEF Receive, thread
<1> QED
  BY <1>1, <1>2, <1>3, Apart

LEMMA TextDeltaOK ==
  ASSUME StreamInv, NEW i \in Items, TextDelta(i)
  PROVE  StreamInv'
<1>1. /\ LiveOK /\ at = "stream" /\ kind = "vercel" /\ i \in Texts /\ wire[i].n < 2
      /\ wire[i].phase # "done"
      /\ Receive([state EXCEPT !.content = Append(@, Piece(i))], <<Piece(i)>>,
                 [wire EXCEPT ![i].n = @ + 1])
  BY DEF StreamInv, TextDelta, Receive, LiveOK, TextOK
<1>2. LiveOK'
  BY <1>1, PieceTaken, Spoken DEF Receive, thread
<1> QED
  BY <1>1, <1>2, Received DEF Receive, thread

LEMMA DoneOK ==
  ASSUME StreamInv, NEW i \in Items, NEW carried \in {0, 2}, Done(i, carried)
  PROVE  StreamInv'
<1>0. at = "stream" /\ kind = "codex" /\ wire[i].n # 1
  BY Apart DEF Done, Receive, Refuse
<1>1. LiveOK /\ at = "stream" /\ kind = "codex" /\ wire[i].n # 1 /\ events \o <<>> = events
  BY <1>0, NothingSaid DEF StreamInv
<1>2. CASE i \in Functions /\ HasCall(state, Id(i, FALSE))
  <2>1. Refuse(Sends(i, "done"))
    BY <1>2, Apart DEF Done
  <2> QED
    BY <2>1, Refused
<1>3. CASE i \in Functions /\ ~HasCall(state, Id(i, FALSE))
  <2>1. Receive(FinishFunction(state, i, carried), <<>>, Sends(i, "done"))
    BY <1>3, Apart DEF Done
  <2> DEFINE streamed == {p.n : p \in Of(state, i)}
             n == IF carried > 0 THEN carried ELSE IF streamed = {} THEN 0 ELSE CHOOSE k \in streamed : TRUE
             c == Call(i, FALSE, n, FALSE, TRUE)
  <2>2. style.renamed = FALSE /\ ~Stuck /\ PendingOK /\ CallsOK
    BY <1>1 DEF LiveOK, StreamTypes, Styles, Stuck
  <2>3. wire[i].phase # "done"
    BY <1>3, <2>2 DEF CallsOK
  <2>4. n \in 0 .. 2 /\ (n = 0 => wire[i].n = 0)
    <3>1. \A p \in Of(state, i) : p.n = wire[i].n
      BY <2>2 DEF PendingOK, Fits, Of
    <3>2. streamed \subseteq {wire[i].n}
      BY <3>1
    <3>3. streamed = {} => wire[i].n = 0
      <4>1. streamed = {} => Of(state, i) = {}
        OBVIOUS
      <4>2. wire[i].phase \in StreamStages
        BY <1>1, LiveTypes
      <4> QED
        BY <1>3, <2>2, <2>3, <4>1, <4>2 DEF PendingOK, StreamStages
    <3>4. streamed # {} => (CHOOSE k \in streamed : TRUE) = wire[i].n
      BY <3>2
    <3>5. wire[i].n \in 0 .. 2
      BY <1>1, LiveTypes
    <3> DEFINE of == CHOOSE k \in streamed : TRUE
    <3>6. n = IF carried > 0 THEN carried ELSE IF streamed = {} THEN 0 ELSE of
      OBVIOUS
    <3>7. streamed # {} => of = wire[i].n
      BY <3>4
    <3> HIDE DEF streamed, of, n
    <3>8. carried = 0 \/ carried = 2
      OBVIOUS
    <3>9. CASE carried = 2
      BY <3>6, <3>9
    <3>10. CASE carried = 0
      BY <3>3, <3>5, <3>6, <3>7, <3>10
    <3> QED
      BY <3>8, <3>9, <3>10
  <2>5. FinishFunction(state, i, carried) = [state EXCEPT !.pending = @ \ Of(state, i), !.calls = Append(@, c)]
    BY DEF FinishFunction
  <2> HIDE DEF n
  <2>6. c \in CallRecord /\ c.item = i /\ c.id = Id(i, style.renamed) /\ c.n = n
    <3>1. PICK valid \in BOOLEAN : valid = (n # 1)
      OBVIOUS
    <3>2. c = [item |-> i, id |-> <<i, FALSE>>, n |-> n, valid |-> valid, provisional |-> FALSE,
               local |-> TRUE, answered |-> FALSE]
      BY <3>1 DEF Call, Id
    <3> HIDE DEF c
    <3> QED
      BY <1>3, <2>2, <2>4, <3>2 DEF CallRecord, Id
  <2> HIDE DEF c
  <2>7. LiveOK'
    BY <1>1, <1>3, <2>1, <2>2, <2>3, <2>4, <2>5, <2>6, Taken DEF Receive, thread
  <2> QED
    BY <1>1, <2>1, <2>7, Received DEF Receive, thread
<1>4. CASE i \in Searches
  <2>1. Receive(CaptureSearch(state, i), <<>>, Sends(i, "done"))
    BY <1>4, Apart DEF Done
  <2>2. LiveOK'
    BY <1>1, <1>4, <2>1, SearchCaptured, Quiet, Apart DEF Receive, thread
  <2> QED
    BY <1>1, <2>1, <2>2, Received DEF Receive, thread
<1>5. CASE i \in Texts
  <2>1. wire[i].phase # "done" /\ Receive(CaptureMessage(state, i), <<>>, Sends(i, "done"))
    BY <1>5, Apart DEF Done
  <2>2. LiveOK'
    BY <1>1, <1>5, <2>1, Finishes DEF Receive, thread
  <2> QED
    BY <1>1, <2>1, <2>2, Received DEF Receive, thread
<1> QED
  BY <1>2, <1>3, <1>4, <1>5, Apart

LEMMA InputStartOK ==
  ASSUME StreamInv, NEW i \in Items, InputStart(i)
  PROVE  StreamInv'
<1>1. LiveOK /\ at = "stream" /\ kind = "vercel" /\ style.streamed /\ i \in Functions
      /\ wire[i].phase # "done"
  BY DEF StreamInv, InputStart, Receive, Refuse
<1>2. CASE Of(state, i) # {} \/ HasCall(state, Id(i, FALSE))
  BY <1>2, Refused DEF InputStart
<1>3. CASE ~(Of(state, i) # {} \/ HasCall(state, Id(i, FALSE)))
  <2>1. Receive([state EXCEPT !.pending = @ \cup {[item |-> i, n |-> 0, ended |-> FALSE]}],
                <<<<i, 0>>>>, Sends(i, "open"))
    BY <1>3 DEF InputStart
  <2>2. wire[i].phase = "none"
    <3>1. wire[i].phase \in StreamStages /\ PendingOK
      BY <1>1, LiveTypes, Apart DEF LiveOK
    <3> QED
      BY <1>1, <1>3, <3>1 DEF PendingOK, StreamStages
  <2>3. LiveOK'
    BY <1>1, <2>1, <2>2, Opened DEF Receive, thread
  <2> QED
    BY <1>1, <2>1, <2>3, Received DEF Receive, thread
<1> QED
  BY <1>2, <1>3

\* An input that is pending has begun, and before it has ended it is open.
LEMMA Pends ==
  ASSUME LiveOK, NEW i \in Functions, Of(state, i) # {}
  PROVE  wire[i].phase # "none"
BY DEF LiveOK, PendingOK, Fits, Of

LEMMA InputDeltaOK ==
  ASSUME StreamInv, NEW i \in Items, InputDelta(i)
  PROVE  StreamInv'
<1>1. /\ LiveOK /\ at = "stream" /\ kind = "vercel" /\ i \in Functions
      /\ wire[i].phase \in {"none", "open"} /\ wire[i].n < 2
  BY DEF StreamInv, InputDelta, Receive, Refuse
<1>2. CASE Of(state, i) = {}
  BY <1>2, Refused DEF InputDelta
<1>3. CASE Of(state, i) # {}
  <2>1. Receive(Grown(state, i), <<>>, [wire EXCEPT ![i].n = @ + 1])
    BY <1>3 DEF InputDelta
  <2>2. wire[i].phase = "open" /\ events \o <<>> = events
    BY <1>1, <1>3, Pends, NothingSaid
  <2>3. LiveOK'
    BY <1>1, <2>1, <2>2, GrownOK DEF Receive, thread
  <2> QED
    BY <1>1, <2>1, <2>3, Received DEF Receive, thread
<1> QED
  BY <1>2, <1>3

LEMMA InputEndOK ==
  ASSUME StreamInv, NEW i \in Items, InputEnd(i)
  PROVE  StreamInv'
<1>1. /\ LiveOK /\ at = "stream" /\ kind = "vercel" /\ i \in Functions
      /\ wire[i].phase = "none" \/ (wire[i].phase = "open" /\ wire[i].n = 2)
  BY DEF StreamInv, InputEnd, Receive, Refuse
<1>2. CASE Of(state, i) = {}
  BY <1>2, Refused DEF InputEnd
<1>3. CASE Of(state, i) # {}
  <2> DEFINE w == Far(2, TRUE)
             pending == {IF p.item = i THEN [p EXCEPT !.ended = TRUE] ELSE p : p \in state.pending}
  <2>1. Receive([state EXCEPT !.pending = pending], <<>>, Sends(i, "ended"))
    BY <1>3 DEF InputEnd
  <2>2. wire[i].phase = "open" /\ wire[i].n = 2 /\ events \o <<>> = events
    BY <1>1, <1>3, Pends, NothingSaid
  <2>3. Sends(i, "ended") = [wire EXCEPT ![i] = w]
    <3>1. wire[i] \in [phase : StreamStages, n : 0 .. 2]
      BY <1>1, Apart, LiveTypes
    <3>2. [wire[i] EXCEPT !.phase = "ended"] = w
      BY <2>2, <3>1 DEF Far
    <3>3. Sends(i, "ended") = [wire EXCEPT ![i] = [wire[i] EXCEPT !.phase = "ended"]]
      BY DEF Sends
    <3> QED
      BY <3>2, <3>3
  <2>4. PICK over \in BOOLEAN : over = TRUE
    OBVIOUS
  <2>5. \A p \in state.pending : Becomes(i, 2, over, p, IF p.item = i THEN [p EXCEPT !.ended = TRUE] ELSE p)
    <3>1. ASSUME NEW p \in state.pending, p.item = i
          PROVE  [p EXCEPT !.ended = TRUE] = [p EXCEPT !.n = 2, !.ended = over]
      <4>1. p \in PendingRecord /\ Fits(p)
        BY <1>1, LiveTypes DEF LiveOK, PendingOK
      <4>2. p.n = 2
        BY <2>2, <3>1, <4>1 DEF Fits
      <4> QED
        BY <2>4, <4>1, <4>2 DEF PendingRecord
    <3> QED
      BY <3>1 DEF Becomes
  <2>6. \A q \in pending : \E p \in state.pending : Becomes(i, 2, over, p, q)
    BY <2>5
  <2>7. \A p \in state.pending : \E q \in pending : Becomes(i, 2, over, p, q)
    BY <2>5
  <2>8. w = Far(2, over) /\ 2 \in 0 .. 2
    BY <2>4
  <2> HIDE DEF pending, w
  <2>9. /\ state' = [state EXCEPT !.pending = pending] /\ wire' = [wire EXCEPT ![i] = Far(2, over)]
        /\ UNCHANGED <<kind, style, events>>
    BY <2>1, <2>2, <2>3, <2>8 DEF Receive, thread
  <2>11. Carries(i, 2, over, pending)
    BY <2>2, <2>6, <2>7, <2>9 DEF Carries
  <2>10. LiveOK'
    BY <1>1, <2>8, <2>11, Carried
  <2> QED
    BY <1>1, <2>1, <2>10, Received DEF Receive, thread
<1> QED
  BY <1>2, <1>3

LEMMA ToolCallOK ==
  ASSUME StreamInv, NEW i \in Items, NEW local \in BOOLEAN, ToolCall(i, local)
  PROVE  StreamInv'
<1>1. /\ LiveOK /\ at = "stream" /\ kind = "vercel" /\ i \in Functions
      /\ wire[i].phase \in (IF style.streamed THEN {"ended", "done"} ELSE {"none", "done"})
  BY DEF StreamInv, ToolCall, Receive, Refuse
<1>2. CASE HasCall(state, Id(i, style.renamed))
  BY <1>2, Refused DEF ToolCall
<1>3. CASE ~HasCall(state, Id(i, style.renamed))
  <2> DEFINE final == style.renamed
             found == Match(state, i, final)
             renames == \E p \in found : Id(p.item, FALSE) # Id(i, final)
             c == Call(i, final, 2, renames, local)
             said == IF found = {} THEN <<<<i, 0>>>> ELSE <<>>
  <2>1. Receive([state EXCEPT !.pending = @ \ found, !.calls = Append(@, c)], said, Sends(i, "done"))
    BY <1>3 DEF ToolCall
  <2>2. /\ (found = Of(state, i) /\ ~Stuck) \/ (found = {} /\ Stuck)
        /\ found = {} => wire[i].phase = "none" \/ Stuck
        /\ wire[i].phase \notin {"open", "done"}
    <3>1. \A x : x = found => x = Match(state, i, style.renamed)
      OBVIOUS
    <3> HIDE DEF found
    <3> QED
      BY <1>1, <1>3, <3>1, Matched
  <2>3. c \in CallRecord /\ c.item = i /\ c.n = 2 /\ c.id = Id(i, style.renamed)
    <3>1. PICK valid \in BOOLEAN : valid = (2 # 1)
      OBVIOUS
    <3>2. PICK provisional \in BOOLEAN : provisional = renames
      OBVIOUS
    <3>3. final \in BOOLEAN
      BY <1>1, LiveTypes DEF Styles
    <3> HIDE DEF renames
    <3>4. c = [item |-> i, id |-> <<i, style.renamed>>, n |-> 2, valid |-> valid,
               provisional |-> provisional, local |-> local, answered |-> FALSE]
      BY <3>1, <3>2 DEF Call, Id
    <3> HIDE DEF c
    <3> QED
      BY <1>1, <3>3, <3>4 DEF CallRecord, Id
  <2>4. \/ events \o said = events
        \/ events \o said = events \o <<<<i, 0>>>> /\ (wire[i].phase = "none" \/ Stuck)
    <3> HIDE DEF found
    <3> QED
      BY <1>1, <2>2, NothingSaid
  <2> HIDE DEF found, c, said
  <2>5. /\ state' = [state EXCEPT !.pending = @ \ found, !.calls = Append(@, c)]
        /\ wire' = Sends(i, "done") /\ UNCHANGED <<kind, style>> /\ events' = events \o said
    BY <2>1 DEF Receive, thread
  <2>6. /\ wire[i].phase # "done" /\ (Stuck => wire[i].phase # "open") /\ (c.n = 0 => wire[i].n = 0)
        /\ \/ events' = events
           \/ events' = events \o <<<<i, 0>>>> /\ (wire[i].phase = "none" \/ Stuck)
    <3>1. wire[i].phase # "done" /\ wire[i].phase # "open"
      BY <2>2
    <3>2. c.n = 0 => wire[i].n = 0
      BY <2>3
    <3>3. \/ events' = events
          \/ events' = events \o <<<<i, 0>>>> /\ (wire[i].phase = "none" \/ Stuck)
      BY <2>4, <2>5, Zenon
    <3> QED
      BY <3>1, <3>2, <3>3, Zenon
  <2>7. LiveOK'
    BY <1>1, <2>2, <2>3, <2>5, <2>6, Taken
  <2> QED
    BY <1>1, <2>1, <2>7, Received DEF Receive, thread
<1> QED
  BY <1>2, <1>3

LEMMA ToolResultOK ==
  ASSUME StreamInv, NEW i \in Items, ToolResult(i)
  PROVE  StreamInv'
<1>1. LiveOK /\ at = "stream" /\ kind = "vercel" /\ i \in Functions /\ events \o <<>> = events
  BY NothingSaid DEF StreamInv, ToolResult, Receive, Refuse
<1> DEFINE calls == [k \in DOMAIN state.calls |->
                       IF state.calls[k].item = i THEN [state.calls[k] EXCEPT !.answered = TRUE]
                       ELSE state.calls[k]]
<1>2. CASE Refuse(wire)
  BY <1>2, Refused
<1>3. CASE Receive([state EXCEPT !.calls = calls], <<>>, wire)
  <2>1. state.calls \in Seq(CallRecord) /\ DOMAIN state.calls = 1 .. Len(state.calls)
        /\ Len(state.calls) \in Nat /\ \A k \in DOMAIN state.calls : state.calls[k] \in CallRecord
    BY <1>1, LiveTypes, LenProperties, ElementOfSeq
  <2>2. DOMAIN calls = DOMAIN state.calls /\
        \A k \in DOMAIN state.calls :
          /\ calls[k] \in CallRecord /\ calls[k].item = state.calls[k].item
          /\ calls[k].id = state.calls[k].id /\ calls[k].n = state.calls[k].n
    BY <2>1 DEF CallRecord
  <2> HIDE DEF calls
  <2>3. calls \in Seq(CallRecord)
    <3>1. calls = [k \in 1 .. Len(state.calls) |-> calls[k]]
      BY <2>1, <2>2 DEF calls
    <3> QED
      BY <2>1, <2>2, <3>1, IsASeq
  <2>4. state' = [state EXCEPT !.calls = calls] /\ UNCHANGED <<wire, kind, style, events>>
    BY <1>1, <1>3 DEF Receive, thread
  <2>5. /\ state' \in StateRecord /\ state'.calls = calls /\ state'.content = state.content
        /\ state'.streamed = state.streamed /\ state'.pending = state.pending
    BY <1>1, <2>3, <2>4, LiveTypes DEF StateRecord
  <2>6. CallsOK'
    <3>1. CallsOK
      BY <1>1 DEF LiveOK
    <3>2. CallsAre(state.calls)'
      BY <2>2, <2>4, <2>5, <3>1 DEF CallsOK, CallsAre
    <3>3. \A j \in Functions : HasCall(state, Id(j, style.renamed))' <=> HasCall(state, Id(j, style.renamed))
      BY <2>2, <2>4, <2>5 DEF HasCall, Id, ToSet
    <3> QED
      BY <2>4, <3>1, <3>2, <3>3 DEF CallsOK
  <2>7. Stuck' <=> Stuck
    BY <2>4, <2>5 DEF Stuck
  <2>8. PendingOK'
    BY <1>1, <2>4, <2>5, <2>7 DEF LiveOK, PendingOK, Fits, Of
  <2>9. TextOK' /\ BegunOK'
    BY <1>1, <2>4, <2>5, <2>7, TextKept, BegunKept
  <2>10. StreamTypes'
    BY <1>1, <2>4, <2>5 DEF LiveOK, StreamTypes
  <2>11. LiveOK'
    BY <2>6, <2>8, <2>9, <2>10 DEF LiveOK
  <2> QED
    BY <1>1, <1>3, <2>11, Received DEF Receive, thread
<1> QED
  BY <1>2, <1>3 DEF ToolResult

LEMMA VercelErrorOK ==
  ASSUME StreamInv, VercelError
  PROVE  StreamInv'
<1>1. /\ LiveOK /\ at = "stream" /\ events \o <<>> = events
      /\ Receive([state EXCEPT !.error = TRUE], <<>>, wire)
  BY NothingSaid DEF StreamInv, VercelError, Receive
<1>2. state' = [state EXCEPT !.error = TRUE] /\ UNCHANGED <<wire, kind, style, events>>
  BY <1>1 DEF Receive, thread
<1>3. /\ state' \in StateRecord /\ state'.calls = state.calls /\ state'.content = state.content
      /\ state'.streamed = state.streamed /\ state'.pending = state.pending
  BY <1>1, <1>2, LiveTypes DEF StateRecord
<1>4. PendingOK' /\ CallsOK' /\ (Stuck => Stuck')
  BY <1>1, <1>2, <1>3, FunctionsKept
<1>5. TextOK' /\ BegunOK'
  BY <1>1, <1>2, <1>3, <1>4, TextKept, BegunKept
<1>6. LiveOK'
  BY <1>1, <1>2, <1>3, <1>4, <1>5 DEF LiveOK, StreamTypes
<1> QED
  BY <1>1, <1>6, Received DEF Receive, thread

\* What the invariant says of the answer, once it is taken.
LEMMA AnswerIsFaithful ==
  ASSUME StreamInv, at = "stream", NEW s, AnswerOK(s),
         state'.content = s.content, state'.calls = s.calls, UNCHANGED <<events, wire, kind, style>>,
         ~Stuck,
         kind = "vercel" => \A e \in ToSet(events) : e[2] = 0 => \E c \in ToSet(s.calls) : c.item = e[1]
  PROVE  StreamFaithful'
<1>1. LiveOK /\ Shown(s) /\ CallsAre(s.calls)
  BY DEF StreamInv, AnswerOK
<1>2. TextOnce'
  BY <1>1 DEF Shown, TextOnce, Once
<1>3. CallsWhole'
  BY <1>1 DEF CallsAre, CallsWhole, Id
<1>4. StartsOnce'
  BY <1>1 DEF LiveOK, BegunOK, StartsOnce
<1>5. StartsAnswered'
  BY DEF StartsAnswered
<1> QED
  BY <1>2, <1>3, <1>4, <1>5 DEF StreamFaithful

LEMMA LiveAnswer ==
  ASSUME StreamInv, at = "stream"
  PROVE  LiveOK /\ AnswerOK(state)
BY LiveTypes DEF StreamInv, AnswerOK, LiveOK, TextOK, CallsOK

LEMMA TerminalOK ==
  ASSUME StreamInv, NEW output \in Outputs, NEW fallback, Terminal(output, fallback)
  PROVE  StreamInv'
<1> DEFINE s == Repeated(output)
           r == [s EXCEPT !.reason = Reason(s, fallback)]
<1>1. kind = "codex" /\ at = "stream" /\ CloseStream(r)
  BY DEF Terminal, CloseStream
<1>2. LiveOK /\ AnswerOK(s)
  <2>1. LiveOK /\ StreamTypes /\ AnswerOK(state)
    BY <1>1, LiveAnswer DEF LiveOK
  <2> QED
    BY <1>1, <2>1, RepeatedOK
<1> HIDE DEF s
<1>3. r.content = s.content /\ r.calls = s.calls
  BY <1>2 DEF AnswerOK, StateRecord
<1> HIDE DEF r
<1>4. state' = r /\ UNCHANGED <<events, wire, kind, style>>
  BY <1>1 DEF CloseStream
<1>5. ~Stuck
  BY <1>1, <1>2 DEF LiveOK, StreamTypes, Stuck
<1>6. kind # "vercel"
  BY <1>1
<1>7. StreamFaithful'
  BY <1>1, <1>2, <1>3, <1>4, <1>5, <1>6, AnswerIsFaithful
<1> QED
  BY <1>1, <1>7, Closes

LEMMA CodexErrorOK ==
  ASSUME StreamInv, CodexError
  PROVE  StreamInv'
<1> DEFINE r == [state EXCEPT !.error = TRUE]
<1>1. at = "stream" /\ CloseStream(r)
  BY DEF CodexError, CloseStream
<1>2. state \in StateRecord
  BY <1>1, LiveAnswer, LiveTypes
<1>3. r.error
  BY <1>2 DEF StateRecord
<1> HIDE DEF r
<1>4. result' = "rejected"
  BY <1>1, <1>3 DEF CloseStream, Finished
<1> QED
  BY <1>1, <1>4, Closes

LEMMA FinishOK ==
  ASSUME StreamInv, NEW reason \in {"stop", "error"}, Finish(reason)
  PROVE  StreamInv'
<1> DEFINE r == [state EXCEPT !.reason = reason, !.error = @ \/ reason = "error"]
<1>1. at = "stream" /\ kind = "vercel" /\ CloseStream(r)
  BY DEF Finish, CloseStream
<1>2. LiveOK /\ AnswerOK(state) /\ state \in StateRecord
  BY <1>1, LiveAnswer, LiveTypes
<1>3. r.content = state.content /\ r.calls = state.calls /\ r.pending = state.pending
  BY <1>2 DEF StateRecord
<1> HIDE DEF r
<1>4. result' = Finished(r) /\ state' = r /\ UNCHANGED <<events, wire, kind, style>>
  BY <1>1 DEF CloseStream
<1>5. ASSUME result' = "response"
      PROVE  StreamFaithful'
  <2>1. state.pending = {}
    BY <1>1, <1>3, <1>4, <1>5 DEF Finished
  <2>2. ~Stuck
    BY <2>1 DEF Stuck
  <2>3. ASSUME NEW e \in ToSet(events), e[2] = 0
        PROVE  \E c \in ToSet(state.calls) : c.item = e[1]
    <3>1. e[1] \in Functions /\ wire[e[1]].phase # "none" /\ wire[e[1]].phase \in StreamStages
      BY <1>2, <2>3, Apart, LiveTypes DEF LiveOK, BegunOK
    <3>2. Of(state, e[1]) = {}
      BY <2>1 DEF Of
    <3>3. wire[e[1]].phase = "done"
      BY <1>2, <3>1, <3>2 DEF LiveOK, PendingOK, StreamStages
    <3>4. HasCall(state, Id(e[1], style.renamed))
      BY <1>2, <3>1, <3>3 DEF LiveOK, CallsOK
    <3> QED
      BY <1>2, <3>1, <3>4, KnownCalls
  <2> QED
    BY <1>1, <1>2, <1>3, <1>4, <2>2, <2>3, AnswerIsFaithful
<1> QED
  BY <1>1, <1>5, Closes

LEMMA StreamSteps ==
  ASSUME StreamInv, PostedOK, [GatewayNext]_gatewayVars
  PROVE  StreamInv'
<1>1. CASE UNCHANGED gatewayVars
  BY <1>1 DEF gatewayVars, StreamInv, LiveOK, StreamTypes, PendingOK, Fits, Stuck, Of, CallsOK, CallsAre,
              HasCall, TextOK, Shown, BegunOK, StartsOnce, StreamFaithful, TextOnce, CallsWhole,
              StartsAnswered
<1>2. ASSUME Unbuildable \/ Broken
      PROVE  StreamInv'
  BY <1>2 DEF Unbuildable, Broken, StreamInv, StreamFaithful, Results, SendErrors
<1>3. ASSUME UNCHANGED <<kind, style, wire, state, events, result>>, at' = at \/ (at = "connect" /\ at' = "stream")
      PROVE  StreamInv'
  <2>1. LiveOK => LiveOK'
    BY <1>3 DEF LiveOK, StreamTypes, PendingOK, Fits, Stuck, Of, CallsOK, CallsAre,
              HasCall, TextOK, Shown, BegunOK, StartsOnce
  <2>2. StreamFaithful => StreamFaithful'
    BY <1>3 DEF StreamFaithful, TextOnce, CallsWhole, StartsOnce, StartsAnswered
  <2> QED
    BY <1>3, <2>1, <2>2 DEF StreamInv
<1>4. ASSUME NEW error \in SendErrors, SendFails(error)
      PROVE  StreamInv'
  <2>1. CASE UNCHANGED <<at, result>>
    BY <1>3, <1>4, <2>1 DEF SendFails
  <2>2. CASE at' = "closed" /\ result' = error
    BY <2>2 DEF StreamInv, StreamFaithful, Results, SendErrors
  <2> QED
    BY <1>4, <2>1, <2>2 DEF SendFails
<1>5. CASE Sent \/ Abandon \/ Return
  BY <1>3, <1>5 DEF Sent, Abandon, Return, thread
<1>6. CASE GatewayNext
  BY <1>2, <1>4, <1>5, <1>6, AddedOK, DeltaOK, DoneOK, TerminalOK, CodexErrorOK, TextDeltaOK, InputStartOK,
     InputDeltaOK, InputEndOK, ToolCallOK, ToolResultOK, VercelErrorOK, FinishOK DEF GatewayNext
<1> QED
  BY <1>1, <1>6

LEMMA PostedSteps ==
  ASSUME PostedOK, [GatewayNext]_gatewayVars
  PROVE  PostedOK'
<1>1. ASSUME UNCHANGED <<at, posted, result>>
      PROVE  PostedOK'
  BY <1>1 DEF PostedOK
<1>2. ASSUME at # "connect", at' = "closed", result' # "unsent", UNCHANGED posted
      PROVE  PostedOK'
  BY <1>2 DEF PostedOK
<1>3. CASE Unbuildable \/ Sent
  BY <1>3 DEF PostedOK, Unbuildable, Sent
<1>4. ASSUME NEW error \in SendErrors, SendFails(error)
      PROVE  PostedOK'
  <2>1. at = "connect" /\ posted = 0 /\ result = "none"
    BY <1>4 DEF PostedOK, SendFails
  <2>2. posted' \in {0, 1} /\ (error = "unsent" => posted' = 0)
    BY <1>4, <2>1 DEF SendFails, SendErrors
  <2>3. CASE error \in Retried /\ retries < MaxRetries
    BY <1>4, <2>1, <2>2, <2>3 DEF SendFails, PostedOK, Retried
  <2>4. CASE ~(error \in Retried /\ retries < MaxRetries)
    BY <1>4, <2>1, <2>2, <2>4 DEF SendFails, PostedOK
  <2> QED
    BY <2>3, <2>4
<1>5. CASE Broken
  BY <1>2, <1>5 DEF Broken
<1>6. CASE Abandon \/ Return
  BY <1>1, <1>6 DEF Abandon, Return, thread
<1>7. ASSUME NEW s, NEW said, NEW sends, Receive(s, said, sends) \/ Refuse(sends) \/ CloseStream(s)
      PROVE  PostedOK'
  BY <1>1, <1>2, <1>7 DEF Receive, Refuse, CloseStream, Finished, thread
<1>8. ASSUME NEW i \in Items, Added(i) \/ Delta(i) \/ Done(i, 0) \/ Done(i, 2)
      PROVE  PostedOK'
  BY <1>7, <1>8, Apart DEF Added, Delta, Done
<1>9. ASSUME NEW i \in Items, TextDelta(i) \/ InputStart(i) \/ InputDelta(i) \/ InputEnd(i) \/ ToolCall(i, TRUE)
                              \/ ToolCall(i, FALSE) \/ ToolResult(i)
      PROVE  PostedOK'
  BY <1>7, <1>9 DEF TextDelta, InputStart, InputDelta, InputEnd, ToolCall, ToolResult
<1>10. ASSUME NEW output, NEW fallback, Terminal(output, fallback)
       PROVE  PostedOK'
  BY <1>7, <1>10 DEF Terminal
<1>11. CASE CodexError \/ VercelError \/ \E reason \in {"stop", "error"} : Finish(reason)
  BY <1>7, <1>11 DEF CodexError, VercelError, Finish
<1>12. CASE UNCHANGED gatewayVars
  BY <1>1, <1>12 DEF gatewayVars
<1> QED
  BY <1>3, <1>4, <1>5, <1>6, <1>8, <1>9, <1>10, <1>11, <1>12 DEF GatewayNext

LEMMA GatewayBegins ==
  ASSUME GatewayInit
  PROVE  StreamInv /\ PostedOK
<1>1. /\ state = Empty /\ events = <<>> /\ at = "connect" /\ result = "none" /\ posted = 0
      /\ wire = [i \in Items |-> [phase |-> "none", n |-> 0]] /\ kind \in Kinds /\ style \in Styles
      /\ kind = "codex" => style.streamed /\ ~style.renamed /\ ~style.equal
  BY DEF GatewayInit, Kinds, Styles
<1>2. /\ state \in StateRecord /\ state.pending = {} /\ state.calls = <<>> /\ state.content = <<>>
  BY <1>1 DEF Empty, StateRecord
<1>3. events \in Seq(SinkEvents) /\ ToSet(<<>>) = {} /\ DOMAIN <<>> = {}
  BY <1>1 DEF ToSet
<1>4. /\ wire \in [Items -> [phase : StreamStages, n : 0 .. 2]]
      /\ \A i \in Items : wire[i].phase = "none" /\ wire[i].n = 0
  BY <1>1 DEF StreamStages
<1>5. StreamTypes
  BY <1>1, <1>2, <1>3, <1>4 DEF StreamTypes
<1>6. PendingOK
  BY <1>2, <1>4, Apart DEF PendingOK
<1>7. CallsOK
  BY <1>2, <1>3, <1>4, Apart DEF CallsOK, CallsAre, HasCall
<1>8. TextOK
  BY <1>1, <1>2, <1>3, <1>4, Apart DEF TextOK, Shown, Once
<1>9. BegunOK
  BY <1>1, <1>3 DEF BegunOK, StartsOnce
<1>10. StreamInv
  BY <1>1, <1>5, <1>6, <1>7, <1>8, <1>9 DEF StreamInv, LiveOK, StreamFaithful, Results
<1> QED
  BY <1>1, <1>10 DEF PostedOK

LEMMA GatewayInvariance == GatewaySpec => [](StreamInv /\ PostedOK)
<1>1. GatewayInit => StreamInv /\ PostedOK
  BY GatewayBegins
<1>2. StreamInv /\ PostedOK /\ [GatewayNext]_gatewayVars => (StreamInv /\ PostedOK)'
  BY StreamSteps, PostedSteps
<1> QED
  BY <1>1, <1>2, PTL DEF GatewaySpec

\* Whatever the provider streams, repeats and renames, an answer that is taken is what was
\* streamed: no text or call twice, none announced that is not in it.
THEOREM AnswersAreFaithful == GatewaySpec => []StreamFaithful
<1>1. StreamInv => StreamFaithful
  BY DEF StreamInv
<1> QED
  BY <1>1, GatewayInvariance, PTL

\* However often a request is tried, it is delivered once at most, and what was never sent
\* was not delivered.
THEOREM RequestsGoOnce == GatewaySpec => []DeliveredOnce
<1>1. PostedOK => DeliveredOnce
  BY DEF PostedOK, DeliveredOnce
<1> QED
  BY <1>1, GatewayInvariance, PTL

LEMMA TypeSteps ==
  ASSUME StreamInv, StreamInv', GatewayTypeOK, [GatewayNext]_gatewayVars
  PROVE  GatewayTypeOK'
<1>0. MaxRetries \in Nat
  BY GatewayAssumption DEF GatewayAssumption
<1>1. at' # "closed" => \A p \in state'.pending : p.item \in Functions /\ p.n \in 0 .. 2
  <2>1. ASSUME at' # "closed"
        PROVE  state'.pending \in SUBSET PendingRecord
    BY <2>1 DEF StreamInv, LiveOK, StreamTypes, StateRecord
  <2> QED
    BY <2>1 DEF PendingRecord
\* The pending inputs: as they were, or of a state of a known type.
<1>2. ASSUME state' = state \/ state' \in StateRecord, UNCHANGED retries,
             at \in {"connect", "stream"}, at' \in {"connect", "stream", "closed"}, UNCHANGED outcome
      PROVE  GatewayTypeOK'
  <2>1. \A p \in state'.pending : p.item \in Functions /\ p.n \in 0 .. 2
    <3>1. CASE state' = state
      BY <3>1 DEF GatewayTypeOK
    <3>2. CASE state' \in StateRecord
      BY <3>2 DEF StateRecord, PendingRecord
    <3> QED
      BY <1>2, <3>1, <3>2
  <2>2. at' = "closed" <=> result' # "none"
    BY DEF StreamInv
  <2>3. outcome \in {"none", "cancelled"}
    BY <1>2 DEF GatewayTypeOK
  <2> QED
    BY <1>2, <2>1, <2>2, <2>3 DEF GatewayTypeOK
<1>3. ASSUME NEW s, NEW said, NEW sends, Receive(s, said, sends) \/ Refuse(sends)
      PROVE  GatewayTypeOK'
  <2>1. at = "stream" /\ UNCHANGED <<retries, outcome>>
    BY <1>3 DEF Receive, Refuse, thread
  <2>2. CASE Receive(s, said, sends)
    <3>1. at' = "stream"
      BY <2>2 DEF Receive, thread
    <3>2. state' \in StateRecord
      BY <3>1 DEF StreamInv, LiveOK, StreamTypes
    <3> QED
      BY <1>2, <2>1, <3>1, <3>2
  <2>3. CASE Refuse(sends)
    BY <1>2, <2>1, <2>3 DEF Refuse
  <2> QED
    BY <1>3, <2>2, <2>3
<1>4. ASSUME NEW s \in StateRecord, CloseStream(s)
      PROVE  GatewayTypeOK'
  BY <1>2, <1>4 DEF CloseStream
<1>5. ASSUME Unbuildable \/ Broken \/ Sent
      PROVE  GatewayTypeOK'
  BY <1>2, <1>5 DEF Unbuildable, Broken, Sent
<1>6. ASSUME NEW error \in SendErrors, SendFails(error)
      PROVE  GatewayTypeOK'
  <2>1. CASE error \in Retried /\ retries < MaxRetries
    BY <1>0, <1>6, <2>1 DEF SendFails, GatewayTypeOK
  <2>2. CASE ~(error \in Retried /\ retries < MaxRetries)
    BY <1>2, <1>6, <2>2 DEF SendFails
  <2> QED
    BY <2>1, <2>2
<1>7. CASE Abandon \/ Return
  BY <1>7 DEF Abandon, Return, thread, GatewayTypeOK
<1>8. ASSUME NEW i \in Items, Added(i) \/ Delta(i) \/ Done(i, 0) \/ Done(i, 2)
      PROVE  GatewayTypeOK'
  BY <1>3, <1>8, Apart DEF Added, Delta, Done
<1>9. ASSUME NEW i \in Items, TextDelta(i) \/ InputStart(i) \/ InputDelta(i) \/ InputEnd(i) \/ ToolCall(i, TRUE)
                              \/ ToolCall(i, FALSE) \/ ToolResult(i)
      PROVE  GatewayTypeOK'
  BY <1>3, <1>9 DEF TextDelta, InputStart, InputDelta, InputEnd, ToolCall, ToolResult
<1>10. ASSUME at = "stream"
       PROVE  state \in StateRecord /\ LiveOK
  BY <1>10, LiveAnswer DEF AnswerOK
<1>11. ASSUME NEW output \in Outputs, NEW fallback \in {"stop", "length"}, Terminal(output, fallback)
       PROVE  GatewayTypeOK'
  <2> DEFINE s == Repeated(output)
             r == [s EXCEPT !.reason = Reason(s, fallback)]
  <2>1. kind = "codex" /\ at = "stream" /\ CloseStream(r)
    BY <1>11 DEF Terminal, CloseStream
  <2>2. s \in StateRecord
    BY <2>1, LiveAnswer, RepeatedOK DEF LiveOK, AnswerOK
  <2>3. Reason(s, fallback) \in {"none", "toolCalls", "stop", "length", "error"}
    BY DEF Reason
  <2> HIDE DEF s
  <2>4. r \in StateRecord
    BY <2>2, <2>3 DEF StateRecord
  <2> HIDE DEF r
  <2> QED
    BY <1>4, <2>1, <2>4
<1>12. CASE CodexError
  <2> DEFINE r == [state EXCEPT !.error = TRUE]
  <2>1. at = "stream" /\ CloseStream(r)
    BY <1>12 DEF CodexError, CloseStream
  <2>2. r \in StateRecord
    BY <1>10, <2>1 DEF StateRecord
  <2> HIDE DEF r
  <2> QED
    BY <1>4, <2>1, <2>2
<1>13. ASSUME NEW reason \in {"stop", "error"}, Finish(reason)
       PROVE  GatewayTypeOK'
  <2> DEFINE error == state.error \/ reason = "error"
             r == [state EXCEPT !.reason = reason, !.error = error]
  <2>1. at = "stream" /\ CloseStream(r)
    BY <1>13 DEF Finish, CloseStream
  <2>2. PICK b \in BOOLEAN : b = error
    OBVIOUS
  <2> HIDE DEF error
  <2>3. r \in StateRecord
    BY <1>10, <2>1, <2>2 DEF StateRecord
  <2> HIDE DEF r
  <2> QED
    BY <1>4, <2>1, <2>3
<1>14. CASE VercelError
  BY <1>3, <1>14 DEF VercelError
<1>15. CASE UNCHANGED gatewayVars
  BY <1>15 DEF gatewayVars, GatewayTypeOK
<1> QED
  BY <1>5, <1>6, <1>7, <1>8, <1>9, <1>11, <1>12, <1>13, <1>14, <1>15 DEF GatewayNext

LEMMA GatewayTyped == GatewaySpec => []GatewayTypeOK
<1>1. GatewayInit => GatewayTypeOK
  BY GatewayAssumption DEF GatewayInit, GatewayTypeOK, Empty, GatewayAssumption
<1>2. (StreamInv /\ PostedOK) /\ (StreamInv /\ PostedOK)' /\ GatewayTypeOK /\ [GatewayNext]_gatewayVars
        => GatewayTypeOK'
  BY TypeSteps
<1> QED
  BY <1>1, <1>2, GatewayInvariance, PTL DEF GatewaySpec

-----------------------------------------------------------------------------
(* The parts together: a behaviour of all is one of each.                  *)

LEMMA ServicesParts == ServicesSpec => Spec /\ CredentialsSpec /\ GatewaySpec /\ McpSpec
<1>1. ServicesInit => Init /\ CredentialsInit /\ GatewayInit /\ McpInit
  BY DEF ServicesInit
<1> DEFINE all == <<part, vars, credentialVars, gatewayVars, mcpVars>>
<1>2. [ServicesNext]_all => [Next]_vars
  BY DEF ServicesNext
<1>3. [ServicesNext]_all => [CredentialsNext]_credentialVars
  BY DEF ServicesNext
<1>4. [ServicesNext]_all => [GatewayNext]_gatewayVars
  BY DEF ServicesNext
<1>5. [ServicesNext]_all => [McpNext]_mcpVars
  BY DEF ServicesNext
<1> QED
  BY <1>1, <1>2, <1>3, <1>4, <1>5, PTL DEF ServicesSpec, Spec, CredentialsSpec, GatewaySpec, McpSpec

\* Whatever the children, the processes, the providers and the servers do, the variables
\* of all four parts stay in the sets that the code's types and limits allow.
THEOREM ServicesAreTyped == ServicesSpec => []ServicesTypeOK
<1>1. TypeOK /\ CredentialsTypeOK /\ GatewayTypeOK /\ McpTypeOK => ServicesTypeOK
  BY DEF ServicesTypeOK
<1> QED
  BY <1>1, ServicesParts, ManagerTyped, StoreTyped, GatewayTyped, McpTyped, PTL
=============================================================================
